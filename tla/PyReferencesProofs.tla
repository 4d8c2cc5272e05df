------------------------- MODULE PyReferencesProofs -------------------------
(***************************************************************************)
(* Proofs about PyReferences, for any number of objects, elements, levels   *)
(* and calls.  As in ValuesProofs every step moves the holders of an object *)
(* by a known amount, and its count by the same amount.  What a call is     *)
(* still building has one holder; by the count, nobody else has it.         *)
(***************************************************************************)
EXTENDS PyReferences, FiniteSetTheorems, WellFoundedInduction, TLAPS

-----------------------------------------------------------------------------
(***************************************************************************)
(* The inductive invariant.                                                 *)
(***************************************************************************)

\* How often a sequence, or the locals, hold o
Times(f, o) == Cardinality({i \in DOMAIN f : f[i] = o})
In(f, o) == \E i \in DOMAIN f : f[i] = o
Distinct(f) == \A i, j \in DOMAIN f : f[i] = f[j] => i = j

\* The arrays under conversion, and the keys in hand
Arrays(c) == [i \in DOMAIN c |-> c[i].object]
Keys(c) == [i \in DOMAIN c |-> c[i].key]

\* The containers that hold o
Boxes(h, o) == Cardinality({c \in Objects : In(h[c], o)})

\* References to o that call_python_function and the conversions it calls own
Owns(l, h, c, o) == Times(l, o) + Count(o = h) + Times(Arrays(c), o) + Times(Keys(c), o)

\* References to o that outlive the call: the module's and the cached client's
Kept(cl, o) == Count(o = Func) + Count(o \in cl)

\* References to o that are to be released, and those of containers
Loose(t, h, o) == Times(t, o) + Boxes(h, o)

Frames == [object : Objects, kind : {"list", "dict"}, left : Nat, key : Objects \cup {NULL}]

Types ==
    /\ rc \in [Objects -> Nat]
    /\ items \in [Objects -> Seq(Objects)]
    /\ packed \in Seq({"token", "url"} \cup Queries)
    /\ local \in [Slots -> Objects \cup {NULL}]
    /\ conv \in Seq(Frames)
    /\ hand \in Objects \cup {NULL}
    /\ trash \in Seq(Objects)
    /\ lost \in [Objects -> Nat]
    /\ calls \in Nat

\* Where the call is: what belongs to it is there only while it runs, and while a
\* value is being converted its argument is still missing.  An array waits for the
\* element that is being converted, a dict with its key in hand.
Progress ==
    /\ local["pyFunc"] \in {Func, NULL}
    /\ local["pyFunc"] = NULL => local = Empty /\ conv = <<>> /\ hand = NULL
    /\ conv # <<>> \/ hand # NULL => \E q \in Queries : Missing(q)
    /\ local["pyResult"] # NULL => local["pyArgs"] # NULL
    /\ Len(conv) <= MaxDepth
    /\ \A i \in DOMAIN conv : conv[i].key # NULL => conv[i].kind = "dict" /\ conv[i].left > 0
    /\ \A i \in DOMAIN conv :
          i < Len(conv) \/ hand # NULL
          => conv[i].left > 0 /\ (conv[i].kind = "dict" => conv[i].key # NULL)

\* Does the call still build o?  Then nobody else has seen it.
Building(o) ==
    \/ o = hand
    \/ In(Arrays(conv), o)
    \/ In(Keys(conv), o)
    \/ local["pyArgs"] = NULL /\ \E s \in Slots \ {"pyFunc"} : local[s] = o

BuiltAlone == \A o \in Objects : Building(o) => rc[o] = 1

\* No object is owned twice by the call.
OwnedOnce == \A o \in Objects : Owns(local, hand, conv, o) <= 1

\* No container holds an object twice, a free one holds none, and a dict has a
\* value for each key.
Containers ==
    /\ \A c \in Objects : Distinct(items[c])
    /\ \A c \in Objects : rc[c] = 0 => items[c] = <<>>
    /\ \A i \in DOMAIN conv :
          conv[i].kind = "dict" /\ items[conv[i].object] # <<>> => Len(items[conv[i].object]) >= 2

CountInv == Types /\ Progress /\ BuiltAlone /\ OwnedOnce /\ Containers /\ CountsCoverHolders

-----------------------------------------------------------------------------
(***************************************************************************)
(* Counting.                                                                *)
(***************************************************************************)

\* Objects are finitely many numbers; NULL is none, the function is one of them.
LEMMA ObjectsFinite == IsFiniteSet(Objects) /\ NULL \notin Objects /\ Func \in Objects
<1>1. MaxObjects \in Nat /\ MaxObjects >= 1
    BY BoundsAssumption
<1>2. IsFiniteSet(1..MaxObjects)
    BY <1>1, FS_Interval
<1>3. QED
    BY <1>1, <1>2 DEF Objects, NULL, Func

\* Sets with at most n elements, and what becomes of them when they are united
Small(S, n) == IsFiniteSet(S) /\ Cardinality(S) \in Nat /\ Cardinality(S) <= n

\* A union has at most as many elements as its parts together.
LEMMA SmallUnion ==
    ASSUME NEW S, NEW n \in Nat, Small(S, n), NEW T, NEW m \in Nat, Small(T, m)
    PROVE  Small(S \cup T, n + m)
<1>1. /\ Cardinality(S) \in Nat /\ Cardinality(S) <= n
      /\ Cardinality(T) \in Nat /\ Cardinality(T) <= m
    BY DEF Small
<1>2. IsFiniteSet(S \cup T) /\ IsFiniteSet(S \cap T)
      /\ Cardinality(S \cup T) = Cardinality(S) + Cardinality(T) - Cardinality(S \cap T)
    BY FS_Union, FS_Intersection DEF Small
<1>3. Cardinality(S \cap T) \in Nat /\ Cardinality(S \cup T) \in Nat
    BY <1>2, FS_CardinalityType
<1>4. QED
    BY <1>1, <1>2, <1>3 DEF Small

\* A subset has no more elements.
LEMMA SmallSubset == ASSUME NEW S, NEW n \in Nat, Small(S, n), NEW T \in SUBSET S PROVE Small(T, n)
<1>1. IsFiniteSet(T) /\ Cardinality(T) <= Cardinality(S)
    BY FS_Subset DEF Small
<1>2. Cardinality(T) \in Nat
    BY <1>1, FS_CardinalityType
<1>3. QED
    BY <1>1, <1>2 DEF Small

\* A set of four, and of seven
LEMMA SmallSets ==
    /\ \A a, b, c, d : Small({a, b, c, d}, 4)
    /\ \A a, b, c, d, e, f, g : Small({a, b, c, d, e, f, g}, 7)
<1>1. ASSUME NEW x PROVE Small({x}, 1)
    <2>1. IsFiniteSet({x}) /\ Cardinality({x}) = 1
        BY FS_Singleton
    <2>2. QED
        BY <2>1 DEF Small
<1>2. ASSUME NEW a, NEW b PROVE Small({a, b}, 2)
    <2>1. Small({a} \cup {b}, 1 + 1)
        BY <1>1, SmallUnion, Zenon
    <2>2. {a} \cup {b} = {a, b} /\ 1 + 1 = 2
        OBVIOUS
    <2>3. QED
        BY <2>1, <2>2
<1>3. ASSUME NEW a, NEW b, NEW c, NEW d PROVE Small({a, b, c, d}, 4)
    <2>1. 2 \in Nat
        OBVIOUS
    <2>2. Small({a, b} \cup {c, d}, 2 + 2)
        BY <1>2, <2>1, SmallUnion, Zenon
    <2>3. {a, b} \cup {c, d} = {a, b, c, d} /\ 2 + 2 = 4
        OBVIOUS
    <2>4. QED
        BY <2>2, <2>3
<1>4. ASSUME NEW a, NEW b, NEW c, NEW d, NEW e, NEW f, NEW g
      PROVE  Small({a, b, c, d, e, f, g}, 7)
    <2>1. 1 \in Nat /\ 2 \in Nat /\ 4 \in Nat /\ 4 + 2 \in Nat
        OBVIOUS
    <2>2. Small({a, b, c, d} \cup {e, f}, 4 + 2)
        BY <1>2, <1>3, <2>1, SmallUnion, Zenon
    <2>3. Small(({a, b, c, d} \cup {e, f}) \cup {g}, (4 + 2) + 1)
        BY <1>1, <2>1, <2>2, SmallUnion, Zenon
    <2>4. ({a, b, c, d} \cup {e, f}) \cup {g} = {a, b, c, d, e, f, g} /\ (4 + 2) + 1 = 7
        OBVIOUS
    <2>5. QED
        BY <2>3, <2>4
<1>5. QED
    BY <1>3, <1>4

\* The locals are finitely many.
LEMMA SlotsFinite == IsFiniteSet(Slots)
<1>1. Slots = {"pyFunc", "token", "url", "pyArgs", "pyResult", "query", "query2"}
    BY DEF Slots, Queries
<1>2. QED
    BY <1>1, SmallSets DEF Small

\* Two subsets of a finite set that differ in one element at most
LEMMA CountOne ==
    ASSUME NEW S, IsFiniteSet(S), NEW A \in SUBSET S, NEW B \in SUBSET S, NEW x \in S,
           \A y \in S \ {x} : y \in A <=> y \in B
    PROVE  /\ Cardinality(A) \in Nat /\ Cardinality(B) \in Nat
           /\ Cardinality(B) = Cardinality(A) - Count(x \in A) + Count(x \in B)
<1>1. IsFiniteSet(A) /\ IsFiniteSet(B)
    BY FS_Subset
<1>2. Cardinality(A) \in Nat /\ Cardinality(B) \in Nat
    BY <1>1, FS_CardinalityType
<1>3. A \ {x} = B \ {x}
    OBVIOUS
<1>4. /\ Cardinality(A \ {x}) = IF x \in A THEN Cardinality(A) - 1 ELSE Cardinality(A)
      /\ Cardinality(B \ {x}) = IF x \in B THEN Cardinality(B) - 1 ELSE Cardinality(B)
    BY <1>1, FS_RemoveElement
<1>5. QED
    BY <1>2, <1>3, <1>4 DEF Count

\* Occurrences are a number, and there are none exactly of what is not there.
LEMMA TimesType ==
    ASSUME NEW f, IsFiniteSet(DOMAIN f), NEW o
    PROVE  Times(f, o) \in Nat /\ (Times(f, o) = 0 <=> ~In(f, o))
<1> DEFINE A == {i \in DOMAIN f : f[i] = o}
<1>1. IsFiniteSet(A)
    BY FS_Subset
<1>2. Cardinality(A) \in Nat /\ (Cardinality(A) = 0 <=> A = {})
    BY <1>1, FS_CardinalityType, FS_EmptySet
<1>3. QED
    BY <1>2 DEF Times, In

\* One place gets another object.
LEMMA TimesChange ==
    ASSUME NEW f, IsFiniteSet(DOMAIN f), NEW g, DOMAIN g = DOMAIN f, NEW x \in DOMAIN f,
           \A y \in DOMAIN f : y # x => g[y] = f[y], NEW o
    PROVE  Times(g, o) = Times(f, o) - Count(f[x] = o) + Count(g[x] = o)
<1> DEFINE A == {i \in DOMAIN f : f[i] = o}
           B == {i \in DOMAIN f : g[i] = o}
<1>1. /\ A \in SUBSET (DOMAIN f) /\ B \in SUBSET (DOMAIN f)
      /\ \A y \in DOMAIN f \ {x} : y \in A <=> y \in B
    OBVIOUS
<1>2. (x \in A <=> f[x] = o) /\ (x \in B <=> g[x] = o)
    OBVIOUS
<1>3. Times(f, o) = Cardinality(A) /\ Times(g, o) = Cardinality(B)
    BY DEF Times
<1> HIDE DEF A, B
<1>4. Cardinality(B) = Cardinality(A) - Count(x \in A) + Count(x \in B)
    BY <1>1, CountOne
<1>5. QED
    BY <1>2, <1>3, <1>4 DEF Count

\* A function all of whose values are distinct
LEMMA TimesDistinct ==
    ASSUME NEW f, IsFiniteSet(DOMAIN f), Distinct(f), NEW o
    PROVE  Times(f, o) = Count(In(f, o))
<1>1. CASE In(f, o)
    <2>1. PICK i \in DOMAIN f : f[i] = o
        BY <1>1 DEF In
    <2>2. {j \in DOMAIN f : f[j] = o} = {i}
        BY <2>1 DEF Distinct
    <2>3. QED
        BY <1>1, <2>2, FS_Singleton DEF Times, Count
<1>2. CASE ~In(f, o)
    BY <1>2, TimesType DEF Count
<1>3. QED
    BY <1>1, <1>2

\* A sequence h made of f, of length m, and g, of length n
Joins(h, f, m, g, n) ==
    /\ m \in Nat /\ n \in Nat
    /\ DOMAIN f = 1..m /\ DOMAIN g = 1..n /\ DOMAIN h = 1..(m + n)
    /\ \A i \in 1..m : h[i] = f[i]
    /\ \A i \in 1..n : h[m + i] = g[i]

\* A sequence that joins two has an object as often as both together.
LEMMA TimesJoin ==
    ASSUME NEW f, NEW g, NEW h, NEW m, NEW n, NEW o, Joins(h, f, m, g, n)
    PROVE  Times(h, o) = Times(f, o) + Times(g, o)
<1> USE DEF Joins
<1> DEFINE A == {i \in 1..m : f[i] = o}
           B == {i \in 1..n : g[i] = o}
           C == {i \in 1..(m + n) : h[i] = o}
           D == {i \in (m + 1)..(m + n) : h[i] = o}
           shift == [i \in B |-> m + i]
<1>1. IsFiniteSet(A) /\ IsFiniteSet(B) /\ IsFiniteSet(D)
    <2>1. IsFiniteSet(1..m) /\ IsFiniteSet(1..n) /\ IsFiniteSet((m + 1)..(m + n))
        BY FS_Interval
    <2>2. A \in SUBSET (1..m) /\ B \in SUBSET (1..n) /\ D \in SUBSET ((m + 1)..(m + n))
        OBVIOUS
    <2> HIDE DEF A, B, D
    <2>3. QED
        BY <2>1, <2>2, FS_Subset
<1>2. C = A \cup D /\ A \cap D = {}
    OBVIOUS
<1>3. shift \in Bijection(B, D)
    <2>1. shift \in [B -> D]
        OBVIOUS
    <2>2. \A i, j \in B : shift[i] = shift[j] => i = j
        OBVIOUS
    <2>3. \A k \in D : \E i \in B : shift[i] = k
        <3>1. ASSUME NEW k \in D PROVE k - m \in B /\ shift[k - m] = k
            OBVIOUS
        <3>2. QED
            BY <3>1
    <2>4. QED
        BY <2>1, <2>2, <2>3 DEF Bijection, Injection, Surjection, IsInjective
<1>4. Cardinality(D) = Cardinality(B)
    BY <1>1, <1>3, FS_Bijection DEF ExistsBijection
<1>5. Times(f, o) = Cardinality(A) /\ Times(g, o) = Cardinality(B) /\ Times(h, o) = Cardinality(C)
    BY DEF Times
<1> HIDE DEF A, B, C, D
<1>6. Cardinality(C) = Cardinality(A) + Cardinality(D) - Cardinality({})
    BY <1>1, <1>2, FS_Union
<1>7. Cardinality(A) \in Nat /\ Cardinality(B) \in Nat /\ Cardinality({}) = 0
    BY <1>1, FS_CardinalityType, FS_EmptySet
<1>8. QED
    BY <1>4, <1>5, <1>6, <1>7

\* Sequences: what they hold is a number, nothing if they are empty, one thing more
\* when they grow, and the sum when they are put together.
LEMMA TimesSeq ==
    ASSUME NEW S, NEW o
    PROVE  /\ Times(<<>>, o) = 0
           /\ \A x \in S : Times(<<x>>, o) = Count(x = o)
           /\ \A s \in Seq(S) : IsFiniteSet(DOMAIN s) /\ Times(s, o) \in Nat
           /\ \A s \in Seq(S), x \in S : Times(Append(s, x), o) = Times(s, o) + Count(x = o)
<1>1. \A s \in Seq(S) : IsFiniteSet(DOMAIN s)
    <2> SUFFICES ASSUME NEW s \in Seq(S) PROVE IsFiniteSet(DOMAIN s)
        OBVIOUS
    <2>1. DOMAIN s = 1..Len(s) /\ Len(s) \in Nat
        OBVIOUS
    <2>2. QED
        BY <2>1, FS_Interval
<1>2. Times(<<>>, o) = 0
    <2>1. {i \in DOMAIN <<>> : <<>>[i] = o} = {}
        OBVIOUS
    <2>2. QED
        BY <2>1, FS_EmptySet DEF Times
<1>3. \A x \in S : Times(<<x>>, o) = Count(x = o)
    <2> SUFFICES ASSUME NEW x \in S PROVE Times(<<x>>, o) = Count(x = o)
        OBVIOUS
    <2>1. {i \in DOMAIN <<x>> : <<x>>[i] = o} = IF x = o THEN {1} ELSE {}
        OBVIOUS
    <2>2. QED
        BY <2>1, FS_EmptySet, FS_Singleton DEF Times, Count
<1>4. \A s \in Seq(S) : Times(s, o) \in Nat
    BY <1>1, TimesType
<1>5. \A s \in Seq(S), x \in S : Times(Append(s, x), o) = Times(s, o) + Count(x = o)
    <2> SUFFICES ASSUME NEW s \in Seq(S), NEW x \in S
                 PROVE  Times(Append(s, x), o) = Times(s, o) + Count(x = o)
        OBVIOUS
    <2> DEFINE t == <<x>>
               h == Append(s, x)
               m == Len(s)
    <2>1. m \in Nat /\ DOMAIN s = 1..m /\ DOMAIN t = 1..1 /\ DOMAIN h = 1..(m + 1)
        OBVIOUS
    <2>2. (\A i \in 1..m : h[i] = s[i]) /\ \A i \in 1..1 : h[m + i] = t[i]
        OBVIOUS
    <2>3. Times(t, o) = Count(x = o)
        BY <1>3
    <2> HIDE DEF t, h, m
    <2>4. Times(h, o) = Times(s, o) + Times(t, o)
        <3>1. Joins(h, s, m, t, 1)
            BY <2>1, <2>2 DEF Joins
        <3>2. QED
            BY <3>1, TimesJoin
    <2>5. QED
        BY <2>3, <2>4 DEF h
<1>6. QED
    BY <1>1, <1>2, <1>3, <1>4, <1>5

\* A sequence that is one longer than another
LEMMA TimesGrow ==
    ASSUME NEW s, NEW t, NEW n \in Nat, NEW o, DOMAIN s = 1..n, DOMAIN t = 1..(n + 1),
           \A i \in 1..n : t[i] = s[i]
    PROVE  Times(t, o) = Times(s, o) + Count(t[n + 1] = o)
<1> DEFINE x == t[n + 1]
           g == <<x>>
<1>1. DOMAIN g = 1..1 /\ \A i \in 1..1 : t[n + i] = g[i]
    OBVIOUS
<1> HIDE DEF x
<1>2. Times(g, o) = Count(x = o)
    <2>1. {i \in DOMAIN g : g[i] = o} = IF x = o THEN {1} ELSE {}
        OBVIOUS
    <2>2. QED
        BY <2>1, FS_EmptySet, FS_Singleton DEF Times, Count
<1> HIDE DEF g
<1>3. Times(t, o) = Times(s, o) + Times(g, o)
    <2>1. Joins(t, s, n, g, 1)
        BY <1>1 DEF Joins
    <2>2. QED
        BY <2>1, TimesJoin
<1>4. Times(t, o) = Times(s, o) + Count(x = o)
    BY <1>2, <1>3
<1>5. QED
    BY <1>4, Zenon DEF x

\* The elements of one container change.
LEMMA BoxesChange ==
    ASSUME NEW h, NEW k, NEW x \in Objects, \A y \in Objects : y # x => k[y] = h[y], NEW o
    PROVE  /\ Boxes(h, o) \in Nat
           /\ Boxes(k, o) = Boxes(h, o) - Count(In(h[x], o)) + Count(In(k[x], o))
<1> DEFINE A == {c \in Objects : In(h[c], o)}
           B == {c \in Objects : In(k[c], o)}
<1>1. A \in SUBSET Objects /\ B \in SUBSET Objects /\ \A y \in Objects \ {x} : y \in A <=> y \in B
    OBVIOUS
<1>2. (x \in A <=> In(h[x], o)) /\ (x \in B <=> In(k[x], o))
    OBVIOUS
<1>3. Boxes(h, o) = Cardinality(A) /\ Boxes(k, o) = Cardinality(B)
    BY DEF Boxes
<1> HIDE DEF A, B
<1>4. Cardinality(A) \in Nat /\ Cardinality(B) = Cardinality(A) - Count(x \in A) + Count(x \in B)
    BY <1>1, CountOne, ObjectsFinite
<1>5. QED
    BY <1>2, <1>3, <1>4 DEF Count

OneBox(x) == \A y \in Objects : y # x => items'[y] = items[y]

\* One container changes: the number of those that hold o goes by what it did and does.
LEMMA ItemsChange ==
    ASSUME NEW x \in Objects, OneBox(x), NEW o
    PROVE  Boxes(items', o) = Boxes(items, o) - Count(In(items[x], o)) + Count(In(items'[x], o))
<1> DEFINE k == items'
<1>1. \A y \in Objects : y # x => k[y] = items[y]
    BY DEF OneBox
<1> HIDE DEF k
<1>2. Boxes(k, o) = Boxes(items, o) - Count(In(items[x], o)) + Count(In(k[x], o))
    BY <1>1, BoxesChange
<1>3. QED
    BY <1>2 DEF k

\* An object that a container does not hold is added to it.
LEMMA DistinctGrows ==
    ASSUME NEW s \in Seq(Objects), Distinct(s), NEW x \in Objects, ~In(s, x)
    PROVE  Distinct(Append(s, x)) /\ \A o : In(Append(s, x), o) <=> In(s, o) \/ o = x
<1> DEFINE t == Append(s, x)
<1>1. /\ DOMAIN t = 1..(Len(s) + 1) /\ DOMAIN s = 1..Len(s) /\ Len(s) \in Nat
      /\ t[Len(s) + 1] = x /\ \A i \in 1..Len(s) : t[i] = s[i]
    OBVIOUS
<1> HIDE DEF t
<1>2. \A i \in 1..(Len(s) + 1) : i \in 1..Len(s) \/ i = Len(s) + 1
    BY <1>1
<1>3. \A i \in 1..Len(s) : t[i] # x /\ i \in DOMAIN t
    BY <1>1 DEF In
<1>4. Distinct(t)
    BY <1>1, <1>2, <1>3 DEF Distinct
<1>5. \A o : In(t, o) <=> In(s, o) \/ o = x
    BY <1>1, <1>2, <1>3 DEF In
<1>6. QED
    BY <1>4, <1>5 DEF t

-----------------------------------------------------------------------------
(***************************************************************************)
(* Owners, and what the counts say of them.                                 *)
(***************************************************************************)

\* The stack of arrays, as two sequences
LEMMA StackTypes ==
    ASSUME NEW c \in Seq(Frames)
    PROVE  /\ Arrays(c) \in Seq(Objects) /\ Keys(c) \in Seq(Objects \cup {NULL})
           /\ DOMAIN Arrays(c) = DOMAIN c /\ DOMAIN Keys(c) = DOMAIN c
           /\ \A i \in DOMAIN c : Arrays(c)[i] = c[i].object /\ Keys(c)[i] = c[i].key
<1>1. Len(c) \in Nat /\ DOMAIN c = 1..Len(c) /\ \A i \in 1..Len(c) : c[i] \in Frames
    OBVIOUS
<1>2. [i \in 1..Len(c) |-> c[i].object] \in Seq(Objects)
    BY <1>1 DEF Frames
<1>3. [i \in 1..Len(c) |-> c[i].key] \in Seq(Objects \cup {NULL})
    BY <1>1 DEF Frames
<1>4. QED
    BY <1>1, <1>2, <1>3 DEF Arrays, Keys

\* What it is to be under conversion, or a key in hand.
LEMMA InStack ==
    ASSUME NEW c \in Seq(Frames), NEW o
    PROVE  /\ In(Arrays(c), o) <=> \E i \in DOMAIN c : c[i].object = o
           /\ In(Keys(c), o) <=> \E i \in DOMAIN c : c[i].key = o
BY StackTypes DEF In

\* An array is pushed, or popped.
LEMMA StackPush ==
    ASSUME NEW c \in Seq(Frames), NEW f \in Frames, NEW o
    PROVE  /\ Times(Arrays(Append(c, f)), o) = Times(Arrays(c), o) + Count(f.object = o)
           /\ Times(Keys(Append(c, f)), o) = Times(Keys(c), o) + Count(f.key = o)
<1> DEFINE d == Append(c, f)
<1>1. d \in Seq(Frames) /\ Len(d) = Len(c) + 1 /\ DOMAIN d = 1..(Len(c) + 1) /\ DOMAIN c = 1..Len(c)
    OBVIOUS
<1>2. d[Len(c) + 1] = f /\ \A i \in 1..Len(c) : d[i] = c[i]
    OBVIOUS
<1> HIDE DEF d
<1>3. /\ DOMAIN Arrays(d) = 1..(Len(c) + 1) /\ DOMAIN Keys(d) = 1..(Len(c) + 1)
      /\ DOMAIN Arrays(c) = 1..Len(c) /\ DOMAIN Keys(c) = 1..Len(c) /\ Len(c) \in Nat
    BY <1>1, StackTypes
<1>4. /\ Arrays(d)[Len(c) + 1] = f.object /\ \A i \in 1..Len(c) : Arrays(d)[i] = Arrays(c)[i]
      /\ Keys(d)[Len(c) + 1] = f.key /\ \A i \in 1..Len(c) : Keys(d)[i] = Keys(c)[i]
    BY <1>1, <1>2, StackTypes
<1>5. Times(Arrays(d), o) = Times(Arrays(c), o) + Count(Arrays(d)[Len(c) + 1] = o)
    BY <1>3, <1>4, TimesGrow
<1>6. Times(Keys(d), o) = Times(Keys(c), o) + Count(Keys(d)[Len(c) + 1] = o)
    BY <1>3, <1>4, TimesGrow
<1>7. QED
    BY <1>4, <1>5, <1>6 DEF d

\* The innermost array gets on, with another key or none in hand.
LEMMA StackTop ==
    ASSUME NEW c \in Seq(Frames), c # <<>>, NEW d \in Seq(Frames), Len(d) = Len(c),
           \A i \in 1..Len(c) : d[i].object = c[i].object,
           \A i \in 1..Len(c) : i # Len(c) => d[i].key = c[i].key,
           NEW o
    PROVE  /\ Times(Arrays(d), o) = Times(Arrays(c), o)
           /\ Times(Keys(d), o)
                = Times(Keys(c), o) - Count(c[Len(c)].key = o) + Count(d[Len(c)].key = o)
<1>1. Len(c) \in DOMAIN c /\ DOMAIN d = DOMAIN c /\ DOMAIN c = 1..Len(c)
    OBVIOUS
<1>2. Arrays(d) = Arrays(c)
    BY <1>1 DEF Arrays
<1>3. \A i \in DOMAIN Keys(c) : i # Len(c) => Keys(d)[i] = Keys(c)[i]
    BY <1>1 DEF Keys
<1>4. IsFiniteSet(DOMAIN Keys(c)) /\ DOMAIN Keys(d) = DOMAIN Keys(c) /\ Len(c) \in DOMAIN Keys(c)
    BY <1>1, StackTypes, TimesSeq
<1>5. Times(Keys(d), o)
        = Times(Keys(c), o) - Count(Keys(c)[Len(c)] = o) + Count(Keys(d)[Len(c)] = o)
    BY <1>3, <1>4, TimesChange
<1>6. QED
    BY <1>1, <1>2, <1>5, StackTypes

\* A local gets another value.
OneLocal(s, x) ==
    /\ DOMAIN local' = Slots /\ local'[s] = x
    /\ \A y \in Slots : y # s => local'[y] = local[y]

\* The locals then hold o as often as before, but for that one.
LEMMA LocalChange ==
    ASSUME Types, NEW s \in Slots, NEW x, OneLocal(s, x), NEW o
    PROVE  Times(local', o) = Times(local, o) - Count(local[s] = o) + Count(x = o)
<1>1. DOMAIN local = Slots
    BY DEF Types
<1> DEFINE l == local'
<1>2. DOMAIN l = Slots /\ l[s] = x /\ \A y \in Slots : y # s => l[y] = local[y]
    BY DEF OneLocal
<1> HIDE DEF l
<1>3. Times(l, o) = Times(local, o) - Count(local[s] = o) + Count(l[s] = o)
    BY <1>1, <1>2, TimesChange, SlotsFinite
<1>4. QED
    BY <1>2, <1>3 DEF l

\* All that is counted is a number.
LEMMA CountsAreNumbers ==
    ASSUME Types, NEW o \in Objects
    PROVE  /\ Times(local, o) \in Nat /\ Times(Arrays(conv), o) \in Nat /\ Times(Keys(conv), o) \in Nat
           /\ Times(trash, o) \in Nat /\ Boxes(items, o) \in Nat
           /\ Kept(client, o) \in Nat /\ Owns(local, hand, conv, o) \in Nat
           /\ Loose(trash, items, o) \in Nat
<1>1. DOMAIN local = Slots /\ conv \in Seq(Frames) /\ trash \in Seq(Objects)
    BY DEF Types
<1>2. Times(local, o) \in Nat
    BY <1>1, TimesType, SlotsFinite
<1>3. Times(Arrays(conv), o) \in Nat /\ Times(Keys(conv), o) \in Nat
    BY <1>1, StackTypes, TimesSeq
<1>4. Times(trash, o) \in Nat
    BY <1>1, TimesSeq
<1>5. Boxes(items, o) \in Nat
    BY BoxesChange
<1>6. QED
    BY <1>2, <1>3, <1>4, <1>5 DEF Kept, Owns, Loose, Count

\* The holders of an object are those that keep it, the call, and what is loose.
LEMMA HoldersAre ==
    Types => \A o \in Objects :
        Holders(o) = Kept(client, o) + Owns(local, hand, conv, o) + Loose(trash, items, o)
<1> SUFFICES ASSUME Types, NEW o \in Objects
             PROVE  Holders(o) = Kept(client, o) + Owns(local, hand, conv, o)
                                 + Loose(trash, items, o)
    OBVIOUS
<1>1. DOMAIN local = Slots /\ conv \in Seq(Frames)
    BY DEF Types
<1>2. /\ Cardinality({s \in Slots : local[s] = o}) = Times(local, o)
      /\ Cardinality({i \in DOMAIN trash : trash[i] = o}) = Times(trash, o)
    BY <1>1 DEF Times
<1>3. /\ Cardinality({i \in DOMAIN conv : conv[i].object = o}) = Times(Arrays(conv), o)
      /\ Cardinality({i \in DOMAIN conv : conv[i].key = o}) = Times(Keys(conv), o)
    <2>1. /\ {i \in DOMAIN conv : conv[i].object = o}
               = {i \in DOMAIN Arrays(conv) : Arrays(conv)[i] = o}
          /\ {i \in DOMAIN conv : conv[i].key = o} = {i \in DOMAIN Keys(conv) : Keys(conv)[i] = o}
        BY <1>1, StackTypes
    <2>2. QED
        BY <2>1 DEF Times
<1>4. Cardinality({c \in Objects : \E i \in DOMAIN items[c] : items[c][i] = o}) = Boxes(items, o)
    BY DEF Boxes, In
<1>5. Holders(o) = Count(o = Func) + Count(o = hand) + Count(o \in client) + Times(local, o)
                   + Times(Arrays(conv), o) + Times(Keys(conv), o) + Times(trash, o)
                   + Boxes(items, o)
    BY <1>2, <1>3, <1>4 DEF Holders
<1>6. Count(o = Func) \in Nat /\ Count(o \in client) \in Nat /\ Count(o = hand) \in Nat
    BY DEF Count
<1>7. QED
    BY <1>5, <1>6, CountsAreNumbers DEF Kept, Owns, Loose

\* By how much a step moves the holders, the losses and the count of o
Moves(o, k, w, f, z) ==
    /\ k \in Int /\ w \in Int /\ f \in Int /\ z \in Int
    /\ Kept(client', o) = Kept(client, o) + k
    /\ Owns(local', hand', conv', o) = Owns(local, hand, conv, o) + w
    /\ Loose(trash', items', o) = Loose(trash, items, o) + f
    /\ lost'[o] = lost[o] + z
    /\ rc'[o] = rc[o] + (k + w + f + z)

\* A step that moves both by the same amount keeps the books balanced.
LEMMA BooksBalance ==
    ASSUME CountInv, Types', \A o \in Objects : \E k, w, f, z \in Int : Moves(o, k, w, f, z)
    PROVE  CountsCoverHolders'
<1>1. Types /\ CountsCoverHolders
    BY DEF CountInv
<1>2. (Types => \A o \in Objects :
          Holders(o) = Kept(client, o) + Owns(local, hand, conv, o) + Loose(trash, items, o))'
    BY HoldersAre, PTL
<1> SUFFICES ASSUME NEW o \in Objects PROVE rc'[o] = Holders(o)' + lost'[o]
    BY DEF CountsCoverHolders, Objects
<1>3. Holders(o)' = Kept(client', o) + Owns(local', hand', conv', o) + Loose(trash', items', o)
    BY <1>2 DEF Objects
<1>4. PICK a \in Nat, b \in Nat, c \in Nat, d \in Nat :
          /\ a = Kept(client, o) /\ b = Owns(local, hand, conv, o) /\ c = Loose(trash, items, o)
          /\ d = lost[o]
    BY <1>1, CountsAreNumbers DEF Types
<1>5. rc[o] = a + b + c + d
    BY <1>1, <1>4, HoldersAre DEF CountsCoverHolders
<1>6. PICK k \in Int, w \in Int, f \in Int, z \in Int : Moves(o, k, w, f, z)
    OBVIOUS
<1>7. rc'[o] = (a + b + c + d) + (k + w + f + z)
    BY <1>5, <1>6 DEF Moves
<1>8. Holders(o)' = (a + k) + (b + w) + (c + f) /\ lost'[o] = d + z
    BY <1>3, <1>4, <1>6 DEF Moves
<1>9. (a + b + c + d) + (k + w + f + z) = ((a + k) + (b + w) + (c + f)) + (d + z)
    OBVIOUS
<1>10. QED
    BY <1>7, <1>8, <1>9

\* What is counted zero times is not there.
LEMMA NoneThere ==
    ASSUME Types, NEW o \in Objects
    PROVE  /\ Times(local, o) = 0 <=> \A s \in Slots : local[s] # o
           /\ Times(Arrays(conv), o) = 0 <=> \A i \in DOMAIN conv : conv[i].object # o
           /\ Times(Keys(conv), o) = 0 <=> \A i \in DOMAIN conv : conv[i].key # o
           /\ Times(trash, o) = 0 <=> \A i \in DOMAIN trash : trash[i] # o
           /\ Boxes(items, o) = 0 <=> \A c \in Objects : ~In(items[c], o)
<1>1. DOMAIN local = Slots /\ conv \in Seq(Frames) /\ trash \in Seq(Objects)
    BY DEF Types
<1>2. IsFiniteSet(DOMAIN trash) /\ IsFiniteSet(DOMAIN Arrays(conv)) /\ IsFiniteSet(DOMAIN Keys(conv))
    BY <1>1, StackTypes, TimesSeq
<1>3. /\ Times(local, o) = 0 <=> ~In(local, o)
      /\ Times(Arrays(conv), o) = 0 <=> ~In(Arrays(conv), o)
      /\ Times(Keys(conv), o) = 0 <=> ~In(Keys(conv), o)
      /\ Times(trash, o) = 0 <=> ~In(trash, o)
    BY <1>1, <1>2, TimesType, SlotsFinite
<1>4. Boxes(items, o) = 0 <=> \A c \in Objects : ~In(items[c], o)
    <2> DEFINE A == {c \in Objects : In(items[c], o)}
    <2>1. IsFiniteSet(A)
        BY FS_Subset, ObjectsFinite
    <2>2. Cardinality(A) = 0 <=> A = {}
        BY <2>1, FS_EmptySet
    <2>3. QED
        BY <2>2 DEF Boxes
<1>5. QED
    BY <1>1, <1>3, <1>4, StackTypes DEF In

\* The books balance.
LEMMA Balance ==
    ASSUME CountInv, NEW o \in Objects
    PROVE  \E a, b, c, d \in Nat :
             /\ a = Kept(client, o) /\ b = Owns(local, hand, conv, o) /\ c = Loose(trash, items, o)
             /\ d = lost[o]
             /\ b <= 1 /\ rc[o] = a + b + c + d
<1>1. Types /\ CountsCoverHolders
    BY DEF CountInv
<1>2. PICK a \in Nat, b \in Nat, c \in Nat, d \in Nat :
          /\ a = Kept(client, o) /\ b = Owns(local, hand, conv, o) /\ c = Loose(trash, items, o)
          /\ d = lost[o]
    BY <1>1, CountsAreNumbers DEF Types
<1>3. rc[o] = a + b + c + d
    BY <1>1, <1>2, HoldersAre DEF CountsCoverHolders
<1>4. b <= 1
    BY <1>2 DEF CountInv, OwnedOnce
<1>5. QED
    BY <1>2, <1>3, <1>4

\* What a sum of holders that is nothing says.
LEMMA NotKept == ASSUME NEW o, Kept(client, o) = 0 PROVE o # Func /\ o \notin client
BY DEF Kept, Count

\* Nothing to release, and in no container
LEMMA NotLoose ==
    ASSUME Types, NEW o \in Objects, Loose(trash, items, o) = 0
    PROVE  Times(trash, o) = 0 /\ Boxes(items, o) = 0
BY CountsAreNumbers DEF Loose

\* Owned by no local and by no conversion
LEMMA NotOwned ==
    ASSUME Types, NEW o \in Objects, Owns(local, hand, conv, o) = 0
    PROVE  Times(local, o) = 0 /\ o # hand /\ Times(Arrays(conv), o) = 0 /\ Times(Keys(conv), o) = 0
BY CountsAreNumbers DEF Owns, Count

\* Nobody holds an object whose count is zero.
LEMMA FreeHasNoHolder ==
    ASSUME CountInv, NEW o \in Objects, rc[o] = 0
    PROVE  /\ lost[o] = 0 /\ Kept(client, o) = 0
           /\ Owns(local, hand, conv, o) = 0 /\ Loose(trash, items, o) = 0
           /\ items[o] = <<>>
<1>1. PICK a \in Nat, b \in Nat, c \in Nat, d \in Nat :
          /\ a = Kept(client, o) /\ b = Owns(local, hand, conv, o) /\ c = Loose(trash, items, o)
          /\ d = lost[o]
          /\ rc[o] = a + b + c + d
    BY Balance
<1>2. a + b + c + d = 0
    BY <1>1
<1>3. a = 0 /\ b = 0 /\ c = 0 /\ d = 0
    BY <1>2
<1>4. items[o] = <<>>
    BY DEF CountInv, Containers
<1>5. QED
    BY <1>1, <1>3, <1>4

\* The object that is allocated next is free.
LEMMA NewIsFree == CanAllocate => New \in Objects /\ rc[New] = 0
<1> SUFFICES ASSUME CanAllocate PROVE New \in Fresh
    BY DEF Fresh
<1>1. Fresh \subseteq Nat /\ Fresh # {}
    BY BoundsAssumption DEF Fresh, Objects, CanAllocate
<1>2. PICK m \in Fresh : \A k \in Fresh : ~(<<k, m>> \in OpToRel(<, Nat))
    BY <1>1, WFMin, NatLessThanWellFounded
<1>3. \A k \in Fresh : m <= k
    <2> SUFFICES ASSUME NEW k \in Fresh, k < m PROVE FALSE
        BY <1>1
    <2>1. <<k, m>> \in OpToRel(<, Nat)
        BY <1>1, Zenon DEF OpToRel
    <2>2. QED
        BY <1>2, <2>1
<1>4. \E x \in Fresh : \A y \in Fresh : x =< y
    BY <1>3
<1>5. QED
    BY <1>4 DEF New, Min

\* What the call still builds has no other holder.
LEMMA BuiltHasOneHolder ==
    ASSUME CountInv, NEW o \in Objects, Building(o)
    PROVE  /\ rc[o] = 1 /\ lost[o] = 0 /\ Kept(client, o) = 0
           /\ Owns(local, hand, conv, o) = 1 /\ Loose(trash, items, o) = 0
<1>1. Types /\ rc[o] = 1
    BY DEF CountInv, BuiltAlone
<1>2. conv \in Seq(Frames)
    BY <1>1 DEF Types
<1>3. Owns(local, hand, conv, o) # 0
    BY <1>1, <1>2, NotOwned, NoneThere, StackTypes DEF Building, In
<1>4. PICK a \in Nat, b \in Nat, c \in Nat, d \in Nat :
          /\ a = Kept(client, o) /\ b = Owns(local, hand, conv, o) /\ c = Loose(trash, items, o)
          /\ d = lost[o]
          /\ rc[o] = a + b + c + d
    BY Balance
<1>5. a + b + c + d = 1 /\ b # 0
    BY <1>1, <1>3, <1>4
<1>6. a = 0 /\ b = 1 /\ c = 0 /\ d = 0
    BY <1>5
<1>7. QED
    BY <1>1, <1>4, <1>6

\* By how much a step moves what the call owns of o: its locals, what it has in
\* hand, the arrays under conversion and their keys
OwnMoves(o, i, j, k, l) ==
    /\ i \in Int /\ j \in Int /\ k \in Int /\ l \in Int
    /\ Times(local', o) = Times(local, o) + i
    /\ Count(o = hand') = Count(o = hand) + j
    /\ Times(Arrays(conv'), o) = Times(Arrays(conv), o) + k
    /\ Times(Keys(conv'), o) = Times(Keys(conv), o) + l

\* What the call owns moves by what its four parts move by.
LEMMA OwnsMove ==
    ASSUME Types, NEW o \in Objects, NEW i, NEW j, NEW k, NEW l, OwnMoves(o, i, j, k, l)
    PROVE  Owns(local', hand', conv', o) = Owns(local, hand, conv, o) + (i + j + k + l)
<1>1. PICK a \in Nat, b \in Nat, c \in Nat, d \in Nat :
          /\ a = Times(local, o) /\ b = Count(o = hand) /\ c = Times(Arrays(conv), o)
          /\ d = Times(Keys(conv), o)
    BY CountsAreNumbers DEF Count
<1>2. i \in Int /\ j \in Int /\ k \in Int /\ l \in Int
    BY DEF OwnMoves
<1>3. Owns(local', hand', conv', o) = (a + i) + (b + j) + (c + k) + (d + l)
    BY <1>1 DEF OwnMoves, Owns
<1>4. Owns(local, hand, conv, o) = a + b + c + d
    BY <1>1 DEF Owns
<1>5. (a + i) + (b + j) + (c + k) + (d + l) = (a + b + c + d) + (i + j + k + l)
    BY <1>2
<1>6. QED
    BY <1>3, <1>4, <1>5

-----------------------------------------------------------------------------
(***************************************************************************)
(* Steps that make an object.                                               *)
(***************************************************************************)

\* A new object, empty and owned by the call alone
LEMMA AllocKeeps ==
    ASSUME CountInv, Types', NEW n \in Objects, rc[n] = 0, Alloc(n, <<>>),
           UNCHANGED <<client, trash, lost>>,
           \A o \in Objects : Owns(local', hand', conv', o) = Owns(local, hand, conv, o) + Count(o = n),
           \A o \in Objects : Building(o)' => Building(o) \/ o = n,
           \A i \in DOMAIN conv' :
              \/ conv'[i].object = n
              \/ \E j \in DOMAIN conv : conv[j].kind = conv'[i].kind /\ conv[j].object = conv'[i].object
    PROVE  BuiltAlone' /\ OwnedOnce' /\ Containers' /\ CountsCoverHolders'
<1>1. /\ Types /\ items[n] = <<>> /\ Owns(local, hand, conv, n) = 0
    BY FreeHasNoHolder DEF CountInv
<1>2. items' = items /\ rc' = [rc EXCEPT ![n] = 1]
    BY <1>1 DEF Types, Alloc
<1>3. ASSUME NEW o \in Objects PROVE \E k, w, f, z \in Int : Moves(o, k, w, f, z)
    <2>1. PICK a \in Nat, b \in Nat, c \in Nat, d \in Nat, r \in Nat :
              /\ a = Kept(client, o) /\ b = Owns(local, hand, conv, o) /\ c = Loose(trash, items, o)
              /\ d = lost[o] /\ r = rc[o]
        BY <1>1, CountsAreNumbers DEF Types
    <2>2. Kept(client', o) = a /\ Loose(trash', items', o) = c /\ lost'[o] = d
        BY <1>2, <2>1
    <2>3. Owns(local', hand', conv', o) = b + Count(o = n)
        BY <2>1
    <2>4. rc'[o] = r + Count(o = n)
        <3>1. rc'[o] = IF o = n THEN 1 ELSE rc[o]
            BY <1>1, <1>2 DEF Types
        <3>2. CASE o = n
            BY <2>1, <3>1, <3>2 DEF Count
        <3>3. CASE o # n
            BY <2>1, <3>1, <3>3 DEF Count
        <3>4. QED
            BY <3>2, <3>3
    <2>5. PICK m \in Nat : m = Count(o = n)
        BY DEF Count
    <2>6. Moves(o, 0, m, 0, 0)
        BY <2>1, <2>2, <2>3, <2>4, <2>5 DEF Moves
    <2>7. 0 \in Int /\ m \in Int
        OBVIOUS
    <2>8. QED
        BY <2>6, <2>7, Zenon
<1>4. CountsCoverHolders'
    BY <1>3, BooksBalance
<1>5. OwnedOnce'
    <2> SUFFICES ASSUME NEW o \in Objects PROVE Owns(local', hand', conv', o) <= 1
        BY DEF OwnedOnce, Objects
    <2>1. Owns(local, hand, conv, o) <= 1 /\ Owns(local, hand, conv, o) \in Nat
        BY <1>1, CountsAreNumbers DEF CountInv, OwnedOnce
    <2>2. QED
        BY <1>1, <2>1 DEF Count
<1>6. BuiltAlone'
    BY <1>1, <1>2 DEF CountInv, BuiltAlone, Types, Objects
<1>7. Containers'
    <2>1. \A c \in Objects : Distinct(items'[c]) /\ (rc'[c] = 0 => items'[c] = <<>>)
        BY <1>1, <1>2 DEF CountInv, Containers, Types
    <2>2. \A i \in DOMAIN conv' :
            conv'[i].kind = "dict" /\ items'[conv'[i].object] # <<>>
            => Len(items'[conv'[i].object]) >= 2
        BY <1>1, <1>2 DEF CountInv, Containers
    <2>3. QED
        BY <2>1, <2>2 DEF Containers, Distinct, Objects
<1>8. QED
    BY <1>4, <1>5, <1>6, <1>7

\* What every step may use of the invariant.
LEMMA Parts ==
    CountInv =>
        /\ Types /\ Progress /\ BuiltAlone /\ OwnedOnce /\ Containers /\ CountsCoverHolders
        /\ rc \in [Objects -> Nat] /\ items \in [Objects -> Seq(Objects)]
        /\ packed \in Seq({"token", "url"} \cup Queries)
        /\ local \in [Slots -> Objects \cup {NULL}] /\ conv \in Seq(Frames)
        /\ hand \in Objects \cup {NULL} /\ trash \in Seq(Objects)
        /\ lost \in [Objects -> Nat] /\ calls \in Nat
BY DEF CountInv, Types

\* PyUnicode_FromString and Py_BuildValue
LEMMA BuildValueKeeps == ASSUME CountInv, NEW s \in Slots, BuildValue(s) PROVE CountInv'
<1>1. PICK n \in Objects : n = New /\ rc[n] = 0
    BY NewIsFree DEF BuildValue
<1>2. /\ Alloc(n, <<>>) /\ local' = [local EXCEPT ![s] = n] /\ local[s] = NULL
      /\ s \in {"token", "url"} /\ local["pyFunc"] # NULL /\ conv = <<>> /\ hand = NULL
      /\ UNCHANGED <<packed, conv, hand, client, trash, lost, calls>>
    BY <1>1 DEF BuildValue, Missing, Running
<1>3. Types'
    BY <1>1, <1>2, Parts DEF Types, Alloc
<1>4. Progress'
    BY <1>1, <1>2, Parts DEF Progress, Slots, Queries
<1>5. \A o \in Objects : Owns(local', hand', conv', o) = Owns(local, hand, conv, o) + Count(o = n)
    <2> SUFFICES ASSUME NEW o \in Objects
                 PROVE  Owns(local', hand', conv', o) = Owns(local, hand, conv, o) + Count(o = n)
        OBVIOUS
    <2>1. Times(local', o) = Times(local, o) - Count(local[s] = o) + Count(n = o)
        <3>1. OneLocal(s, n)
            BY <1>2, Parts DEF OneLocal
        <3>2. QED
            BY <3>1, LocalChange, Parts
    <2>2. PICK a \in Nat : a = Times(local, o)
        BY Parts, CountsAreNumbers
    <2>3. Times(local', o) = a + Count(o = n)
        BY <1>2, <2>1, <2>2, ObjectsFinite DEF Count
    <2>4. PICK b \in Nat, c \in Nat, d \in Nat :
              b = Count(o = hand) /\ c = Times(Arrays(conv), o) /\ d = Times(Keys(conv), o)
        BY Parts, CountsAreNumbers DEF Count
    <2>5. OwnMoves(o, Count(o = n), 0, 0, 0)
        BY <1>2, <2>2, <2>3, <2>4 DEF OwnMoves, Count
    <2>6. Owns(local', hand', conv', o) = Owns(local, hand, conv, o) + (Count(o = n) + 0 + 0 + 0)
        BY <2>5, OwnsMove, Parts
    <2>7. QED
        BY <2>6 DEF Count
<1>6. \A o \in Objects : Building(o)' => Building(o) \/ o = n
    BY <1>2, Parts DEF Building, In, Slots
<1>7. BuiltAlone' /\ OwnedOnce' /\ Containers' /\ CountsCoverHolders'
    BY <1>1, <1>2, <1>3, <1>5, <1>6, AllocKeeps
<1>8. QED
    BY <1>3, <1>4, <1>7 DEF CountInv

\* Where a value is due its argument is missing, and every array waits for an element.
LEMMA DueMeans ==
    ASSUME CountInv, Due
    PROVE  /\ local["pyFunc"] # NULL /\ trash = <<>> /\ hand = NULL /\ \E q \in Queries : Missing(q)
           /\ \A i \in DOMAIN conv : conv[i].left > 0 /\ (conv[i].kind = "dict" => conv[i].key # NULL)
<1>1. local["pyFunc"] # NULL /\ trash = <<>> /\ hand = NULL /\ \E q \in Queries : Missing(q)
    BY Parts DEF Due, Running, Progress
<1>2. ASSUME NEW i \in DOMAIN conv
      PROVE  conv[i].left > 0 /\ (conv[i].kind = "dict" => conv[i].key # NULL)
    <2>1. DOMAIN conv = 1..Len(conv) /\ Len(conv) \in Nat /\ conv # <<>>
        BY Parts
    <2>2. Top.left > 0 /\ (Top.kind = "dict" => Top.key # NULL)
        BY <2>1 DEF Due
    <2>3. CASE i = Len(conv)
        BY <2>2, <2>3 DEF Top
    <2>4. CASE i < Len(conv)
        BY <2>4, Parts DEF Progress
    <2>5. QED
        BY <2>1, <2>3, <2>4
<1>3. QED
    BY <1>1, <1>2

\* A string, a number, a bool or None
LEMMA ConvertLeafKeeps == ASSUME CountInv, ConvertLeaf PROVE CountInv'
<1>1. PICK n \in Objects : n = New /\ rc[n] = 0
    BY NewIsFree DEF ConvertLeaf
<1>2. /\ Alloc(n, <<>>) /\ hand' = n
      /\ UNCHANGED <<packed, local, conv, client, trash, lost, calls>>
    BY <1>1 DEF ConvertLeaf
<1>3. /\ local["pyFunc"] # NULL /\ hand = NULL /\ \E q \in Queries : Missing(q)
      /\ \A i \in DOMAIN conv : conv[i].left > 0 /\ (conv[i].kind = "dict" => conv[i].key # NULL)
    BY DueMeans DEF ConvertLeaf
<1>4. Types'
    BY <1>1, <1>2, Parts DEF Types, Alloc
<1>5. Progress'
    BY <1>1, <1>2, <1>3, Parts DEF Progress, Missing
<1>6. \A o \in Objects : Owns(local', hand', conv', o) = Owns(local, hand, conv, o) + Count(o = n)
    <2> SUFFICES ASSUME NEW o \in Objects
                 PROVE  Owns(local', hand', conv', o) = Owns(local, hand, conv, o) + Count(o = n)
        OBVIOUS
    <2>1. PICK a \in Nat, c \in Nat, d \in Nat :
              a = Times(local, o) /\ c = Times(Arrays(conv), o) /\ d = Times(Keys(conv), o)
        BY Parts, CountsAreNumbers
    <2>2. Count(o = hand) = 0
        BY <1>3, ObjectsFinite DEF Count
    <2>3. OwnMoves(o, 0, Count(o = n), 0, 0)
        BY <1>2, <2>1, <2>2 DEF OwnMoves, Count
    <2>4. Owns(local', hand', conv', o) = Owns(local, hand, conv, o) + (0 + Count(o = n) + 0 + 0)
        BY <2>3, OwnsMove, Parts
    <2>5. QED
        BY <2>4 DEF Count
<1>7. \A o \in Objects : Building(o)' => Building(o) \/ o = n
    BY <1>2 DEF Building, In
<1>8. BuiltAlone' /\ OwnedOnce' /\ Containers' /\ CountsCoverHolders'
    BY <1>1, <1>2, <1>4, <1>6, <1>7, AllocKeeps
<1>9. QED
    BY <1>4, <1>5, <1>8 DEF CountInv

\* PyList_New and PyDict_New
LEMMA ConvertArrayKeeps ==
    ASSUME CountInv, NEW kind \in {"list", "dict"}, NEW m \in 1..MaxItems, ConvertArray(kind, m)
    PROVE  CountInv'
<1>1. PICK n \in Objects : n = New /\ rc[n] = 0
    BY NewIsFree DEF ConvertArray
<1> DEFINE f == [object |-> n, kind |-> kind, left |-> m, key |-> NULL]
<1>2. f \in Frames
    BY <1>1, BoundsAssumption DEF Frames
<1>3. /\ Alloc(n, <<>>) /\ conv' = Append(conv, f) /\ Len(conv) < MaxDepth
      /\ UNCHANGED <<packed, local, hand, client, trash, lost, calls>>
    BY <1>1, <1>2 DEF ConvertArray
<1>4. f.object = n /\ f.key = NULL /\ f.left > 0
    BY <1>2, BoundsAssumption
<1> HIDE DEF f
<1>5. /\ local["pyFunc"] # NULL /\ hand = NULL /\ \E q \in Queries : Missing(q)
      /\ \A i \in DOMAIN conv : conv[i].left > 0 /\ (conv[i].kind = "dict" => conv[i].key # NULL)
    BY DueMeans DEF ConvertArray
<1>6. /\ conv' \in Seq(Frames) /\ Len(conv') = Len(conv) + 1 /\ conv'[Len(conv')] = f
      /\ DOMAIN conv' = 1..Len(conv') /\ DOMAIN conv = 1..Len(conv) /\ Len(conv) \in Nat
      /\ \A i \in DOMAIN conv : conv'[i] = conv[i]
    BY <1>2, <1>3, Parts
<1>7. Types'
    BY <1>1, <1>3, <1>6, Parts DEF Types, Alloc
<1>8. Progress'
    <2>1. /\ local'["pyFunc"] \in {Func, NULL} /\ local'["pyFunc"] # NULL
          /\ \E q \in Queries : Missing(q)'
          /\ local'["pyResult"] # NULL => local'["pyArgs"] # NULL
        BY <1>3, <1>5, Parts DEF Progress, Missing
    <2>2. Len(conv') <= MaxDepth
        BY <1>3, <1>6, BoundsAssumption
    <2>3. ASSUME NEW i \in DOMAIN conv'
          PROVE  /\ conv'[i].key # NULL => conv'[i].kind = "dict" /\ conv'[i].left > 0
                 /\ i < Len(conv') \/ hand' # NULL
                    => conv'[i].left > 0 /\ (conv'[i].kind = "dict" => conv'[i].key # NULL)
        <3>1. CASE i \in DOMAIN conv
            BY <1>5, <1>6, <3>1, Parts DEF Progress
        <3>2. CASE i = Len(conv')
            BY <1>3, <1>4, <1>5, <1>6, <3>2
        <3>3. QED
            BY <1>6, <3>1, <3>2
    <2>4. QED
        BY <2>1, <2>2, <2>3 DEF Progress
<1>9. \A o \in Objects : Owns(local', hand', conv', o) = Owns(local, hand, conv, o) + Count(o = n)
    <2> SUFFICES ASSUME NEW o \in Objects
                 PROVE  Owns(local', hand', conv', o) = Owns(local, hand, conv, o) + Count(o = n)
        OBVIOUS
    <2>1. PICK a \in Nat, b \in Nat, c \in Nat, d \in Nat :
              a = Times(local, o) /\ b = Count(o = hand)
              /\ c = Times(Arrays(conv), o) /\ d = Times(Keys(conv), o)
        BY Parts, CountsAreNumbers DEF Count
    <2>2. /\ Times(Arrays(conv'), o) = Times(Arrays(conv), o) + Count(f.object = o)
          /\ Times(Keys(conv'), o) = Times(Keys(conv), o) + Count(f.key = o)
        BY <1>2, <1>3, StackPush, Parts
    <2>3. Count(f.object = o) = Count(o = n) /\ Count(f.key = o) = 0 /\ Count(o = n) \in Nat
        BY <1>4, ObjectsFinite DEF Count
    <2>4. OwnMoves(o, 0, 0, Count(o = n), 0)
        BY <1>3, <2>1, <2>2, <2>3 DEF OwnMoves
    <2>5. Owns(local', hand', conv', o) = Owns(local, hand, conv, o) + (0 + 0 + Count(o = n) + 0)
        BY <2>4, OwnsMove, Parts
    <2>6. QED
        BY <2>3, <2>5
<1>10. ASSUME NEW o \in Objects, Building(o)' PROVE Building(o) \/ o = n
    <2>1. /\ In(Arrays(conv'), o) <=> \E i \in DOMAIN conv' : conv'[i].object = o
          /\ In(Keys(conv'), o) <=> \E i \in DOMAIN conv' : conv'[i].key = o
          /\ In(Arrays(conv), o) <=> \E i \in DOMAIN conv : conv[i].object = o
          /\ In(Keys(conv), o) <=> \E i \in DOMAIN conv : conv[i].key = o
        BY <1>6, InStack, Parts
    <2>2. \A i \in DOMAIN conv' : i \in DOMAIN conv \/ i = Len(conv')
        BY <1>6
    <2>3. (In(Arrays(conv'), o) => In(Arrays(conv), o) \/ o = n)
          /\ (In(Keys(conv'), o) => In(Keys(conv), o))
        BY <1>4, <1>6, <2>1, <2>2, ObjectsFinite
    <2>4. QED
        BY <1>3, <1>10, <2>3 DEF Building
<1>11. \A i \in DOMAIN conv' :
           \/ conv'[i].object = n
           \/ \E j \in DOMAIN conv : conv[j].kind = conv'[i].kind /\ conv[j].object = conv'[i].object
    BY <1>4, <1>6
<1>12. BuiltAlone' /\ OwnedOnce' /\ Containers' /\ CountsCoverHolders'
    BY <1>1, <1>3, <1>7, <1>9, <1>10, <1>11, AllocKeeps
<1>13. QED
    BY <1>7, <1>8, <1>12 DEF CountInv

\* The innermost array gets on: what it is stays, as do the others.
TopGets(x, y) ==
    /\ conv' \in Seq(Frames) /\ Len(conv') = Len(conv) /\ DOMAIN conv' = DOMAIN conv
    /\ DOMAIN conv = 1..Len(conv) /\ Len(conv) \in DOMAIN conv
    /\ \A i \in DOMAIN conv : conv'[i].object = conv[i].object /\ conv'[i].kind = conv[i].kind
    /\ \A i \in DOMAIN conv : i # Len(conv) => conv'[i] = conv[i]
    /\ conv'[Len(conv)].left = x /\ conv'[Len(conv)].key = y

TopBecomes(f) == conv' = [conv EXCEPT ![Len(conv)] = f]

\* An update of the innermost array that keeps its object changes nothing else.
LEMMA TopMoves ==
    ASSUME CountInv, conv # <<>>, NEW f \in Frames, TopBecomes(f),
           f.object = Top.object, f.kind = Top.kind
    PROVE  TopGets(f.left, f.key)
<1>1. /\ conv \in Seq(Frames) /\ DOMAIN conv = 1..Len(conv) /\ Len(conv) \in DOMAIN conv
      /\ Len(conv) \in Nat
    BY Parts
<1>2. /\ conv' = [i \in 1..Len(conv) |-> conv'[i]]
      /\ \A i \in 1..Len(conv) : conv'[i] = IF i = Len(conv) THEN f ELSE conv[i]
    BY <1>1 DEF TopBecomes
<1>3. \A i \in 1..Len(conv) : conv'[i] \in Frames
    BY <1>1, <1>2
<1>4. conv' \in Seq(Frames) /\ Len(conv') = Len(conv) /\ DOMAIN conv' = DOMAIN conv
    BY <1>1, <1>2, <1>3
<1>5. \A i \in DOMAIN conv : conv'[i].object = conv[i].object /\ conv'[i].kind = conv[i].kind
    BY <1>1, <1>2 DEF Top
<1>6. QED
    BY <1>1, <1>2, <1>4, <1>5 DEF TopGets

\* What the call owns of o when the innermost array has got on
LEMMA TopOwns ==
    ASSUME CountInv, conv # <<>>, NEW x, NEW y, TopGets(x, y), NEW o \in Objects
    PROVE  /\ Times(Arrays(conv'), o) = Times(Arrays(conv), o)
           /\ Times(Keys(conv'), o) = Times(Keys(conv), o) - Count(Top.key = o) + Count(y = o)
<1> DEFINE d == conv'
<1>1. /\ conv \in Seq(Frames) /\ d \in Seq(Frames) /\ Len(d) = Len(conv)
      /\ \A i \in 1..Len(conv) : d[i].object = conv[i].object
      /\ \A i \in 1..Len(conv) : i # Len(conv) => d[i].key = conv[i].key
      /\ d[Len(conv)].key = y
    BY Parts DEF TopGets
<1> HIDE DEF d
<1>2. /\ Times(Arrays(d), o) = Times(Arrays(conv), o)
      /\ Times(Keys(d), o)
           = Times(Keys(conv), o) - Count(conv[Len(conv)].key = o) + Count(d[Len(conv)].key = o)
    BY <1>1, StackTop
<1>3. QED
    BY <1>1, <1>2 DEF d, Top

\* PyUnicode_DecodeUTF8
LEMMA ConvertKeyKeeps == ASSUME CountInv, ConvertKey PROVE CountInv'
<1>1. PICK n \in Objects : n = New /\ rc[n] = 0
    BY NewIsFree DEF ConvertKey
<1>2. /\ Alloc(n, <<>>) /\ conv # <<>> /\ Top.kind = "dict" /\ Top.left > 0 /\ Top.key = NULL
      /\ local["pyFunc"] # NULL /\ hand = NULL
      /\ UNCHANGED <<packed, local, hand, client, trash, lost, calls>>
    BY <1>1 DEF ConvertKey, Running
<1>3. TopGets(Top.left, n)
    <2> DEFINE f == [Top EXCEPT !.key = n]
    <2>1. Top \in Frames
        BY <1>2, Parts DEF Top
    <2>2. /\ f \in Frames /\ f.object = Top.object /\ f.kind = Top.kind
          /\ f.left = Top.left /\ f.key = n
        BY <1>1, <2>1 DEF Frames
    <2>3. TopBecomes(f)
        BY <1>1 DEF ConvertKey, TopBecomes, Top
    <2> HIDE DEF f
    <2>4. QED
        BY <1>2, <2>2, <2>3, TopMoves
<1>4. Types'
    BY <1>1, <1>2, <1>3, Parts DEF Types, Alloc, TopGets
<1>5. Progress'
    <2>1. /\ local'["pyFunc"] \in {Func, NULL} /\ local'["pyFunc"] # NULL
          /\ \E q \in Queries : Missing(q)'
          /\ local'["pyResult"] # NULL => local'["pyArgs"] # NULL
        BY <1>2, Parts DEF Progress, Missing
    <2>2. Len(conv') <= MaxDepth
        BY <1>3, Parts DEF Progress, TopGets
    <2>3. ASSUME NEW i \in DOMAIN conv'
          PROVE  /\ conv'[i].key # NULL => conv'[i].kind = "dict" /\ conv'[i].left > 0
                 /\ i < Len(conv') \/ hand' # NULL
                    => conv'[i].left > 0 /\ (conv'[i].kind = "dict" => conv'[i].key # NULL)
        <3>1. CASE i # Len(conv)
            BY <1>2, <1>3, <3>1, Parts DEF Progress, TopGets
        <3>2. CASE i = Len(conv)
            BY <1>2, <1>3, <3>2 DEF TopGets, Top
        <3>3. QED
            BY <3>1, <3>2
    <2>4. QED
        BY <2>1, <2>2, <2>3 DEF Progress
<1>6. \A o \in Objects : Owns(local', hand', conv', o) = Owns(local, hand, conv, o) + Count(o = n)
    <2> SUFFICES ASSUME NEW o \in Objects
                 PROVE  Owns(local', hand', conv', o) = Owns(local, hand, conv, o) + Count(o = n)
        OBVIOUS
    <2>1. PICK a \in Nat, b \in Nat, c \in Nat, d \in Nat :
              a = Times(local, o) /\ b = Count(o = hand)
              /\ c = Times(Arrays(conv), o) /\ d = Times(Keys(conv), o)
        BY Parts, CountsAreNumbers DEF Count
    <2>2. /\ Times(Arrays(conv'), o) = Times(Arrays(conv), o)
          /\ Times(Keys(conv'), o) = Times(Keys(conv), o) - Count(Top.key = o) + Count(n = o)
        BY <1>2, <1>3, TopOwns
    <2>3. Count(n = o) = Count(o = n) /\ Count(Top.key = o) = 0 /\ Count(o = n) \in Nat
        BY <1>2, ObjectsFinite DEF Count
    <2>4. OwnMoves(o, 0, 0, 0, Count(o = n))
        BY <1>2, <2>1, <2>2, <2>3 DEF OwnMoves
    <2>5. Owns(local', hand', conv', o) = Owns(local, hand, conv, o) + (0 + 0 + 0 + Count(o = n))
        BY <2>4, OwnsMove, Parts
    <2>6. QED
        BY <2>3, <2>5
<1>7. ASSUME NEW o \in Objects, Building(o)' PROVE Building(o) \/ o = n
    <2>1. /\ In(Arrays(conv'), o) <=> \E i \in DOMAIN conv' : conv'[i].object = o
          /\ In(Keys(conv'), o) <=> \E i \in DOMAIN conv' : conv'[i].key = o
          /\ In(Arrays(conv), o) <=> \E i \in DOMAIN conv : conv[i].object = o
          /\ In(Keys(conv), o) <=> \E i \in DOMAIN conv : conv[i].key = o
        <3>1. conv' \in Seq(Frames) /\ conv \in Seq(Frames)
            BY <1>3, Parts DEF TopGets
        <3>2. QED
            BY <3>1, InStack
    <2>2. (In(Arrays(conv'), o) => In(Arrays(conv), o))
          /\ (In(Keys(conv'), o) => In(Keys(conv), o) \/ o = n)
        BY <1>3, <2>1 DEF TopGets
    <2>3. QED
        BY <1>2, <1>7, <2>2 DEF Building
<1>8. \A i \in DOMAIN conv' :
           \/ conv'[i].object = n
           \/ \E j \in DOMAIN conv : conv[j].kind = conv'[i].kind /\ conv[j].object = conv'[i].object
    BY <1>3 DEF TopGets
<1>9. BuiltAlone' /\ OwnedOnce' /\ Containers' /\ CountsCoverHolders'
    BY <1>1, <1>2, <1>4, <1>6, <1>7, <1>8, AllocKeeps
<1>10. QED
    BY <1>4, <1>5, <1>9 DEF CountInv

-----------------------------------------------------------------------------
(***************************************************************************)
(* Steps that hand a reference over.                                        *)
(***************************************************************************)

\* The call has what it had, in another place.
LEMMA HandOverKeeps ==
    ASSUME CountInv, Types', UNCHANGED <<rc, items, client, trash, lost>>,
           \A o \in Objects : Owns(local', hand', conv', o) = Owns(local, hand, conv, o),
           \A o \in Objects : Building(o)' => Building(o),
           \A i \in DOMAIN conv' :
              \E j \in DOMAIN conv : conv[j].kind = conv'[i].kind /\ conv[j].object = conv'[i].object
    PROVE  BuiltAlone' /\ OwnedOnce' /\ Containers' /\ CountsCoverHolders'
<1>1. ASSUME NEW o \in Objects PROVE \E k, w, f, z \in Int : Moves(o, k, w, f, z)
    <2>1. PICK a \in Nat, b \in Nat, c \in Nat, d \in Nat, r \in Nat :
              /\ a = Kept(client, o) /\ b = Owns(local, hand, conv, o) /\ c = Loose(trash, items, o)
              /\ d = lost[o] /\ r = rc[o]
        BY Parts, CountsAreNumbers
    <2>2. /\ Kept(client', o) = a /\ Loose(trash', items', o) = c /\ lost'[o] = d /\ rc'[o] = r
          /\ Owns(local', hand', conv', o) = b
        BY <2>1
    <2>3. Moves(o, 0, 0, 0, 0)
        BY <2>1, <2>2 DEF Moves
    <2>4. QED
        BY <2>3
<1>2. CountsCoverHolders'
    BY <1>1, BooksBalance
<1>3. OwnedOnce' /\ BuiltAlone'
    BY Parts DEF OwnedOnce, BuiltAlone, Objects
<1>4. Containers'
    BY Parts DEF Containers, Distinct, Objects
<1>5. QED
    BY <1>2, <1>3, <1>4

\* The array is returned.
LEMMA ConvertedArrayKeeps == ASSUME CountInv, ConvertedArray PROVE CountInv'
<1>1. /\ local["pyFunc"] # NULL /\ hand = NULL /\ conv # <<>> /\ Top.left = 0 /\ hand' = Top.object
      /\ conv' = SubSeq(conv, 1, Len(conv) - 1)
      /\ UNCHANGED <<packed, rc, items, local, client, trash, lost, calls>>
    BY DEF ConvertedArray, Running
<1>2. /\ conv \in Seq(Frames) /\ Len(conv) \in Nat /\ Len(conv) \in DOMAIN conv
      /\ DOMAIN conv = 1..Len(conv) /\ Top \in Frames
    BY <1>1, Parts DEF Top
<1>3. /\ conv' \in Seq(Frames) /\ Len(conv') = Len(conv) - 1 /\ DOMAIN conv' = 1..(Len(conv) - 1)
      /\ \A i \in DOMAIN conv' : conv'[i] = conv[i] /\ i \in DOMAIN conv /\ i < Len(conv)
    BY <1>1, <1>2
<1>4. conv = Append(conv', Top)
    BY <1>1, <1>2, <1>3 DEF Top
<1>5. Top.key = NULL /\ Top.object \in Objects
    <2>1. \A i \in DOMAIN conv : conv[i].key # NULL => conv[i].left > 0
        BY Parts DEF Progress
    <2>2. Top.key # NULL => Top.left > 0
        BY <1>2, <2>1 DEF Top
    <2>3. QED
        BY <1>1, <1>2, <2>2 DEF Frames
<1>6. Types'
    BY <1>1, <1>3, <1>5, Parts DEF Types
<1>7. Progress'
    <2>1. /\ local'["pyFunc"] \in {Func, NULL} /\ local'["pyFunc"] # NULL
          /\ \E q \in Queries : Missing(q)'
          /\ local'["pyResult"] # NULL => local'["pyArgs"] # NULL
        BY <1>1, Parts DEF Progress, Missing
    <2>2. Len(conv') <= MaxDepth
        BY <1>2, <1>3, Parts, BoundsAssumption DEF Progress
    <2>3. \A i \in DOMAIN conv' :
              /\ conv'[i].key # NULL => conv'[i].kind = "dict" /\ conv'[i].left > 0
              /\ conv'[i].left > 0 /\ (conv'[i].kind = "dict" => conv'[i].key # NULL)
        BY <1>3, Parts DEF Progress
    <2>4. QED
        BY <2>1, <2>2, <2>3 DEF Progress
<1>8. ASSUME NEW o \in Objects
      PROVE  Owns(local', hand', conv', o) = Owns(local, hand, conv, o)
    <2>1. PICK a \in Nat, b \in Nat, c \in Nat, d \in Nat :
              a = Times(local, o) /\ b = Count(o = hand)
              /\ c = Times(Arrays(conv), o) /\ d = Times(Keys(conv), o)
        BY Parts, CountsAreNumbers DEF Count
    <2>2. PICK e \in Nat, g \in Nat : e = Times(Arrays(conv'), o) /\ g = Times(Keys(conv'), o)
        BY <1>3, StackTypes, TimesSeq
    <2>3. /\ Times(Arrays(Append(conv', Top)), o) = Times(Arrays(conv'), o) + Count(Top.object = o)
          /\ Times(Keys(Append(conv', Top)), o) = Times(Keys(conv'), o) + Count(Top.key = o)
        BY <1>2, <1>3, StackPush
    <2>4. c = e + Count(Top.object = o) /\ d = g + Count(Top.key = o)
        BY <1>4, <2>1, <2>2, <2>3
    <2>5. b = 0 /\ Count(Top.key = o) = 0 /\ Count(o = hand') = Count(Top.object = o)
        BY <1>1, <1>5, <2>1, ObjectsFinite DEF Count
    <2>6. PICK m \in {0, 1} : m = Count(Top.object = o)
        BY DEF Count
    <2>7. OwnMoves(o, 0, m, -m, 0)
        BY <1>1, <2>1, <2>2, <2>4, <2>5, <2>6 DEF OwnMoves
    <2>8. Owns(local', hand', conv', o) = Owns(local, hand, conv, o) + (0 + m + (-m) + 0)
        BY <2>7, OwnsMove, Parts
    <2>9. Owns(local, hand, conv, o) \in Nat
        BY Parts, CountsAreNumbers
    <2>10. QED
        BY <2>8, <2>9
<1>9. ASSUME NEW o \in Objects, Building(o)' PROVE Building(o)
    <2>1. /\ In(Arrays(conv'), o) <=> \E i \in DOMAIN conv' : conv'[i].object = o
          /\ In(Keys(conv'), o) <=> \E i \in DOMAIN conv' : conv'[i].key = o
          /\ In(Arrays(conv), o) <=> \E i \in DOMAIN conv : conv[i].object = o
          /\ In(Keys(conv), o) <=> \E i \in DOMAIN conv : conv[i].key = o
        BY <1>2, <1>3, InStack
    <2>2. (In(Arrays(conv'), o) => In(Arrays(conv), o)) /\ (In(Keys(conv'), o) => In(Keys(conv), o))
          /\ (o = hand' => In(Arrays(conv), o))
        BY <1>1, <1>2, <1>3, <2>1 DEF Top
    <2>3. QED
        BY <1>1, <1>9, <2>2 DEF Building
<1>10. BuiltAlone' /\ OwnedOnce' /\ Containers' /\ CountsCoverHolders'
    BY <1>1, <1>3, <1>6, <1>8, <1>9, HandOverKeeps
<1>11. QED
    BY <1>6, <1>7, <1>10 DEF CountInv

\* The argument is converted.
LEMMA ConvertedKeeps == ASSUME CountInv, Converted PROVE CountInv'
<1>1. PICK q \in Queries : Missing(q) /\ local' = [local EXCEPT ![q] = hand]
    BY DEF Converted
<1>2. /\ local["pyFunc"] # NULL /\ hand # NULL /\ conv = <<>> /\ hand' = NULL /\ local[q] = NULL
      /\ local["pyArgs"] = NULL /\ q \in Slots \ {"pyFunc", "pyArgs", "pyResult"}
      /\ UNCHANGED <<packed, rc, items, conv, client, trash, lost, calls>>
    BY <1>1 DEF Converted, Running, Missing, Slots, Queries
<1>3. hand \in Objects
    BY <1>2, Parts
<1>4. OneLocal(q, hand)
    BY <1>1, <1>2, Parts DEF OneLocal
<1>5. Types'
    BY <1>1, <1>2, Parts DEF Types
<1>6. Progress'
    BY <1>2, <1>4, Parts DEF Progress, OneLocal, Slots
<1>7. ASSUME NEW o \in Objects
      PROVE  Owns(local', hand', conv', o) = Owns(local, hand, conv, o)
    <2>1. PICK a \in Nat, b \in Nat, c \in Nat, d \in Nat :
              a = Times(local, o) /\ b = Count(o = hand)
              /\ c = Times(Arrays(conv), o) /\ d = Times(Keys(conv), o)
        BY Parts, CountsAreNumbers DEF Count
    <2>2. Times(local', o) = Times(local, o) - Count(local[q] = o) + Count(hand = o)
        BY <1>2, <1>4, LocalChange, Parts
    <2>3. PICK m \in {0, 1} : m = Count(o = hand)
        BY DEF Count
    <2>4. Count(local[q] = o) = 0 /\ Count(hand = o) = m /\ Count(o = hand') = 0
        BY <1>2, <2>3, ObjectsFinite DEF Count
    <2>5. Times(local', o) = a + m
        BY <2>1, <2>2, <2>4
    <2>6. OwnMoves(o, m, -m, 0, 0)
        BY <1>2, <2>1, <2>3, <2>4, <2>5 DEF OwnMoves
    <2>7. Owns(local', hand', conv', o) = Owns(local, hand, conv, o) + (m + (-m) + 0 + 0)
        BY <2>6, OwnsMove, Parts
    <2>8. Owns(local, hand, conv, o) \in Nat
        BY Parts, CountsAreNumbers
    <2>9. QED
        BY <2>7, <2>8
<1>8. ASSUME NEW o \in Objects, Building(o)' PROVE Building(o)
    BY <1>2, <1>4, <1>8, ObjectsFinite DEF Building, OneLocal
<1>9. BuiltAlone' /\ OwnedOnce' /\ Containers' /\ CountsCoverHolders'
    BY <1>2, <1>5, <1>7, <1>8, HandOverKeeps
<1>10. QED
    BY <1>5, <1>6, <1>9 DEF CountInv

-----------------------------------------------------------------------------
(***************************************************************************)
(* A call begins and ends.                                                  *)
(***************************************************************************)

\* Between calls nothing is owned.
LEMMA OwnsNothing ==
    ASSUME NEW o \in Objects PROVE Owns(Empty, NULL, <<>>, o) = 0 /\ Times(Empty, o) = 0
<1>1. {s \in DOMAIN Empty : Empty[s] = o} = {} /\ {i \in {} : Arrays(<<>>)[i] = o} = {}
      /\ {i \in {} : Keys(<<>>)[i] = o} = {}
    BY ObjectsFinite DEF Empty
<1>2. DOMAIN Arrays(<<>>) = {} /\ DOMAIN Keys(<<>>) = {} /\ Cardinality({}) = 0
    BY FS_EmptySet DEF Arrays, Keys
<1>3. Times(Empty, o) = 0 /\ Times(Arrays(<<>>), o) = 0 /\ Times(Keys(<<>>), o) = 0
    BY <1>1, <1>2 DEF Times
<1>4. Count(o = NULL) = 0
    BY ObjectsFinite DEF Count
<1>5. QED
    BY <1>3, <1>4 DEF Owns

\* A call begins with a reference to the function.
LEMMA GetAttrKeeps == ASSUME CountInv, GetAttr PROVE CountInv'
<1>1. /\ local = Empty /\ calls' = calls + 1
      /\ rc' = [rc EXCEPT ![Func] = @ + 1]
      /\ local' = [local EXCEPT !["pyFunc"] = Func]
      /\ UNCHANGED <<items, conv, hand, client, trash, lost>>
    BY DEF GetAttr
<1>2. conv = <<>> /\ hand = NULL /\ "pyFunc" \in Slots /\ Func # NULL
    BY <1>1, Parts DEF Progress, Empty, Slots, Func, NULL
<1>3. OneLocal("pyFunc", Func)
    BY <1>1, <1>2, Parts DEF OneLocal
<1>4. Types'
    <2>1. packed' \in Seq({"token", "url"} \cup Queries)
        <3> DEFINE S == {"token", "url"} \cup Queries
        <3>1. "token" \in S /\ "url" \in S /\ "query" \in S /\ "query2" \in S
            BY DEF Queries
        <3> HIDE DEF S
        <3>2. <<"token", "url", "query">> \in Seq(S) /\ <<"token", "url", "query", "query2">> \in Seq(S)
            BY <3>1
        <3>3. packed' \in Seq(S)
            BY <3>2 DEF GetAttr
        <3>4. QED
            BY <3>3 DEF S
    <2>2. rc' \in [Objects -> Nat]
        BY <1>1, Parts, ObjectsFinite
    <2>3. local' \in [Slots -> Objects \cup {NULL}]
        BY <1>1, Parts, ObjectsFinite
    <2>4. QED
        BY <1>1, <2>1, <2>2, <2>3, Parts DEF Types
<1>5. Progress'
    BY <1>1, <1>2, <1>3, Parts DEF Progress, OneLocal, Empty, Slots
<1>6. ASSUME NEW o \in Objects
      PROVE  Owns(local, hand, conv, o) = 0 /\ Owns(local', hand', conv', o) = Count(o = Func)
    <2>1. Owns(local, hand, conv, o) = 0 /\ Times(local, o) = 0
        BY <1>1, <1>2, OwnsNothing
    <2>2. Times(local', o) = Times(local, o) - Count(local["pyFunc"] = o) + Count(Func = o)
        BY <1>2, <1>3, LocalChange, Parts
    <2>3. Count(local["pyFunc"] = o) = 0 /\ Count(Func = o) = Count(o = Func) /\ Count(o = Func) \in Nat
        BY <1>1, <1>2, ObjectsFinite DEF Count, Empty
    <2>4. Times(local', o) = Times(local, o) + Count(o = Func)
        BY <2>1, <2>2, <2>3
    <2>5. PICK b \in Nat, c \in Nat, d \in Nat :
              b = Count(o = hand) /\ c = Times(Arrays(conv), o) /\ d = Times(Keys(conv), o)
        BY Parts, CountsAreNumbers DEF Count
    <2>6. OwnMoves(o, Count(o = Func), 0, 0, 0)
        BY <1>1, <2>3, <2>4, <2>5 DEF OwnMoves
    <2>7. Owns(local', hand', conv', o) = Owns(local, hand, conv, o) + (Count(o = Func) + 0 + 0 + 0)
        BY <2>6, OwnsMove, Parts
    <2>8. QED
        BY <2>1, <2>3, <2>7
<1>7. ASSUME NEW o \in Objects PROVE \E k, w, f, z \in Int : Moves(o, k, w, f, z)
    <2>1. PICK a \in Nat, c \in Nat, d \in Nat, r \in Nat :
              /\ a = Kept(client, o) /\ c = Loose(trash, items, o) /\ d = lost[o] /\ r = rc[o]
        BY Parts, CountsAreNumbers
    <2>2. /\ Kept(client', o) = a /\ Loose(trash', items', o) = c /\ lost'[o] = d
        BY <1>1, <2>1
    <2>3. rc'[o] = r + Count(o = Func)
        <3>1. rc' = [rc EXCEPT ![Func] = @ + 1] /\ rc \in [Objects -> Nat] /\ r = rc[o]
            BY <1>1, <2>1, Parts
        <3>2. CASE o = Func
            BY <3>1, <3>2 DEF Count
        <3>3. CASE o # Func
            BY <3>1, <3>3 DEF Count
        <3>4. QED
            BY <3>2, <3>3
    <2>4. PICK m \in Nat : m = Count(o = Func)
        BY DEF Count
    <2>5. Moves(o, 0, m, 0, 0)
        BY <1>6, <2>1, <2>2, <2>3, <2>4 DEF Moves
    <2>6. 0 \in Int /\ m \in Int
        OBVIOUS
    <2>7. QED
        BY <2>5, <2>6, Zenon
<1>8. CountsCoverHolders'
    BY <1>4, <1>7, BooksBalance
<1>9. OwnedOnce'
    BY <1>6 DEF OwnedOnce, Count, Objects
<1>10. ASSUME NEW o \in Objects PROVE ~Building(o)'
    <2>1. ~In(Arrays(conv'), o) /\ ~In(Keys(conv'), o)
        BY <1>1, <1>2 DEF In, Arrays, Keys
    <2>2. \A s \in Slots \ {"pyFunc"} : local'[s] # o
        BY <1>1, <1>3, ObjectsFinite DEF OneLocal, Empty
    <2>3. QED
        BY <1>1, <1>2, <2>1, <2>2, ObjectsFinite DEF Building
<1>11. BuiltAlone'
    BY <1>10 DEF BuiltAlone, Objects
<1>12. Containers'
    <2>1. \A c \in Objects : Distinct(items'[c])
        BY <1>1, Parts DEF Containers
    <2>2. \A c \in Objects : rc'[c] = 0 => items'[c] = <<>>
        BY <1>1, Parts, ObjectsFinite DEF Containers
    <2>3. \A i \in DOMAIN conv' : FALSE
        BY <1>1, <1>2
    <2>4. QED
        BY <2>1, <2>2, <2>3 DEF Containers, Distinct, Objects
<1>13. QED
    BY <1>4, <1>5, <1>8, <1>9, <1>11, <1>12 DEF CountInv

\* What the call owns is lost, once.
LEMMA LeaveKeeps == ASSUME CountInv, Leave PROVE CountInv'
<1>1. /\ lost' = [o \in Objects |-> IF o \in Owned THEN lost[o] + 1 ELSE lost[o]]
      /\ local' = Empty /\ conv' = <<>> /\ hand' = NULL
      /\ UNCHANGED <<packed, rc, items, client, trash, calls>>
    BY DEF Leave
<1>2. Types'
    BY <1>1, Parts DEF Types, Empty
<1>3. Progress'
    <2>1. /\ local'["pyFunc"] = NULL /\ local'["pyResult"] = NULL
          /\ conv' = <<>> /\ hand' = NULL /\ local' = Empty
          /\ Len(conv') <= MaxDepth /\ \A i \in DOMAIN conv' : FALSE
        BY <1>1, BoundsAssumption DEF Empty, Slots
    <2>2. QED
        BY <2>1 DEF Progress, Empty
<1>4. ASSUME NEW o \in Objects PROVE Owns(local', hand', conv', o) = 0 /\ ~Building(o)'
    <2>1. Owns(local', hand', conv', o) = 0
        BY <1>1, OwnsNothing
    <2>2. ~In(Arrays(conv'), o) /\ ~In(Keys(conv'), o)
        BY <1>1 DEF In, Arrays, Keys
    <2>3. QED
        BY <1>1, <2>1, <2>2, ObjectsFinite DEF Building, Empty
<1>5. ASSUME NEW o \in Objects PROVE Owns(local, hand, conv, o) = Count(o \in Owned)
    <2>1. o \in Owned <=> \/ \E s \in Slots : local[s] = o
                          \/ o = hand
                          \/ \E i \in DOMAIN conv : conv[i].object = o
                          \/ \E i \in DOMAIN conv : conv[i].key = o
        BY DEF Owned
    <2>2. PICK a \in Nat, b \in Nat, c \in Nat, d \in Nat :
              a = Times(local, o) /\ b = Count(o = hand)
              /\ c = Times(Arrays(conv), o) /\ d = Times(Keys(conv), o)
        BY Parts, CountsAreNumbers DEF Count
    <2>3. o \in Owned <=> a # 0 \/ b # 0 \/ c # 0 \/ d # 0
        <3>1. /\ a = 0 <=> \A s \in Slots : local[s] # o
              /\ c = 0 <=> \A i \in DOMAIN conv : conv[i].object # o
              /\ d = 0 <=> \A i \in DOMAIN conv : conv[i].key # o
            BY <2>2, NoneThere, Parts
        <3>2. b = 0 <=> o # hand
            BY <2>2 DEF Count
        <3>3. QED
            BY <2>1, <3>1, <3>2
    <2>4. Owns(local, hand, conv, o) = a + b + c + d /\ Owns(local, hand, conv, o) <= 1
        BY <2>2, Parts DEF Owns, OwnedOnce
    <2>5. QED
        BY <2>3, <2>4 DEF Count
<1>6. ASSUME NEW o \in Objects PROVE \E k, w, f, z \in Int : Moves(o, k, w, f, z)
    <2>1. PICK a \in Nat, c \in Nat, d \in Nat, r \in Nat :
              /\ a = Kept(client, o) /\ c = Loose(trash, items, o) /\ d = lost[o] /\ r = rc[o]
        BY Parts, CountsAreNumbers
    <2>2. PICK m \in {0, 1} : m = Count(o \in Owned)
        BY DEF Count
    <2>3. /\ Kept(client', o) = a /\ Loose(trash', items', o) = c /\ rc'[o] = r
        BY <1>1, <2>1
    <2>4. lost'[o] = d + m
        BY <1>1, <2>1, <2>2 DEF Count
    <2>5. Owns(local, hand, conv, o) = m /\ Owns(local', hand', conv', o) = 0
        BY <1>4, <1>5, <2>2
    <2>6. Moves(o, 0, -m, 0, m)
        BY <2>1, <2>3, <2>4, <2>5 DEF Moves
    <2>7. QED
        BY <2>6
<1>7. CountsCoverHolders'
    BY <1>2, <1>6, BooksBalance
<1>8. OwnedOnce' /\ BuiltAlone'
    BY <1>4 DEF OwnedOnce, BuiltAlone, Objects
<1>9. Containers'
    BY <1>1, Parts DEF Containers, Distinct, Objects
<1>10. QED
    BY <1>2, <1>3, <1>7, <1>8, <1>9 DEF CountInv

-----------------------------------------------------------------------------
(***************************************************************************)
(* An element is stored.                                                    *)
(***************************************************************************)

\* What occurs at most once is in one place.
LEMMA TimesOnce ==
    ASSUME NEW f, IsFiniteSet(DOMAIN f), NEW i \in DOMAIN f, NEW j \in DOMAIN f, f[i] = f[j],
           Times(f, f[i]) <= 1
    PROVE  i = j
<1> SUFFICES ASSUME i # j PROVE FALSE
    OBVIOUS
<1> DEFINE A == {k \in DOMAIN f : f[k] = f[i]}
<1>1. IsFiniteSet(A) /\ {i, j} \in SUBSET A
    BY FS_Subset
<1>2. Cardinality(A) \in Nat /\ Cardinality(A) <= 1
    BY <1>1, FS_CardinalityType DEF Times
<1>3. IsFiniteSet({i}) /\ Cardinality({i}) = 1
    BY FS_Singleton
<1>4. {i} \cup {j} = {i, j} /\ j \notin {i}
    OBVIOUS
<1>5. Cardinality({i} \cup {j}) = Cardinality({i}) + 1
    BY <1>3, <1>4, FS_AddElement
<1>6. Cardinality({i, j}) <= Cardinality(A)
    BY <1>1, FS_Subset
<1>7. QED
    BY <1>2, <1>3, <1>4, <1>5, <1>6

\* What the call builds it owns.
LEMMA BuildingIsOwned ==
    Types => \A o \in Objects : Building(o) => Owns(local, hand, conv, o) # 0
<1> SUFFICES ASSUME Types, NEW o \in Objects, Building(o) PROVE Owns(local, hand, conv, o) # 0
    OBVIOUS
<1>1. conv \in Seq(Frames)
    BY DEF Types
<1>2. QED
    BY <1>1, NotOwned, NoneThere, StackTypes DEF Building, In

\* The arrays under conversion are different objects.
LEMMA StackDistinct ==
    ASSUME CountInv, NEW i \in DOMAIN conv, NEW j \in DOMAIN conv, conv[i].object = conv[j].object
    PROVE  i = j
<1>1. conv \in Seq(Frames) /\ conv[i].object \in Objects
    <2>1. conv \in Seq(Frames) /\ conv[i] \in Frames
        BY Parts
    <2>2. QED
        BY <2>1 DEF Frames
<1>2. PICK o \in Objects : o = conv[i].object
    BY <1>1
<1>3. PICK a \in Nat, b \in Nat, c \in Nat, d \in Nat :
          a = Times(local, o) /\ b = Count(o = hand)
          /\ c = Times(Arrays(conv), o) /\ d = Times(Keys(conv), o)
    BY Parts, CountsAreNumbers DEF Count
<1>4. a + b + c + d <= 1
    BY <1>3, Parts DEF OwnedOnce, Owns
<1>5. c <= 1
    BY <1>4
<1> DEFINE f == Arrays(conv)
<1>6. /\ IsFiniteSet(DOMAIN f) /\ i \in DOMAIN f /\ j \in DOMAIN f /\ f[i] = o /\ f[j] = o
      /\ Times(f, o) <= 1
    BY <1>1, <1>2, <1>3, <1>5, StackTypes, TimesSeq
<1> HIDE DEF f
<1>7. QED
    BY <1>6, TimesOnce

\* The array that an element is stored in
LEMMA TopIsBuilt ==
    ASSUME CountInv, conv # <<>>
    PROVE  /\ Len(conv) \in DOMAIN conv /\ Top \in Frames
           /\ Top.object \in Objects /\ Building(Top.object) /\ rc[Top.object] = 1
           /\ Top.key # NULL => Top.key \in Objects /\ Building(Top.key)
<1>1. conv \in Seq(Frames) /\ Len(conv) \in DOMAIN conv /\ Top \in Frames
    BY Parts DEF Top
<1>2. Top.object \in Objects /\ (Top.key # NULL => Top.key \in Objects)
    BY <1>1 DEF Frames
<1>3. In(Arrays(conv), Top.object) /\ In(Keys(conv), Top.key)
    BY <1>1, InStack DEF Top
<1>4. Building(Top.object) /\ (Top.key # NULL => Building(Top.key))
    BY <1>3 DEF Building
<1>5. QED
    BY <1>1, <1>2, <1>4, Parts DEF BuiltAlone

\* PyList_SET_ITEM
LEMMA StoreInListKeeps == ASSUME CountInv, StoreInList PROVE CountInv'
<1>1. /\ local["pyFunc"] # NULL /\ trash = <<>> /\ hand # NULL /\ conv # <<>> /\ Top.kind = "list"
      /\ hand' = NULL
      /\ UNCHANGED <<packed, rc, local, client, trash, lost, calls>>
    BY DEF StoreInList, Running
<1>2. PICK h \in Objects, d \in Objects : h = hand /\ d = Top.object
    BY <1>1, Parts, TopIsBuilt
<1>3. items' = [items EXCEPT ![d] = Append(@, h)]
    BY <1>2 DEF StoreInList
<1>4. items'[d] = Append(items[d], h) /\ \A c \in Objects : c # d => items'[c] = items[c]
    BY <1>3, Parts
<1>5. Top.left > 0 /\ Top.key = NULL /\ Top.left \in Nat /\ Top.left - 1 \in Nat
    <2>1. /\ \A i \in DOMAIN conv : conv[i].left > 0
          /\ \A i \in DOMAIN conv : conv[i].key # NULL => conv[i].kind = "dict"
        BY <1>1, Parts DEF Progress
    <2>2. Top.left > 0 /\ (Top.key # NULL => Top.kind = "dict")
        BY <1>1, <2>1, TopIsBuilt DEF Top
    <2>3. Top.left \in Nat
        BY <1>1, TopIsBuilt DEF Frames
    <2>4. QED
        BY <1>1, <2>2, <2>3
<1>6. TopGets(Top.left - 1, Top.key)
    <2> DEFINE f == [Top EXCEPT !.left = @ - 1]
    <2>1. /\ f \in Frames /\ f.object = Top.object /\ f.kind = Top.kind
          /\ f.left = Top.left - 1 /\ f.key = Top.key
        BY <1>1, <1>5, TopIsBuilt DEF Frames
    <2>2. TopBecomes(f)
        BY DEF StoreInList, TopBecomes, Top
    <2> HIDE DEF f
    <2>3. QED
        BY <1>1, <2>1, <2>2, TopMoves
<1>7. Types'
    <2>1. items' \in [Objects -> Seq(Objects)]
        BY <1>3, Parts
    <2>2. QED
        BY <1>1, <1>6, <2>1, Parts DEF Types, TopGets
<1>8. Progress'
    <2>1. /\ local'["pyFunc"] \in {Func, NULL} /\ local'["pyFunc"] # NULL
          /\ \E q \in Queries : Missing(q)'
          /\ local'["pyResult"] # NULL => local'["pyArgs"] # NULL
        BY <1>1, Parts DEF Progress, Missing
    <2>2. Len(conv') <= MaxDepth
        BY <1>6, Parts DEF Progress, TopGets
    <2>3. ASSUME NEW i \in DOMAIN conv'
          PROVE  /\ conv'[i].key # NULL => conv'[i].kind = "dict" /\ conv'[i].left > 0
                 /\ i < Len(conv') \/ hand' # NULL
                    => conv'[i].left > 0 /\ (conv'[i].kind = "dict" => conv'[i].key # NULL)
        <3>1. CASE i # Len(conv)
            BY <1>1, <1>6, <3>1, Parts DEF Progress, TopGets
        <3>2. CASE i = Len(conv)
            BY <1>1, <1>5, <1>6, <3>2 DEF TopGets
        <3>3. QED
            BY <3>1, <3>2
    <2>4. QED
        BY <2>1, <2>2, <2>3 DEF Progress
<1>9. ~In(items[d], h) /\ Building(h)
    <2>1. Building(h)
        BY <1>2 DEF Building
    <2>2. Loose(trash, items, h) = 0
        BY <2>1, BuiltHasOneHolder
    <2>3. QED
        BY <2>1, <2>2, NotLoose, NoneThere, Parts
<1>10. \A o : In(items'[d], o) <=> In(items[d], o) \/ o = h
    <2>1. items[d] \in Seq(Objects)
        BY Parts
    <2>2. QED
        BY <1>4, <2>1 DEF In
<1>11. ASSUME NEW o \in Objects
       PROVE  /\ Owns(local', hand', conv', o) = Owns(local, hand, conv, o) - Count(o = h)
              /\ Boxes(items', o) = Boxes(items, o) + Count(o = h)
    <2>1. PICK m \in {0, 1} : m = Count(o = h)
        BY DEF Count
    <2>2. PICK a \in Nat, b \in Nat, c \in Nat, e \in Nat, x \in Nat :
              a = Times(local, o) /\ b = Count(o = hand)
              /\ c = Times(Arrays(conv), o) /\ e = Times(Keys(conv), o) /\ x = Boxes(items, o)
        BY Parts, CountsAreNumbers DEF Count
    <2>3. /\ Times(Arrays(conv'), o) = c
          /\ Times(Keys(conv'), o) = Times(Keys(conv), o) - Count(Top.key = o) + Count(Top.key = o)
        BY <1>1, <1>6, <2>2, TopOwns
    <2>4. Times(Keys(conv'), o) = e
        BY <2>2, <2>3 DEF Count
    <2>5. Count(o = hand) = m /\ Count(o = hand') = 0
        BY <1>1, <1>2, <2>1, ObjectsFinite DEF Count
    <2>6. OwnMoves(o, 0, -m, 0, 0)
        BY <1>1, <2>1, <2>2, <2>3, <2>4, <2>5 DEF OwnMoves
    <2>7. Owns(local', hand', conv', o) = Owns(local, hand, conv, o) + (0 + (-m) + 0 + 0)
        BY <2>6, OwnsMove, Parts
    <2>8. Boxes(items', o) = Boxes(items, o) - Count(In(items[d], o)) + Count(In(items'[d], o))
        BY <1>4, ItemsChange DEF OneBox
    <2>9. Count(In(items'[d], o)) = Count(In(items[d], o)) + m /\ Count(In(items[d], o)) \in Nat
        BY <1>9, <1>10, <2>1 DEF Count
    <2>10. Boxes(items', o) = x + m
        BY <2>1, <2>2, <2>8, <2>9
    <2>11. Owns(local, hand, conv, o) \in Nat
        BY Parts, CountsAreNumbers
    <2>12. QED
        BY <2>1, <2>2, <2>7, <2>10, <2>11
<1>12. ASSUME NEW o \in Objects PROVE \E k, w, f, z \in Int : Moves(o, k, w, f, z)
    <2>1. PICK a \in Nat, b \in Nat, c \in Nat, e \in Nat, r \in Nat :
              /\ a = Kept(client, o) /\ b = Owns(local, hand, conv, o) /\ c = Loose(trash, items, o)
              /\ e = lost[o] /\ r = rc[o]
        BY Parts, CountsAreNumbers
    <2>2. PICK m \in {0, 1} : m = Count(o = h)
        BY DEF Count
    <2>3. PICK x \in Nat, y \in Nat : x = Times(trash, o) /\ y = Boxes(items, o)
        BY Parts, CountsAreNumbers
    <2>4. Loose(trash', items', o) = c + m
        BY <1>1, <1>11, <2>1, <2>2, <2>3 DEF Loose
    <2>5. Moves(o, 0, -m, m, 0)
        BY <1>1, <1>11, <2>1, <2>2, <2>4 DEF Moves
    <2>6. QED
        BY <2>5
<1>13. CountsCoverHolders'
    BY <1>7, <1>12, BooksBalance
<1>14. OwnedOnce'
    <2> SUFFICES ASSUME NEW o \in Objects PROVE Owns(local', hand', conv', o) <= 1
        BY DEF OwnedOnce, Objects
    <2>1. Owns(local, hand, conv, o) <= 1 /\ Owns(local, hand, conv, o) \in Nat
        BY Parts, CountsAreNumbers DEF OwnedOnce
    <2>2. QED
        BY <1>11, <2>1 DEF Count
<1>15. ASSUME NEW o \in Objects, Building(o)' PROVE Building(o)
    <2>1. Arrays(conv') = Arrays(conv)
        BY <1>6 DEF TopGets, Arrays
    <2>2. Keys(conv') = Keys(conv)
        BY <1>6 DEF TopGets, Keys, Top
    <2>3. QED
        BY <1>1, <1>15, <2>1, <2>2, ObjectsFinite DEF Building
<1>16. BuiltAlone'
    BY <1>1, <1>15, Parts DEF BuiltAlone, Objects
<1>17. Containers'
    <2>1. ASSUME NEW c \in Objects PROVE Distinct(items'[c])
        <3>1. Distinct(items[c]) /\ items[c] \in Seq(Objects)
            BY Parts DEF Containers
        <3>2. CASE c = d
            <4>1. items[d] \in Seq(Objects) /\ Distinct(items[d]) /\ ~In(items[d], h)
                BY <1>9, <3>1, <3>2
            <4>2. Distinct(Append(items[d], h))
                BY <4>1, DistinctGrows
            <4>3. QED
                BY <1>4, <3>2, <4>2
        <3>3. CASE c # d
            BY <1>4, <3>1, <3>3
        <3>4. QED
            BY <3>2, <3>3
    <2>2. \A c \in Objects : rc'[c] = 0 => items'[c] = <<>>
        BY <1>1, <1>2, <1>4, Parts, TopIsBuilt DEF Containers
    <2>3. ASSUME NEW i \in DOMAIN conv', conv'[i].kind = "dict", items'[conv'[i].object] # <<>>
          PROVE  Len(items'[conv'[i].object]) >= 2
        <3>1. i \in DOMAIN conv /\ conv[i].kind = "dict" /\ conv'[i].object = conv[i].object
            BY <1>6, <2>3 DEF TopGets
        <3>2. conv[i].object # d /\ conv[i].object \in Objects
            <4>1. i # Len(conv) /\ Len(conv) \in DOMAIN conv
                BY <1>1, <3>1, TopIsBuilt DEF Top
            <4>2. conv[i].object # conv[Len(conv)].object
                BY <3>1, <4>1, StackDistinct
            <4>3. conv[i] \in Frames
                BY <3>1, Parts
            <4>4. QED
                BY <1>2, <4>2, <4>3 DEF Top, Frames
        <3>3. QED
            BY <1>4, <2>3, <3>1, <3>2, Parts DEF Containers
    <2>4. QED
        BY <2>1, <2>2, <2>3 DEF Containers, Distinct, Objects
<1>18. QED
    BY <1>7, <1>8, <1>13, <1>14, <1>16, <1>17 DEF CountInv

\* Two objects, or three, to be released
LEMMA TimesSingle == ASSUME NEW x, NEW o PROVE Times(<<x>>, o) = Count(x = o)
<1>1. {i \in DOMAIN <<x>> : <<x>>[i] = o} = IF x = o THEN {1} ELSE {}
    OBVIOUS
<1>2. QED
    BY <1>1, FS_EmptySet, FS_Singleton DEF Times, Count

IsPair(q, x, y) == q = <<x, y>>
IsTriple(q, x, y, z) == q = <<x, y, z>>

\* How often a pair has an object
LEMMA TimesPair ==
    ASSUME NEW q, NEW x, NEW y, NEW o, IsPair(q, x, y)
    PROVE  Times(q, o) = Count(x = o) + Count(y = o)
<1> DEFINE p == <<x>>
           t == <<y>>
<1>1. DOMAIN p = 1..1 /\ DOMAIN q = 1..2 /\ DOMAIN t = 1..1
    BY DEF IsPair
<1>2. p[1] = x /\ q[1] = x /\ q[2] = y /\ t[1] = y
    BY DEF IsPair
<1>3. Times(p, o) = Count(x = o) /\ Times(t, o) = Count(y = o)
    BY TimesSingle, Zenon
<1> HIDE DEF p, t
<1>4. \A i \in 1..1 : i = 1 /\ q[i] = p[i] /\ q[1 + i] = t[i]
    BY <1>2
<1>5. Joins(q, p, 1, t, 1)
    BY <1>1, <1>4 DEF Joins
<1>6. Times(q, o) = Times(p, o) + Times(t, o)
    BY <1>5, TimesJoin
<1>7. QED
    BY <1>3, <1>6

\* How often a triple has an object
LEMMA TimesTriple ==
    ASSUME NEW q, NEW x, NEW y, NEW z, NEW o, IsTriple(q, x, y, z)
    PROVE  Times(q, o) = Count(x = o) + Count(y = o) + Count(z = o)
<1> DEFINE p == <<x, y>>
           t == <<z>>
<1>1. DOMAIN p = 1..2 /\ DOMAIN q = 1..3 /\ DOMAIN t = 1..1
    BY DEF IsTriple
<1>2. p[1] = x /\ p[2] = y /\ q[1] = x /\ q[2] = y /\ q[3] = z /\ t[1] = z
    BY DEF IsTriple
<1>3. IsPair(p, x, y)
    BY DEF IsPair
<1>4. Times(t, o) = Count(z = o)
    BY TimesSingle, Zenon
<1> HIDE DEF p, t
<1>5. Times(p, o) = Count(x = o) + Count(y = o)
    BY <1>3, TimesPair
<1>6. (\A i \in 1..2 : q[i] = p[i]) /\ \A i \in 1..1 : i = 1 /\ q[2 + i] = t[i]
    BY <1>2
<1>7. Joins(q, p, 2, t, 1)
    BY <1>1, <1>6 DEF Joins
<1>8. Times(q, o) = Times(p, o) + Times(t, o)
    BY <1>7, TimesJoin
<1>9. QED
    BY <1>4, <1>5, <1>8

\* The dict d has got h under the key k, and the counts have followed.
Stored(d, k, h) ==
    /\ rc' \in [Objects -> Nat] /\ items' \in [Objects -> Seq(Objects)] /\ trash' \in Seq(Objects)
    /\ OneBox(d) /\ Distinct(items'[d]) /\ Len(items'[d]) >= 2
    /\ \A o \in Objects : rc'[o] >= rc[o] /\ (o # k /\ o # h => rc'[o] = rc[o])
    /\ \A o \in Objects : \E f \in Int :
          /\ Loose(trash', items', o) = Loose(trash, items, o) + f
          /\ rc'[o] = rc[o] + (f - Count(o = k) - Count(o = h))

\* A new key
StoresNew(d, k, h) ==
    /\ items' = [items EXCEPT ![d] = @ \o <<k, h>>]
    /\ rc' = [rc EXCEPT ![k] = @ + 1, ![h] = @ + 1]
    /\ trash' = <<k, h>>

\* PyDict_SetItem of a new key takes a reference to key and value; the caller gives up its own.
LEMMA StoreNew ==
    ASSUME CountInv, NEW d \in Objects, NEW k \in Objects, NEW h \in Objects, k # h,
           ~In(items[d], k), ~In(items[d], h), trash = <<>>, StoresNew(d, k, h)
    PROVE  Stored(d, k, h)
<1>1. items[d] \in Seq(Objects) /\ Distinct(items[d])
    BY Parts DEF Containers
<1>2. /\ items' \in [Objects -> Seq(Objects)] /\ trash' \in Seq(Objects)
      /\ items'[d] = Append(Append(items[d], k), h)
      /\ \A c \in Objects : c # d => items'[c] = items[c]
    <2> DEFINE u == items[d] \o <<k, h>>
    <2>1. u = Append(Append(items[d], k), h) /\ u \in Seq(Objects)
        BY <1>1
    <2>2. items' = [items EXCEPT ![d] = u]
        BY DEF StoresNew
    <2> HIDE DEF u
    <2>3. trash' \in Seq(Objects)
        BY DEF StoresNew
    <2>4. QED
        BY <2>1, <2>2, <2>3, Parts
<1>3. /\ rc' \in [Objects -> Nat]
      /\ \A o \in Objects : rc'[o] = IF o = k \/ o = h THEN rc[o] + 1 ELSE rc[o]
    <2>1. rc \in [Objects -> Nat]
        BY Parts
    <2>2. rc' = [rc EXCEPT ![k] = @ + 1, ![h] = @ + 1]
        BY DEF StoresNew
    <2>3. \A o \in Objects : rc'[o] = IF o = k \/ o = h THEN rc[o] + 1 ELSE rc[o]
        BY <2>1, <2>2
    <2>4. rc' \in [Objects -> Nat]
        BY <2>1, <2>2
    <2>5. QED
        BY <2>3, <2>4
<1>4. OneBox(d)
    BY <1>2 DEF OneBox
<1> DEFINE u == Append(items[d], k)
<1>5. u \in Seq(Objects) /\ items'[d] = Append(u, h)
    BY <1>1, <1>2
<1>6. Distinct(u) /\ \A o : In(u, o) <=> In(items[d], o) \/ o = k
    BY <1>1, DistinctGrows
<1> HIDE DEF u
<1>7. Distinct(Append(u, h)) /\ \A o : In(Append(u, h), o) <=> In(u, o) \/ o = h
    <2>1. ~In(u, h)
        BY <1>6
    <2>2. QED
        BY <1>5, <1>6, <2>1, DistinctGrows
<1>8. \A o : In(items'[d], o) <=> In(items[d], o) \/ o = k \/ o = h
    BY <1>5, <1>6, <1>7
<1>9. Distinct(items'[d]) /\ Len(items'[d]) >= 2
    <2>1. Len(items'[d]) = Len(items[d]) + 2
        BY <1>1, <1>2
    <2>2. QED
        BY <1>1, <1>5, <1>7, <2>1
<1>10. ASSUME NEW o \in Objects
       PROVE  \E f \in Int : /\ Loose(trash', items', o) = Loose(trash, items, o) + f
                             /\ rc'[o] = rc[o] + (f - Count(o = k) - Count(o = h))
    <2>1. PICK m \in {0, 1}, n \in {0, 1} :
              m = Count(o = k) /\ n = Count(o = h) /\ m = Count(k = o) /\ n = Count(h = o)
        BY DEF Count
    <2>2. PICK x \in Nat, r \in Nat : x = Boxes(items, o) /\ r = rc[o]
        BY Parts, CountsAreNumbers
    <2>3. Boxes(items', o) = Boxes(items, o) - Count(In(items[d], o)) + Count(In(items'[d], o))
        BY <1>4, ItemsChange
    <2>4. Count(In(items'[d], o)) = Count(In(items[d], o)) + m + n /\ Count(In(items[d], o)) \in Nat
        BY <1>8, <2>1 DEF Count
    <2>5. Boxes(items', o) = x + m + n
        BY <2>1, <2>2, <2>3, <2>4
    <2>6. Times(trash', o) = m + n /\ Times(trash, o) = 0
        <3>1. IsPair(trash', k, h)
            BY DEF StoresNew, IsPair
        <3>2. Times(trash', o) = Count(k = o) + Count(h = o)
            BY <3>1, TimesPair
        <3>3. Times(<<>>, o) = 0
            BY TimesSeq
        <3>4. QED
            BY <2>1, <3>2, <3>3
    <2>7. Loose(trash', items', o) = (m + n) + (x + m + n) /\ Loose(trash, items, o) = 0 + x
        BY <2>2, <2>5, <2>6 DEF Loose
    <2>8. rc'[o] = r + (m + n)
        BY <1>3, <2>1, <2>2 DEF Count
    <2>9. /\ Loose(trash', items', o) = Loose(trash, items, o) + (2 * m + 2 * n)
          /\ rc'[o] = rc[o] + ((2 * m + 2 * n) - m - n)
        BY <2>2, <2>7, <2>8
    <2>10. QED
        <3>1. 2 * m + 2 * n \in Int
            OBVIOUS
        <3>2. rc'[o] = rc[o] + ((2 * m + 2 * n) - Count(o = k) - Count(o = h))
            BY <2>1, <2>9
        <3>3. QED
            BY <2>9, <3>1, <3>2
<1>11. \A o \in Objects : rc'[o] >= rc[o] /\ (o # k /\ o # h => rc'[o] = rc[o])
    <2>1. \A o \in Objects : rc[o] \in Nat
        BY Parts
    <2>2. QED
        BY <1>3, <2>1
<1>12. QED
    BY <1>2, <1>3, <1>4, <1>9, <1>10, <1>11 DEF Stored

\* A key that is there already: its value is replaced.
StoresOver(d, k, h) ==
    /\ items' = [items EXCEPT ![d][2] = h]
    /\ rc' = [rc EXCEPT ![h] = @ + 1]
    /\ trash' = <<items[d][2], k, h>>

\* PyDict_SetItem of a known key takes one to the value and gives up the old value.
LEMMA StoreOver ==
    ASSUME CountInv, NEW d \in Objects, NEW k \in Objects, NEW h \in Objects, k # h,
           ~In(items[d], k), ~In(items[d], h), trash = <<>>, Len(items[d]) >= 2,
           StoresOver(d, k, h)
    PROVE  Stored(d, k, h)
<1>1. items[d] \in Seq(Objects) /\ Distinct(items[d]) /\ 2 \in DOMAIN items[d]
    BY Parts DEF Containers
<1>2. PICK v \in Objects : v = items[d][2]
    BY <1>1
<1>3. /\ items' \in [Objects -> Seq(Objects)] /\ items'[d] = [items[d] EXCEPT ![2] = h]
      /\ \A c \in Objects : c # d => items'[c] = items[c]
    <2> DEFINE u == [items[d] EXCEPT ![2] = h]
    <2>1. u \in Seq(Objects)
        BY <1>1
    <2>2. items' = [items EXCEPT ![d] = u]
        BY DEF StoresOver
    <2>3. u = [items[d] EXCEPT ![2] = h]
        OBVIOUS
    <2> HIDE DEF u
    <2>4. QED
        BY <2>1, <2>2, <2>3, Parts
<1>4. trash' = <<v, k, h>> /\ trash' \in Seq(Objects)
    <2>1. trash' = <<v, k, h>>
        BY <1>2 DEF StoresOver
    <2>2. QED
        BY <2>1
<1>5. /\ rc' \in [Objects -> Nat]
      /\ \A o \in Objects : rc'[o] = IF o = h THEN rc[o] + 1 ELSE rc[o]
    <2>1. rc' = [rc EXCEPT ![h] = @ + 1]
        BY DEF StoresOver
    <2>2. rc \in [Objects -> Nat]
        BY Parts
    <2>3. \A o \in Objects : rc'[o] = IF o = h THEN rc[o] + 1 ELSE rc[o]
        BY <2>1, <2>2
    <2>4. rc' \in [Objects -> Nat]
        BY <2>1, <2>2
    <2>5. QED
        BY <2>3, <2>4
<1>6. OneBox(d)
    BY <1>3 DEF OneBox
<1>7. /\ DOMAIN items'[d] = DOMAIN items[d] /\ items'[d][2] = h
      /\ \A i \in DOMAIN items[d] : i # 2 => items'[d][i] = items[d][i]
    BY <1>1, <1>3
<1>8. v # h /\ v # k /\ In(items[d], v)
    BY <1>1, <1>2 DEF In
<1>9. Distinct(items'[d]) /\ Len(items'[d]) >= 2
    <2>1. Len(items'[d]) = Len(items[d])
        BY <1>1, <1>3, <1>7
    <2>2. Distinct(items'[d])
        BY <1>1, <1>7 DEF Distinct, In
    <2>3. QED
        BY <2>1, <2>2
<1>10. \A o : In(items'[d], o) <=> (In(items[d], o) /\ o # v) \/ o = h
    BY <1>1, <1>2, <1>7 DEF Distinct, In
<1>11. ASSUME NEW o \in Objects
       PROVE  \E f \in Int : /\ Loose(trash', items', o) = Loose(trash, items, o) + f
                             /\ rc'[o] = rc[o] + (f - Count(o = k) - Count(o = h))
    <2>1. PICK l \in {0, 1}, m \in {0, 1}, n \in {0, 1} :
              /\ m = Count(o = k) /\ n = Count(o = h)
              /\ l = Count(v = o) /\ m = Count(k = o) /\ n = Count(h = o)
        BY DEF Count
    <2>2. PICK x \in Nat, r \in Nat : x = Boxes(items, o) /\ r = rc[o]
        BY Parts, CountsAreNumbers
    <2>3. Boxes(items', o) = Boxes(items, o) - Count(In(items[d], o)) + Count(In(items'[d], o))
        BY <1>6, ItemsChange
    <2>4. /\ Count(In(items'[d], o)) = Count(In(items[d], o)) - l + n
          /\ Count(In(items[d], o)) \in Nat
        BY <1>8, <1>10, <2>1 DEF Count
    <2>5. Boxes(items', o) = x - l + n
        BY <2>1, <2>2, <2>3, <2>4
    <2>6. Times(trash', o) = l + m + n /\ Times(trash, o) = 0
        <3>0. IsTriple(trash', v, k, h)
            BY <1>4 DEF IsTriple
        <3>1. Times(trash', o) = Count(v = o) + Count(k = o) + Count(h = o)
            BY <3>0, TimesTriple
        <3>2. Times(<<>>, o) = 0
            BY TimesSeq
        <3>3. QED
            BY <2>1, <3>1, <3>2
    <2>7. Loose(trash', items', o) = (l + m + n) + (x - l + n) /\ Loose(trash, items, o) = 0 + x
        BY <2>2, <2>5, <2>6 DEF Loose
    <2>8. rc'[o] = r + n
        BY <1>5, <2>1, <2>2 DEF Count
    <2>9. /\ Loose(trash', items', o) = Loose(trash, items, o) + (m + 2 * n)
          /\ rc'[o] = rc[o] + ((m + 2 * n) - m - n)
        BY <2>2, <2>7, <2>8
    <2>10. QED
        <3>1. m + 2 * n \in Int
            OBVIOUS
        <3>2. rc'[o] = rc[o] + ((m + 2 * n) - Count(o = k) - Count(o = h))
            BY <2>1, <2>9
        <3>3. QED
            BY <2>9, <3>1, <3>2
<1>12. \A o \in Objects : rc'[o] >= rc[o] /\ (o # k /\ o # h => rc'[o] = rc[o])
    <2>1. \A o \in Objects : rc[o] \in Nat
        BY Parts
    <2>2. QED
        BY <1>5, <2>1
<1>13. QED
    BY <1>3, <1>4, <1>5, <1>6, <1>9, <1>11, <1>12 DEF Stored

\* PyDict_SetItem and the two Py_DECREFs after it
LEMMA StoreInDictKeeps == ASSUME CountInv, StoreInDict PROVE CountInv'
<1>0. (Types => \A o \in Objects : Building(o) => Owns(local, hand, conv, o) # 0)'
    BY BuildingIsOwned, PTL
<1>1. /\ local["pyFunc"] # NULL /\ trash = <<>> /\ hand # NULL /\ conv # <<>> /\ Top.kind = "dict"
      /\ hand' = NULL /\ UNCHANGED <<packed, local, client, lost, calls>>
    BY DEF StoreInDict, Running
<1>2. Top.left > 0 /\ Top.key # NULL /\ Top.left \in Nat /\ Top.left - 1 \in Nat
    <2>1. \A i \in DOMAIN conv : conv[i].left > 0 /\ (conv[i].kind = "dict" => conv[i].key # NULL)
        BY <1>1, Parts DEF Progress
    <2>2. Top.left > 0 /\ Top.key # NULL
        BY <1>1, <2>1, TopIsBuilt DEF Top
    <2>3. Top.left \in Nat
        BY <1>1, TopIsBuilt DEF Frames
    <2>4. QED
        BY <2>2, <2>3
<1>3. PICK h \in Objects, d \in Objects, k \in Objects : h = hand /\ d = Top.object /\ k = Top.key
    BY <1>1, <1>2, Parts, TopIsBuilt
<1>4. TopGets(Top.left - 1, NULL)
    <2> DEFINE f == [Top EXCEPT !.left = @ - 1, !.key = NULL]
    <2>1. /\ f \in Frames /\ f.object = Top.object /\ f.kind = Top.kind
          /\ f.left = Top.left - 1 /\ f.key = NULL
        BY <1>1, <1>2, TopIsBuilt DEF Frames
    <2>2. TopBecomes(f)
        <3>1. conv' = [conv EXCEPT ![Len(conv)].left = @ - 1, ![Len(conv)].key = NULL]
            BY DEF StoreInDict
        <3>2. Len(conv) \in DOMAIN conv
            BY <1>1, TopIsBuilt
        <3>3. QED
            BY <3>1, <3>2 DEF TopBecomes, Top
    <2> HIDE DEF f
    <2>3. QED
        BY <1>1, <2>1, <2>2, TopMoves
<1>5. Building(h) /\ Building(k) /\ rc[d] = 1
    BY <1>1, <1>2, <1>3, TopIsBuilt DEF Building
<1>6. k # h /\ ~In(items[d], k) /\ ~In(items[d], h)
    <2>1. Loose(trash, items, h) = 0 /\ Loose(trash, items, k) = 0 /\ Owns(local, hand, conv, k) = 1
        BY <1>5, BuiltHasOneHolder
    <2>2. ~In(items[d], k) /\ ~In(items[d], h)
        BY <2>1, NotLoose, NoneThere, Parts
    <2>3. PICK a \in Nat, b \in Nat, c \in Nat, e \in Nat :
              a = Times(local, k) /\ b = Count(k = hand)
              /\ c = Times(Arrays(conv), k) /\ e = Times(Keys(conv), k)
        BY Parts, CountsAreNumbers DEF Count
    <2>4. e # 0
        BY <1>1, <1>3, <2>3, NoneThere, Parts, TopIsBuilt DEF Top
    <2>5. a + b + c + e = 1
        BY <2>1, <2>3 DEF Owns
    <2>6. b = 0
        BY <2>4, <2>5
    <2>7. k # h
        BY <1>3, <2>3, <2>6 DEF Count
    <2>8. QED
        BY <2>2, <2>7
<1>7. Stored(d, k, h)
    <2>1. StoresNew(d, k, h) \/ (items[d] # <<>> /\ StoresOver(d, k, h))
        BY <1>3 DEF StoreInDict, StoresNew, StoresOver
    <2>2. CASE StoresNew(d, k, h)
        BY <1>1, <1>6, <2>2, StoreNew
    <2>3. CASE items[d] # <<>> /\ StoresOver(d, k, h)
        <3>1. Len(items[d]) >= 2
            BY <1>1, <1>3, <2>3, Parts, TopIsBuilt DEF Containers, Top
        <3>2. QED
            BY <1>1, <1>6, <2>3, <3>1, StoreOver
    <2>4. QED
        BY <2>1, <2>2, <2>3
<1>8. Types'
    <2>1. conv' \in Seq(Frames)
        BY <1>4 DEF TopGets
    <2>2. rc' \in [Objects -> Nat] /\ items' \in [Objects -> Seq(Objects)] /\ trash' \in Seq(Objects)
        BY <1>7 DEF Stored
    <2>3. QED
        BY <1>1, <2>1, <2>2, Parts DEF Types
<1>9. Progress'
    <2>1. /\ local'["pyFunc"] \in {Func, NULL} /\ local'["pyFunc"] # NULL
          /\ \E q \in Queries : Missing(q)'
          /\ local'["pyResult"] # NULL => local'["pyArgs"] # NULL
        BY <1>1, Parts DEF Progress, Missing
    <2>2. Len(conv') <= MaxDepth
        BY <1>4, Parts DEF Progress, TopGets
    <2>3. ASSUME NEW i \in DOMAIN conv'
          PROVE  /\ conv'[i].key # NULL => conv'[i].kind = "dict" /\ conv'[i].left > 0
                 /\ i < Len(conv') \/ hand' # NULL
                    => conv'[i].left > 0 /\ (conv'[i].kind = "dict" => conv'[i].key # NULL)
        <3>1. CASE i # Len(conv)
            <4>1. i \in DOMAIN conv /\ conv'[i] = conv[i]
                BY <1>4, <3>1 DEF TopGets
            <4>2. conv[i].left > 0 /\ (conv[i].kind = "dict" <=> conv[i].key # NULL)
                BY <1>1, <4>1, Parts DEF Progress
            <4>3. QED
                BY <4>1, <4>2
        <3>2. CASE i = Len(conv)
            BY <1>1, <1>4, <3>2 DEF TopGets
        <3>3. QED
            BY <3>1, <3>2
    <2>4. QED
        BY <2>1, <2>2, <2>3 DEF Progress
<1>10. ASSUME NEW o \in Objects
       PROVE  Owns(local', hand', conv', o)
                = Owns(local, hand, conv, o) - Count(o = k) - Count(o = h)
    <2>1. PICK m \in {0, 1}, n \in {0, 1} : m = Count(o = k) /\ n = Count(o = h)
        BY DEF Count
    <2>2. PICK a \in Nat, b \in Nat, c \in Nat, e \in Nat :
              a = Times(local, o) /\ b = Count(o = hand)
              /\ c = Times(Arrays(conv), o) /\ e = Times(Keys(conv), o)
        BY Parts, CountsAreNumbers DEF Count
    <2>3. /\ Times(Arrays(conv'), o) = c
          /\ Times(Keys(conv'), o) = Times(Keys(conv), o) - Count(Top.key = o) + Count(NULL = o)
        BY <1>1, <1>4, <2>2, TopOwns
    <2>4. Count(Top.key = o) = m /\ Count(NULL = o) = 0
        BY <1>3, <2>1, ObjectsFinite DEF Count
    <2>5. Times(Keys(conv'), o) = e - m
        BY <2>2, <2>3, <2>4
    <2>6. Count(o = hand) = n /\ Count(o = hand') = 0
        BY <1>1, <1>3, <2>1, ObjectsFinite DEF Count
    <2>7. PICK i \in Int, j \in Int : i = -n /\ j = -m
        OBVIOUS
    <2>8. OwnMoves(o, 0, i, 0, j)
        <3>1. Times(local', o) = Times(local, o) + 0
            BY <1>1, <2>2
        <3>2. Count(o = hand') = Count(o = hand) + i
            BY <2>1, <2>6, <2>7
        <3>3. Times(Arrays(conv'), o) = Times(Arrays(conv), o) + 0
            BY <2>2, <2>3
        <3>4. Times(Keys(conv'), o) = Times(Keys(conv), o) + j
            BY <2>1, <2>2, <2>5, <2>7
        <3>5. QED
            BY <3>1, <3>2, <3>3, <3>4 DEF OwnMoves
    <2>9. Owns(local', hand', conv', o) = Owns(local, hand, conv, o) + (0 + i + 0 + j)
        <3>1. Types
            BY Parts
        <3>2. QED
            BY <2>8, <3>1, OwnsMove
    <2>10. Owns(local, hand, conv, o) \in Nat
        BY Parts, CountsAreNumbers
    <2>11. QED
        BY <2>1, <2>7, <2>9, <2>10
<1>11. ASSUME NEW o \in Objects PROVE \E i, j, e, z \in Int : Moves(o, i, j, e, z)
    <2>1. PICK a \in Nat, b \in Nat, c \in Nat, e \in Nat, r \in Nat :
              /\ a = Kept(client, o) /\ b = Owns(local, hand, conv, o) /\ c = Loose(trash, items, o)
              /\ e = lost[o] /\ r = rc[o]
        BY Parts, CountsAreNumbers
    <2>2. PICK m \in {0, 1}, n \in {0, 1} : m = Count(o = k) /\ n = Count(o = h)
        BY DEF Count
    <2>3. PICK f \in Int : /\ Loose(trash', items', o) = Loose(trash, items, o) + f
                           /\ rc'[o] = rc[o] + (f - Count(o = k) - Count(o = h))
        BY <1>7 DEF Stored
    <2>4. Owns(local', hand', conv', o) = b + (-m - n) /\ rc'[o] = r + (0 + (-m - n) + f + 0)
        BY <1>10, <2>1, <2>2, <2>3
    <2>5. Kept(client', o) = a + 0 /\ lost'[o] = e + 0
        BY <1>1, <2>1
    <2>6. -m - n \in Int
        OBVIOUS
    <2>7. Moves(o, 0, -m - n, f, 0)
        BY <2>1, <2>3, <2>4, <2>5, <2>6 DEF Moves
    <2>8. QED
        BY <2>6, <2>7
<1>12. CountsCoverHolders'
    BY <1>8, <1>11, BooksBalance
<1>13. OwnedOnce'
    <2> SUFFICES ASSUME NEW o \in Objects PROVE Owns(local', hand', conv', o) <= 1
        BY DEF OwnedOnce, Objects
    <2>1. Owns(local, hand, conv, o) <= 1 /\ Owns(local, hand, conv, o) \in Nat
        BY Parts, CountsAreNumbers DEF OwnedOnce
    <2>2. QED
        BY <1>10, <2>1 DEF Count
<1>14. ASSUME NEW o \in Objects, Building(o)' PROVE Building(o) /\ o # k /\ o # h
    <2>1. Arrays(conv') = Arrays(conv)
        BY <1>4 DEF TopGets, Arrays
    <2>2. In(Keys(conv'), o) => In(Keys(conv), o)
        <3>1. conv' \in Seq(Frames) /\ conv \in Seq(Frames)
            BY <1>4, Parts DEF TopGets
        <3>2. /\ In(Keys(conv'), o) <=> \E i \in DOMAIN conv' : conv'[i].key = o
              /\ In(Keys(conv), o) <=> \E i \in DOMAIN conv : conv[i].key = o
            BY <3>1, InStack
        <3>3. QED
            BY <1>4, <3>2, ObjectsFinite DEF TopGets
    <2>3. Building(o)
        BY <1>1, <1>14, <2>1, <2>2, ObjectsFinite DEF Building
    <2>4. Owns(local', hand', conv', o) # 0
        BY <1>8, <1>14, <1>0 DEF Objects
    <2>5. Owns(local, hand, conv, o) = 1
        BY <2>3, BuiltHasOneHolder
    <2>6. PICK m \in {0, 1}, n \in {0, 1} : m = Count(o = k) /\ n = Count(o = h)
        BY DEF Count
    <2>7. 1 - m - n # 0
        BY <1>10, <2>4, <2>5, <2>6
    <2>8. m = 0 /\ n = 0
        <3>1. ~(m = 1 /\ n = 1)
            BY <1>6, <2>6 DEF Count
        <3>2. QED
            BY <2>7, <3>1
    <2>9. QED
        BY <2>3, <2>6, <2>8 DEF Count
<1>15. BuiltAlone'
    <2>1. \A o \in Objects : o # k /\ o # h => rc'[o] = rc[o]
        BY <1>7 DEF Stored
    <2>2. QED
        BY <1>14, <2>1, Parts DEF BuiltAlone, Objects
<1>16. Containers'
    <2>1. /\ Distinct(items'[d]) /\ Len(items'[d]) >= 2
          /\ \A c \in Objects : c # d => items'[c] = items[c]
          /\ \A c \in Objects : rc'[c] >= rc[c] /\ rc'[c] \in Nat /\ rc[c] \in Nat
        BY <1>7, Parts DEF Stored, OneBox
    <2>2. \A c \in Objects : Distinct(items'[c])
        BY <2>1, Parts DEF Containers
    <2>3. \A c \in Objects : rc'[c] = 0 => items'[c] = <<>>
        <3> SUFFICES ASSUME NEW c \in Objects, rc'[c] = 0 PROVE items'[c] = <<>>
            OBVIOUS
        <3>1. rc[c] = 0
            BY <2>1
        <3>2. c # d
            BY <1>5, <3>1
        <3>3. QED
            BY <2>1, <3>1, <3>2, Parts DEF Containers
    <2>4. ASSUME NEW i \in DOMAIN conv', conv'[i].kind = "dict", items'[conv'[i].object] # <<>>
          PROVE  Len(items'[conv'[i].object]) >= 2
        <3>1. i \in DOMAIN conv /\ conv[i].kind = "dict" /\ conv'[i].object = conv[i].object
            BY <1>4, <2>4 DEF TopGets
        <3>2. conv[i].object \in Objects
            <4>1. conv[i] \in Frames
                BY <3>1, Parts
            <4>2. QED
                BY <4>1 DEF Frames
        <3>3. QED
            BY <2>1, <2>4, <3>1, <3>2, Parts DEF Containers
    <2>5. QED
        BY <2>2, <2>3, <2>4 DEF Containers, Distinct, Objects
<1>17. QED
    BY <1>8, <1>9, <1>12, <1>13, <1>15, <1>16 DEF CountInv

-----------------------------------------------------------------------------
(***************************************************************************)
(* A reference is given up.                                                 *)
(***************************************************************************)

\* How often a concatenation has an object
LEMMA TimesConcat ==
    ASSUME NEW s \in Seq(Objects), NEW t \in Seq(Objects), NEW o
    PROVE  Times(s \o t, o) = Times(s, o) + Times(t, o)
<1> DEFINE h == s \o t
           m == Len(s)
           n == Len(t)
<1>1. /\ m \in Nat /\ n \in Nat
      /\ DOMAIN s = 1..m /\ DOMAIN t = 1..n /\ DOMAIN h = 1..(m + n)
    OBVIOUS
<1>2. (\A i \in 1..m : h[i] = s[i]) /\ \A i \in 1..n : h[m + i] = t[i]
    OBVIOUS
<1> HIDE DEF h, m, n
<1>3. Joins(h, s, m, t, n)
    BY <1>1, <1>2 DEF Joins
<1>4. Times(h, o) = Times(s, o) + Times(t, o)
    BY <1>3, TimesJoin
<1>5. QED
    BY <1>4 DEF h

\* How often the rest of a sequence has an object
LEMMA TimesTail ==
    ASSUME NEW s \in Seq(Objects), s # <<>>, NEW o
    PROVE  /\ Times(s, o) = Count(Head(s) = o) + Times(Tail(s), o)
           /\ Times(Tail(s), o) \in Nat /\ Tail(s) \in Seq(Objects)
<1> DEFINE p == <<Head(s)>>
           t == Tail(s)
<1>1. p \in Seq(Objects) /\ t \in Seq(Objects) /\ p \o t = s
    OBVIOUS
<1>2. Times(p, o) = Count(Head(s) = o)
    BY TimesSingle, Zenon
<1> HIDE DEF p, t
<1>3. Times(p \o t, o) = Times(p, o) + Times(t, o)
    BY <1>1, TimesConcat
<1>4. Times(t, o) \in Nat
    BY <1>1, TimesSeq
<1>5. QED
    BY <1>1, <1>2, <1>3, <1>4 DEF t

\* A release lowers the count by one; the last one frees the object, and then what it holds
\* is to be released.
LEMMA DecrefKeeps == ASSUME CountInv, Decref PROVE CountInv'
<1>1. trash # <<>> /\ UNCHANGED <<packed, local, conv, hand, client, lost, calls>>
    BY DEF Decref
<1>2. PICK g \in Objects : g = Head(trash)
    BY <1>1, Parts
<1>3. rc' = [rc EXCEPT ![g] = @ - 1]
    BY <1>2 DEF Decref
<1>4. \/ rc[g] = 1 /\ items' = [items EXCEPT ![g] = <<>>] /\ trash' = items[g] \o Tail(trash)
      \/ rc[g] # 1 /\ items' = items /\ trash' = Tail(trash)
    BY <1>2 DEF Decref
<1>5. ASSUME NEW o \in Objects
      PROVE  /\ Times(trash, o) = Count(o = g) + Times(Tail(trash), o)
             /\ Times(Tail(trash), o) \in Nat /\ Tail(trash) \in Seq(Objects)
    <2>1. trash \in Seq(Objects) /\ trash # <<>>
        BY <1>1, Parts
    <2>2. /\ Times(trash, o) = Count(Head(trash) = o) + Times(Tail(trash), o)
          /\ Times(Tail(trash), o) \in Nat /\ Tail(trash) \in Seq(Objects)
        BY <2>1, TimesTail
    <2>3. Count(Head(trash) = o) = Count(o = g)
        BY <1>2 DEF Count
    <2>4. QED
        BY <2>2, <2>3
<1>6. Loose(trash, items, g) # 0 /\ rc[g] # 0
    <2>1. Times(trash, g) # 0
        BY <1>5 DEF Count
    <2>2. PICK x \in Nat, y \in Nat : x = Times(trash, g) /\ y = Boxes(items, g)
        BY Parts, CountsAreNumbers
    <2>3. Loose(trash, items, g) = x + y
        BY <2>2 DEF Loose
    <2>4. Loose(trash, items, g) # 0
        BY <2>1, <2>2, <2>3
    <2>5. QED
        BY <2>4, FreeHasNoHolder
<1>7. /\ rc' \in [Objects -> Nat]
      /\ \A o \in Objects : rc'[o] = rc[o] - Count(o = g)
    <2>1. rc \in [Objects -> Nat]
        BY Parts
    <2>2. \A o \in Objects : rc'[o] = IF o = g THEN rc[g] - 1 ELSE rc[o]
        BY <1>3, <2>1
    <2>3. rc[g] - 1 \in Nat
        BY <1>6, <2>1
    <2>4. rc' \in [Objects -> Nat]
        BY <1>3, <2>1, <2>3
    <2>5. QED
        BY <2>1, <2>2, <2>4 DEF Count
<1>8. items[g] \in Seq(Objects) /\ Tail(trash) \in Seq(Objects)
    BY <1>5, Parts
<1>9. Types'
    <2>1. items' \in [Objects -> Seq(Objects)] /\ trash' \in Seq(Objects)
        <3>1. items \in [Objects -> Seq(Objects)] /\ <<>> \in Seq(Objects)
            BY Parts
        <3>2. CASE rc[g] = 1
            <4>1. items' = [items EXCEPT ![g] = <<>>] /\ trash' = items[g] \o Tail(trash)
                BY <1>4, <3>2
            <4>2. items' \in [Objects -> Seq(Objects)]
                BY <3>1, <4>1
            <4>3. trash' \in Seq(Objects)
                BY <1>8, <4>1
            <4>4. QED
                BY <4>2, <4>3
        <3>3. CASE rc[g] # 1
            BY <1>4, <1>8, <3>1, <3>3
        <3>4. QED
            BY <3>2, <3>3
    <2>2. QED
        BY <1>1, <1>7, <2>1, Parts DEF Types
<1>10. Progress'
    BY <1>1, Parts DEF Progress, Missing
<1>11. ASSUME NEW o \in Objects
       PROVE  Loose(trash', items', o) = Loose(trash, items, o) - Count(o = g)
    <2>1. PICK x \in Nat, y \in Nat, m \in {0, 1} :
              x = Times(Tail(trash), o) /\ y = Boxes(items, o) /\ m = Count(o = g)
        BY <1>5, Parts, CountsAreNumbers DEF Count
    <2>2. Loose(trash, items, o) = (m + x) + y
        BY <1>5, <2>1 DEF Loose
    <2>3. CASE rc[g] # 1
        <3>1. Loose(trash', items', o) = x + y
            BY <1>4, <2>1, <2>3 DEF Loose
        <3>2. QED
            BY <2>1, <2>2, <3>1
    <2>4. CASE rc[g] = 1
        <3>1. items' = [items EXCEPT ![g] = <<>>] /\ trash' = items[g] \o Tail(trash)
            BY <1>4, <2>4
        <3>2. OneBox(g) /\ items'[g] = <<>>
            BY <3>1, Parts DEF OneBox
        <3>3. PICK n \in {0, 1} : n = Count(In(items[g], o))
            BY DEF Count
        <3>4. Times(items[g], o) = n
            <4>1. IsFiniteSet(DOMAIN items[g]) /\ Distinct(items[g])
                BY <1>8, Parts, TimesSeq DEF Containers
            <4>2. QED
                BY <3>3, <4>1, TimesDistinct
        <3>5. Times(items[g] \o Tail(trash), o) = Times(items[g], o) + Times(Tail(trash), o)
            BY <1>8, TimesConcat
        <3>6. Boxes(items', o) = Boxes(items, o) - Count(In(items[g], o)) + Count(In(items'[g], o))
            BY <3>2, ItemsChange
        <3>7. Count(In(items'[g], o)) = 0
            BY <3>2 DEF Count, In
        <3>8. Boxes(items', o) = y - n /\ Times(trash', o) = n + x
            BY <2>1, <3>1, <3>3, <3>4, <3>5, <3>6, <3>7
        <3>9. Loose(trash', items', o) = (n + x) + (y - n)
            BY <3>8 DEF Loose
        <3>10. QED
            BY <2>1, <2>2, <3>9
    <2>5. QED
        BY <2>3, <2>4
<1>12. ASSUME NEW o \in Objects PROVE \E k, w, f, z \in Int : Moves(o, k, w, f, z)
    <2>1. PICK a \in Nat, b \in Nat, c \in Nat, d \in Nat, r \in Nat :
              /\ a = Kept(client, o) /\ b = Owns(local, hand, conv, o) /\ c = Loose(trash, items, o)
              /\ d = lost[o] /\ r = rc[o]
        BY Parts, CountsAreNumbers
    <2>2. PICK m \in {0, 1} : m = Count(o = g)
        BY DEF Count
    <2>3. Moves(o, 0, 0, -m, 0)
        BY <1>1, <1>7, <1>11, <2>1, <2>2 DEF Moves
    <2>4. QED
        BY <2>3
<1>13. CountsCoverHolders'
    BY <1>9, <1>12, BooksBalance
<1>14. OwnedOnce'
    BY <1>1, Parts DEF OwnedOnce, Objects
<1>15. ASSUME NEW o \in Objects, Building(o) PROVE o # g
    BY <1>6, <1>15, BuiltHasOneHolder
<1>16. BuiltAlone'
    <2> SUFFICES ASSUME NEW o \in Objects, Building(o)' PROVE rc'[o] = 1
        BY DEF BuiltAlone, Objects
    <2>1. Building(o)
        BY <1>1 DEF Building
    <2>2. rc[o] = 1 /\ o # g
        BY <1>15, <2>1, Parts DEF BuiltAlone
    <2>3. QED
        BY <1>7, <2>2 DEF Count
<1>17. Containers'
    <2>1. /\ \A c \in Objects : c # g => items'[c] = items[c]
          /\ rc[g] = 1 => items'[g] = <<>>
          /\ rc[g] # 1 => items'[g] = items[g]
        BY <1>4, Parts
    <2>2. \A c \in Objects : Distinct(items'[c])
        <3> SUFFICES ASSUME NEW c \in Objects PROVE Distinct(items'[c])
            OBVIOUS
        <3>1. Distinct(items[c])
            BY Parts DEF Containers
        <3>2. Distinct(<<>>)
            BY DEF Distinct
        <3>3. items'[c] = items[c] \/ items'[c] = <<>>
            BY <2>1
        <3>4. QED
            BY <3>1, <3>2, <3>3
    <2>3. \A c \in Objects : rc'[c] = 0 => items'[c] = <<>>
        <3> SUFFICES ASSUME NEW c \in Objects, rc'[c] = 0 PROVE items'[c] = <<>>
            OBVIOUS
        <3>1. rc[c] \in Nat
            BY Parts
        <3>2. CASE c = g
            BY <1>7, <2>1, <3>1, <3>2 DEF Count
        <3>3. CASE c # g
            <4>1. rc[c] = 0
                BY <1>7, <3>1, <3>3 DEF Count
            <4>2. QED
                BY <2>1, <3>3, <4>1, Parts DEF Containers
        <3>4. QED
            BY <3>2, <3>3
    <2>4. ASSUME NEW i \in DOMAIN conv, conv[i].kind = "dict", items'[conv[i].object] # <<>>
          PROVE  Len(items'[conv[i].object]) >= 2
        <3>1. conv \in Seq(Frames) /\ conv[i] \in Frames
            BY Parts
        <3>2. conv[i].object \in Objects /\ In(Arrays(conv), conv[i].object)
            BY <3>1, InStack DEF Frames
        <3>3. conv[i].object # g
            BY <1>15, <3>2 DEF Building
        <3>4. QED
            BY <2>1, <2>4, <3>2, <3>3, Parts DEF Containers
    <2>5. QED
        BY <1>1, <2>2, <2>3, <2>4 DEF Containers, Distinct, Objects
<1>18. QED
    BY <1>9, <1>10, <1>13, <1>14, <1>16, <1>17 DEF CountInv

-----------------------------------------------------------------------------
(***************************************************************************)
(* The tuple of the arguments, and the call.                                *)
(***************************************************************************)

\* A local is set to an object that nobody has.
LEMMA LocalOwns ==
    ASSUME CountInv, NEW s \in Slots, NEW n \in Objects, local[s] = NULL, OneLocal(s, n),
           UNCHANGED <<conv, hand>>, NEW o \in Objects
    PROVE  Owns(local', hand', conv', o) = Owns(local, hand, conv, o) + Count(o = n)
<1>1. Times(local', o) = Times(local, o) - Count(local[s] = o) + Count(n = o)
    BY LocalChange, Parts
<1>2. PICK a \in Nat, b \in Nat, c \in Nat, d \in Nat, m \in {0, 1} :
          /\ a = Times(local, o) /\ b = Count(o = hand) /\ c = Times(Arrays(conv), o)
          /\ d = Times(Keys(conv), o) /\ m = Count(o = n)
    BY Parts, CountsAreNumbers DEF Count
<1>3. Count(local[s] = o) = 0 /\ Count(n = o) = m
    BY <1>2, ObjectsFinite DEF Count
<1>4. Times(local', o) = a + m
    BY <1>1, <1>2, <1>3
<1>5. Owns(local', hand', conv', o) = (a + m) + b + c + d
    BY <1>2, <1>4 DEF Owns
<1>6. Owns(local, hand, conv, o) = a + b + c + d
    BY <1>2 DEF Owns
<1>7. QED
    BY <1>2, <1>5, <1>6

\* No argument is given twice.
PackedOnce == Distinct(packed)

\* PyTuple_Pack
LEMMA PackKeeps == ASSUME CountInv, PackedOnce, Pack PROVE CountInv'
<1> DEFINE held == [i \in DOMAIN packed |-> local[packed[i]]]
<1>1. PICK n \in Objects : n = New /\ rc[n] = 0
    BY NewIsFree DEF Pack
<1>2. /\ local["pyFunc"] # NULL /\ trash = <<>> /\ local["pyArgs"] = NULL
      /\ \A i \in DOMAIN packed : local[packed[i]] # NULL
      /\ UNCHANGED <<packed, conv, hand, client, trash, lost, calls>>
    BY DEF Pack, Running
<1>3. /\ rc' = [o \in Objects |-> IF o = n THEN 1 ELSE rc[o] + Times(held, o)]
      /\ items' = [items EXCEPT ![n] = held]
      /\ local' = [local EXCEPT !["pyArgs"] = n]
    BY <1>1 DEF Pack, Times
<1>4. conv = <<>> /\ hand = NULL
    BY <1>2, Parts DEF Progress, Missing
<1>5. /\ items[n] = <<>> /\ Owns(local, hand, conv, n) = 0
      /\ \A s \in Slots : local[s] # n
    BY <1>1, FreeHasNoHolder, NotOwned, NoneThere, Parts
<1>6. /\ held \in Seq(Objects) /\ DOMAIN held = DOMAIN packed /\ IsFiniteSet(DOMAIN held)
      /\ \A i \in DOMAIN packed : /\ held[i] = local[packed[i]] /\ packed[i] \in Slots
                                  /\ held[i] \in Objects /\ held[i] # n
    <2>1. /\ packed \in Seq({"token", "url"} \cup Queries)
          /\ {"token", "url"} \cup Queries \subseteq Slots
        BY Parts DEF Slots
    <2>2. Len(packed) \in Nat /\ DOMAIN packed = 1..Len(packed)
          /\ \A i \in DOMAIN packed : packed[i] \in Slots
        BY <2>1
    <2>3. \A i \in DOMAIN packed : local[packed[i]] \in Objects /\ local[packed[i]] # n
        BY <1>2, <1>5, <2>2, Parts
    <2>4. held \in Seq(Objects)
        BY <2>2, <2>3
    <2>5. IsFiniteSet(DOMAIN packed)
        BY <2>2, FS_Interval
    <2>6. QED
        BY <2>2, <2>3, <2>4, <2>5
<1> HIDE DEF held
<1>7. Distinct(held)
    <2> SUFFICES ASSUME NEW i \in DOMAIN packed, NEW j \in DOMAIN packed, held[i] = held[j]
                 PROVE  i = j
        BY <1>6 DEF Distinct
    <2>1. PICK o \in Objects : o = held[i]
        BY <1>6
    <2>2. PICK a \in Nat, b \in Nat, c \in Nat, d \in Nat :
              a = Times(local, o) /\ b = Count(o = hand)
              /\ c = Times(Arrays(conv), o) /\ d = Times(Keys(conv), o)
        BY Parts, CountsAreNumbers DEF Count
    <2>3. a + b + c + d <= 1
        BY <2>2, Parts DEF OwnedOnce, Owns
    <2>4. Times(local, o) <= 1
        BY <2>2, <2>3
    <2>5. PICK s \in Slots, t \in Slots :
              s = packed[i] /\ t = packed[j] /\ local[s] = o /\ local[t] = o
        BY <1>6, <2>1
    <2>6. s = t
        <3>1. DOMAIN local = Slots
            BY Parts
        <3>2. QED
            BY <2>4, <2>5, <3>1, SlotsFinite, TimesOnce
    <2>7. QED
        BY <2>5, <2>6 DEF PackedOnce, Distinct
<1>8. ASSUME NEW o \in Objects
      PROVE  Times(held, o) = Count(In(held, o)) /\ (o = n => Times(held, o) = 0)
    <2>1. Times(held, o) = Count(In(held, o))
        BY <1>6, <1>7, TimesDistinct
    <2>2. o = n => ~In(held, o)
        BY <1>6 DEF In
    <2>3. QED
        BY <2>1, <2>2 DEF Count
<1>9. /\ rc' \in [Objects -> Nat]
      /\ \A o \in Objects : rc'[o] = rc[o] + Count(o = n) + Times(held, o)
    <2>1. ASSUME NEW o \in Objects PROVE rc[o] \in Nat /\ Times(held, o) \in Nat
        <3>1. rc[o] \in Nat
            BY Parts
        <3>2. Times(held, o) \in Nat
            BY <1>6, TimesType
        <3>3. QED
            BY <3>1, <3>2
    <2>2. \A o \in Objects : rc'[o] = IF o = n THEN 1 ELSE rc[o] + Times(held, o)
        BY <1>3
    <2>3. rc' \in [Objects -> Nat]
        BY <1>3, <2>1
    <2>4. ASSUME NEW o \in Objects PROVE rc'[o] = rc[o] + Count(o = n) + Times(held, o)
        <3>1. CASE o = n
            BY <1>1, <1>8, <2>2, <3>1 DEF Count
        <3>2. CASE o # n
            BY <2>1, <2>2, <3>2 DEF Count
        <3>3. QED
            BY <3>1, <3>2
    <2>5. QED
        BY <2>3, <2>4
<1>10. items' \in [Objects -> Seq(Objects)] /\ items'[n] = held /\ OneBox(n)
    BY <1>3, <1>6, Parts DEF OneBox
<1>11. OneLocal("pyArgs", n) /\ "pyArgs" \in Slots /\ local' \in [Slots -> Objects \cup {NULL}]
    BY <1>3, Parts DEF OneLocal, Slots
<1>12. Types'
    BY <1>2, <1>9, <1>10, <1>11, Parts DEF Types
<1>13. Progress'
    <2>1. /\ local'["pyFunc"] = local["pyFunc"] /\ local'["pyArgs"] = n /\ n # NULL
        BY <1>11, ObjectsFinite DEF OneLocal, Slots
    <2>2. \A i \in DOMAIN conv' : FALSE
        BY <1>2, <1>4
    <2>3. Len(conv') <= MaxDepth
        BY <1>2, Parts DEF Progress
    <2>4. QED
        BY <1>2, <1>4, <2>1, <2>2, <2>3, Parts DEF Progress
<1>14. ASSUME NEW o \in Objects
       PROVE  Owns(local', hand', conv', o) = Owns(local, hand, conv, o) + Count(o = n)
    BY <1>2, <1>11, LocalOwns
<1>15. ASSUME NEW o \in Objects PROVE \E k, w, f, z \in Int : Moves(o, k, w, f, z)
    <2>1. PICK a \in Nat, b \in Nat, x \in Nat, y \in Nat, d \in Nat, r \in Nat :
              /\ a = Kept(client, o) /\ b = Owns(local, hand, conv, o)
              /\ x = Times(trash, o) /\ y = Boxes(items, o)
              /\ d = lost[o] /\ r = rc[o]
        BY Parts, CountsAreNumbers
    <2>2. PICK m \in {0, 1}, g \in {0, 1} : m = Count(o = n) /\ g = Count(In(held, o))
        BY DEF Count
    <2>3. Boxes(items', o) = Boxes(items, o) - Count(In(items[n], o)) + Count(In(items'[n], o))
        BY <1>10, ItemsChange
    <2>4. Count(In(items[n], o)) = 0
        BY <1>5 DEF Count, In
    <2>5. Boxes(items', o) = y + g
        BY <1>10, <2>1, <2>2, <2>3, <2>4
    <2>6. Loose(trash', items', o) = x + (y + g) /\ Loose(trash, items, o) = x + y
        BY <1>2, <2>1, <2>5 DEF Loose
    <2>7. rc'[o] = r + (0 + m + g + 0)
        BY <1>8, <1>9, <2>1, <2>2
    <2>8. Owns(local', hand', conv', o) = b + m
        BY <1>14, <2>1, <2>2
    <2>9. Kept(client', o) = a + 0 /\ lost'[o] = d + 0
        BY <1>2, <2>1
    <2>10. Moves(o, 0, m, g, 0)
        BY <2>1, <2>6, <2>7, <2>8, <2>9 DEF Moves
    <2>11. QED
        BY <2>10
<1>16. CountsCoverHolders'
    BY <1>12, <1>15, BooksBalance
<1>17. OwnedOnce'
    <2> SUFFICES ASSUME NEW o \in Objects PROVE Owns(local', hand', conv', o) <= 1
        BY DEF OwnedOnce, Objects
    <2>1. Owns(local, hand, conv, o) <= 1 /\ Owns(local, hand, conv, o) \in Nat
        BY Parts, CountsAreNumbers DEF OwnedOnce
    <2>2. QED
        BY <1>5, <1>14, <2>1 DEF Count
<1>18. ASSUME NEW o \in Objects PROVE ~Building(o)'
    <2>1. ~In(Arrays(conv'), o) /\ ~In(Keys(conv'), o)
        BY <1>2, <1>4 DEF In, Arrays, Keys
    <2>2. local'["pyArgs"] # NULL
        BY <1>11, ObjectsFinite DEF OneLocal
    <2>3. QED
        BY <1>2, <1>4, <2>1, <2>2, ObjectsFinite DEF Building
<1>19. BuiltAlone'
    BY <1>18 DEF BuiltAlone, Objects
<1>20. Containers'
    <2>1. \A c \in Objects : Distinct(items'[c])
        BY <1>7, <1>10, Parts DEF Containers, OneBox
    <2>2. ASSUME NEW c \in Objects, rc'[c] = 0 PROVE items'[c] = <<>>
        <3>1. rc[c] \in Nat /\ Times(held, c) \in Nat
            BY <1>8, Parts DEF Count
        <3>2. rc[c] = 0 /\ c # n
            BY <1>9, <2>2, <3>1 DEF Count
        <3>3. QED
            BY <1>10, <3>2, Parts DEF Containers, OneBox
    <2>3. \A i \in DOMAIN conv' : FALSE
        BY <1>2, <1>4
    <2>4. QED
        BY <2>1, <2>2, <2>3 DEF Containers, Distinct, Objects
<1>21. QED
    BY <1>12, <1>13, <1>16, <1>17, <1>19, <1>20 DEF CountInv

\* PyObject_CallObject
LEMMA CallObjectKeeps == ASSUME CountInv, CallObject PROVE CountInv'
<1> DEFINE kept == IF client = {} THEN {local["token"], local["url"]} ELSE {}
<1>1. PICK n \in Objects : n = New /\ rc[n] = 0
    BY NewIsFree DEF CallObject
<1>2. /\ local["pyFunc"] # NULL /\ local["pyArgs"] # NULL /\ local["pyResult"] = NULL
      /\ UNCHANGED <<packed, conv, hand, trash, lost, calls>>
    BY DEF CallObject, Running
<1>3. /\ client' = client \cup kept
      /\ rc' = [o \in Objects |-> IF o = n THEN 1 ELSE IF o \in kept THEN rc[o] + 1 ELSE rc[o]]
      /\ items' = [items EXCEPT ![n] = <<>>]
      /\ local' = [local EXCEPT !["pyResult"] = n]
    BY <1>1 DEF CallObject
<1>4. conv = <<>> /\ hand = NULL
    BY <1>2, Parts DEF Progress, Missing
<1>5. /\ items[n] = <<>> /\ Owns(local, hand, conv, n) = 0
      /\ \A s \in Slots : local[s] # n
    BY <1>1, FreeHasNoHolder, NotOwned, NoneThere, Parts
<1>6. n \notin kept /\ (kept = {} \/ client = {})
    BY <1>5 DEF Slots
<1> HIDE DEF kept
<1>7. items' = items
    BY <1>3, <1>5, Parts
<1>8. /\ rc' \in [Objects -> Nat]
      /\ \A o \in Objects : rc'[o] = rc[o] + Count(o = n) + Count(o \in kept)
    <2>1. \A o \in Objects : rc[o] \in Nat
        BY Parts
    <2>2. \A o \in Objects : rc'[o] = IF o = n THEN 1 ELSE IF o \in kept THEN rc[o] + 1 ELSE rc[o]
        BY <1>3
    <2>3. rc' \in [Objects -> Nat]
        BY <1>3, <2>1
    <2>4. ASSUME NEW o \in Objects PROVE rc'[o] = rc[o] + Count(o = n) + Count(o \in kept)
        <3>1. CASE o = n
            BY <1>1, <1>6, <2>2, <3>1 DEF Count
        <3>2. CASE o # n
            BY <2>1, <2>2, <3>2 DEF Count
        <3>3. QED
            BY <3>1, <3>2
    <2>5. QED
        BY <2>3, <2>4
<1>9. OneLocal("pyResult", n) /\ "pyResult" \in Slots /\ local' \in [Slots -> Objects \cup {NULL}]
    BY <1>3, Parts DEF OneLocal, Slots
<1>10. Types'
    BY <1>2, <1>7, <1>8, <1>9, Parts DEF Types
<1>11. Progress'
    <2>1. local'["pyFunc"] = local["pyFunc"] /\ local'["pyArgs"] = local["pyArgs"]
        BY <1>9 DEF OneLocal, Slots
    <2>2. \A i \in DOMAIN conv' : FALSE
        BY <1>2, <1>4
    <2>3. Len(conv') <= MaxDepth
        BY <1>2, Parts DEF Progress
    <2>4. QED
        BY <1>2, <1>4, <2>1, <2>2, <2>3, Parts DEF Progress
<1>12. ASSUME NEW o \in Objects
       PROVE  Owns(local', hand', conv', o) = Owns(local, hand, conv, o) + Count(o = n)
    BY <1>2, <1>9, LocalOwns
<1>13. ASSUME NEW o \in Objects PROVE \E k, w, f, z \in Int : Moves(o, k, w, f, z)
    <2>1. PICK a \in Nat, b \in Nat, c \in Nat, d \in Nat, r \in Nat :
              /\ a = Kept(client, o) /\ b = Owns(local, hand, conv, o) /\ c = Loose(trash, items, o)
              /\ d = lost[o] /\ r = rc[o]
        BY Parts, CountsAreNumbers
    <2>2. PICK m \in {0, 1}, g \in {0, 1} : m = Count(o = n) /\ g = Count(o \in kept)
        BY DEF Count
    <2>3. Count(o \in client') = Count(o \in client) + g /\ Count(o \in client) \in Nat
        BY <1>3, <1>6, <2>2 DEF Count
    <2>4. Kept(client', o) = a + g
        BY <2>1, <2>2, <2>3 DEF Kept, Count
    <2>5. rc'[o] = r + (g + m + 0 + 0)
        BY <1>8, <2>1, <2>2
    <2>6. Owns(local', hand', conv', o) = b + m
        BY <1>12, <2>1, <2>2
    <2>7. Loose(trash', items', o) = c + 0 /\ lost'[o] = d + 0
        BY <1>2, <1>7, <2>1
    <2>8. Moves(o, g, m, 0, 0)
        BY <2>1, <2>4, <2>5, <2>6, <2>7 DEF Moves
    <2>9. QED
        BY <2>8
<1>14. CountsCoverHolders'
    BY <1>10, <1>13, BooksBalance
<1>15. OwnedOnce'
    <2> SUFFICES ASSUME NEW o \in Objects PROVE Owns(local', hand', conv', o) <= 1
        BY DEF OwnedOnce, Objects
    <2>1. Owns(local, hand, conv, o) <= 1 /\ Owns(local, hand, conv, o) \in Nat
        BY Parts, CountsAreNumbers DEF OwnedOnce
    <2>2. QED
        BY <1>5, <1>12, <2>1 DEF Count
<1>16. ASSUME NEW o \in Objects PROVE ~Building(o)'
    <2>1. ~In(Arrays(conv'), o) /\ ~In(Keys(conv'), o)
        BY <1>2, <1>4 DEF In, Arrays, Keys
    <2>2. local'["pyArgs"] # NULL
        BY <1>2, <1>9 DEF OneLocal, Slots
    <2>3. QED
        BY <1>2, <1>4, <2>1, <2>2, ObjectsFinite DEF Building
<1>17. BuiltAlone'
    BY <1>16 DEF BuiltAlone, Objects
<1>18. Containers'
    <2>1. ASSUME NEW c \in Objects PROVE rc'[c] = 0 => rc[c] = 0
        <3>1. rc[c] \in Nat
            BY Parts
        <3>2. QED
            BY <1>8, <3>1 DEF Count
    <2>2. \A i \in DOMAIN conv' : FALSE
        BY <1>2, <1>4
    <2>3. QED
        BY <1>7, <2>1, <2>2, Parts DEF Containers, Distinct, Objects
<1>19. QED
    BY <1>10, <1>11, <1>14, <1>15, <1>17, <1>18 DEF CountInv

-----------------------------------------------------------------------------
(***************************************************************************)
(* The counts.                                                              *)
(***************************************************************************)

\* Before the first call only the function is alive, held by its module.
LEMMA CountInit == Init => CountInv /\ PackedOnce
<1> SUFFICES ASSUME Init PROVE CountInv /\ PackedOnce
    OBVIOUS
<1>1. /\ rc = [o \in Objects |-> IF o = Func THEN 1 ELSE 0]
      /\ items = [o \in Objects |-> <<>>] /\ packed = <<>> /\ local = Empty
      /\ conv = <<>> /\ hand = NULL /\ client = {} /\ trash = <<>>
      /\ lost = [o \in Objects |-> 0] /\ calls = 0
    BY DEF Init
<1>2. Types
    <2>1. /\ rc \in [Objects -> Nat] /\ lost \in [Objects -> Nat] /\ calls \in Nat
          /\ local \in [Slots -> Objects \cup {NULL}] /\ hand \in Objects \cup {NULL}
        BY <1>1 DEF Empty
    <2>2. /\ items \in [Objects -> Seq(Objects)] /\ trash \in Seq(Objects)
        BY <1>1
    <2>3. packed \in Seq({"token", "url"} \cup Queries) /\ conv \in Seq(Frames)
        BY <1>1
    <2>4. QED
        BY <2>1, <2>2, <2>3 DEF Types
<1>3. local["pyFunc"] = NULL /\ local["pyResult"] = NULL
    BY <1>1 DEF Empty, Slots
<1>4. Progress
    <2>1. Len(conv) <= MaxDepth /\ \A i \in DOMAIN conv : FALSE
        BY <1>1, BoundsAssumption
    <2>2. QED
        BY <1>1, <1>3, <2>1 DEF Progress
<1>5. ASSUME NEW o \in Objects
      PROVE  Owns(local, hand, conv, o) = 0 /\ Boxes(items, o) = 0 /\ Times(trash, o) = 0 /\ ~Building(o)
    <2>1. Owns(local, hand, conv, o) = 0
        BY <1>1, OwnsNothing
    <2>2. Boxes(items, o) = 0 /\ Times(trash, o) = 0
        BY <1>1, <1>2, NoneThere DEF In
    <2>3. ~Building(o)
        BY <1>2, <2>1, BuildingIsOwned
    <2>4. QED
        BY <2>1, <2>2, <2>3
<1>6. OwnedOnce /\ BuiltAlone
    BY <1>5 DEF OwnedOnce, BuiltAlone
<1>7. Containers
    BY <1>1 DEF Containers, Distinct
<1>8. CountsCoverHolders
    <2> SUFFICES ASSUME NEW o \in Objects PROVE rc[o] = Holders(o) + lost[o]
        BY DEF CountsCoverHolders
    <2>1. Holders(o) = Kept(client, o) + Owns(local, hand, conv, o) + Loose(trash, items, o)
        BY <1>2, HoldersAre
    <2>2. Kept(client, o) = Count(o = Func) + 0 /\ Loose(trash, items, o) = 0 + 0
        BY <1>1, <1>5 DEF Kept, Loose, Count
    <2>3. rc[o] = Count(o = Func) /\ lost[o] = 0 /\ Count(o = Func) \in Nat
        BY <1>1 DEF Count
    <2>4. QED
        BY <1>5, <2>1, <2>2, <2>3
<1>9. PackedOnce
    BY <1>1 DEF PackedOnce, Distinct
<1>10. QED
    BY <1>2, <1>4, <1>6, <1>7, <1>8, <1>9 DEF CountInv

\* Every argument is there once: call_python_function packs token, url and the queries.
LEMMA PackedStep == PackedOnce /\ [Next]_vars => PackedOnce'
<1> SUFFICES ASSUME PackedOnce, [Next]_vars PROVE PackedOnce'
    OBVIOUS
<1>1. CASE GetAttr
    <2>1. Distinct(<<"token", "url", "query">>)
        BY DEF Distinct
    <2>2. Distinct(<<"token", "url", "query", "query2">>)
        BY DEF Distinct
    <2>3. QED
        BY <1>1, <2>1, <2>2 DEF GetAttr, PackedOnce
<1>2. CASE UNCHANGED packed
    BY <1>2 DEF PackedOnce
<1>3. QED
    BY <1>1, <1>2 DEF Next, vars, BuildValue, ConvertLeaf, ConvertArray, ConvertKey, StoreInList,
        StoreInDict, ConvertedArray, Converted, Pack, CallObject, Return, ReturnsNull, ConvertThrows,
        Leave, Decref

\* Each operation of the bridge keeps the books.
LEMMA CountStep == CountInv /\ PackedOnce /\ [Next]_vars => CountInv'
<1> SUFFICES ASSUME CountInv, PackedOnce, [Next]_vars PROVE CountInv'
    OBVIOUS
<1>1. CASE UNCHANGED vars
    <2>1. UNCHANGED <<rc, items, packed, local, conv, hand, client, trash, lost, calls>>
        BY <1>1 DEF vars
    <2>2. Types' /\ Progress'
        BY <2>1, Parts DEF Types, Progress, Missing
    <2>3. BuiltAlone' /\ OwnedOnce' /\ Containers' /\ CountsCoverHolders'
        BY <2>1, <2>2, HandOverKeeps DEF Building
    <2>4. QED
        BY <2>2, <2>3 DEF CountInv
<1>2. CASE GetAttr
    BY <1>2, GetAttrKeeps
<1>3. ASSUME NEW s \in Slots, BuildValue(s) PROVE CountInv'
    BY <1>3, BuildValueKeeps
<1>4. CASE ConvertLeaf
    BY <1>4, ConvertLeafKeeps
<1>5. ASSUME NEW kind \in {"list", "dict"}, NEW n \in 1..MaxItems, ConvertArray(kind, n) PROVE CountInv'
    BY <1>5, ConvertArrayKeeps
<1>6. CASE ConvertKey
    BY <1>6, ConvertKeyKeeps
<1>7. CASE StoreInList
    BY <1>7, StoreInListKeeps
<1>8. CASE StoreInDict
    BY <1>8, StoreInDictKeeps
<1>9. CASE ConvertedArray
    BY <1>9, ConvertedArrayKeeps
<1>10. CASE Converted
    BY <1>10, ConvertedKeeps
<1>11. CASE Pack
    BY <1>11, PackKeeps
<1>12. CASE CallObject
    BY <1>12, CallObjectKeeps
<1>13. CASE Return \/ ReturnsNull \/ ConvertThrows
    BY <1>13, LeaveKeeps DEF Return, ReturnsNull, ConvertThrows
<1>14. CASE Decref
    BY <1>14, DecrefKeeps
<1>15. QED
    BY <1>1, <1>2, <1>3, <1>4, <1>5, <1>6, <1>7, <1>8, <1>9, <1>10, <1>11, <1>12, <1>13, <1>14 DEF Next

\* The inductive invariant, with the arguments of a call packed at most once each,
\* holds in every behaviour of the bridge.
THEOREM CountsInvariant == Spec => [](CountInv /\ PackedOnce)
<1>1. CountInv /\ PackedOnce /\ [Next]_vars => (CountInv /\ PackedOnce)'
    BY CountStep, PackedStep
<1>2. QED
    BY CountInit, <1>1, PTL DEF Spec

\* The count of every Python object is the number of its holders plus the references
\* that the early returns lost: no new, borrowed or stolen reference is mistaken for
\* another on any path through the conversions and the call, whatever the values.
THEOREM CountsAlwaysCoverHolders == Spec => []CountsCoverHolders
<1>1. CountInv => CountsCoverHolders
    BY DEF CountInv
<1>2. QED
    BY CountsInvariant, <1>1, PTL

\* What a call still builds or owns is never freed under it: every object that the
\* locals, the conversion or the pending releases have has a count above zero.
THEOREM OwnedIsAlive ==
    Spec => [](\A o \in Objects : o \in Owned \/ In(trash, o) \/ (\E c \in Objects : In(items[c], o))
                                  => rc[o] > 0)
<1>1. CountInv => \A o \in Objects :
          o \in Owned \/ In(trash, o) \/ (\E c \in Objects : In(items[c], o)) => rc[o] > 0
    <2> SUFFICES ASSUME CountInv, NEW o \in Objects, rc[o] = 0
                 PROVE  /\ o \notin Owned /\ ~In(trash, o) /\ \A c \in Objects : ~In(items[c], o)
        <3>1. CountInv => \A x \in Objects : rc[x] \in Nat
            BY Parts
        <3>2. QED
            BY <3>1
    <2>1. Owns(local, hand, conv, o) = 0 /\ Loose(trash, items, o) = 0
        BY FreeHasNoHolder
    <2>2. Times(local, o) = 0 /\ o # hand /\ Times(Arrays(conv), o) = 0 /\ Times(Keys(conv), o) = 0
          /\ Times(trash, o) = 0 /\ Boxes(items, o) = 0
        BY <2>1, NotOwned, NotLoose, Parts
    <2>3. QED
        BY <2>2, NoneThere, Parts DEF Owned, In
<1>2. QED
    BY CountsInvariant, <1>1, PTL

-----------------------------------------------------------------------------
(***************************************************************************)
(* The sum over a finite set.  Its definition recurs over subsets; that     *)
(* there is one function that does, and which, needs no induction but the   *)
(* least subset on which two of them would differ.                          *)
(***************************************************************************)

Sum(f, S) == MapThenSumSet(LAMBDA o : f[o], S)

\* A function h that follows the recursion by which the sum over S is defined
Any(s) == CHOOSE x \in s : TRUE
IsSum(h, f, S) ==
    h = [s \in SUBSET S |-> IF s = {} THEN 0 ELSE f[Any(s)] + h[s \ {Any(s)}]]

\* The definition of the sum, as the library has it.
LEMMA SumChosen ==
    ASSUME NEW f, NEW S
    PROVE  Sum(f, S) = (CHOOSE h : IsSum(h, f, S))[S]
BY DEF Sum, MapThenSumSet, MapThenFoldSet, IsSum, Any

\* Two functions that both follow the recursion are the same: a least set on which they
\* differ is not empty, and without its chosen element they do not differ.
LEMMA SumUnique ==
    ASSUME NEW f, NEW S, IsFiniteSet(S), NEW g, IsSum(g, f, S), NEW h, IsSum(h, f, S)
    PROVE  h = g
<1> DEFINE T == {s \in SUBSET S : g[s] # h[s]}
<1>1. CASE T = {}
    <2>1. \A s \in SUBSET S : g[s] = h[s]
        BY <1>1
    <2>2. /\ DOMAIN g = SUBSET S /\ g = [s \in DOMAIN g |-> g[s]]
          /\ DOMAIN h = SUBSET S /\ h = [s \in DOMAIN h |-> h[s]]
        BY DEF IsSum
    <2>3. QED
        BY <2>1, <2>2
<1>2. CASE T # {}
    <2>1. IsWellFoundedOn(StrictSubsetOrdering(S), SUBSET S)
        BY FS_StrictSubsetOrderingWellFounded, FS_FiniteSubsetsOfFinite
    <2>2. PICK s \in T : \A t \in T : ~(<<t, s>> \in StrictSubsetOrdering(S))
        BY <1>2, <2>1, WFMin
    <2>3. s \in SUBSET S /\ g[s] # h[s]
        BY <2>2
    <2>4. /\ g[s] = IF s = {} THEN 0 ELSE f[Any(s)] + g[s \ {Any(s)}]
          /\ h[s] = IF s = {} THEN 0 ELSE f[Any(s)] + h[s \ {Any(s)}]
        BY <2>3 DEF IsSum
    <2>5. s # {}
        BY <2>3, <2>4
    <2>6. PICK x \in s : x = Any(s)
        BY <2>5 DEF Any
    <2>7. s \ {x} \in SUBSET S /\ s \ {x} \subseteq s /\ s \ {x} # s
        BY <2>3, <2>6
    <2>8. <<s \ {x}, s>> \in StrictSubsetOrdering(S)
        BY <2>3, <2>7 DEF StrictSubsetOrdering
    <2>9. s \ {x} \notin T
        BY <2>2, <2>8
    <2>10. g[s \ {x}] = h[s \ {x}]
        BY <2>7, <2>9
    <2>11. QED
        BY <2>3, <2>4, <2>5, <2>6, <2>10
<1>3. QED
    BY <1>1, <1>2

\* f(x) marks at every x: what there is to count in place of the sum
Marks(f, s) == {p \in s \X Nat : 1 <= p[2] /\ p[2] <= f[p[1]]}

\* There are finitely many marks.
LEMMA MarksFinite ==
    ASSUME NEW S, IsFiniteSet(S), NEW f \in [S -> Nat], NEW m \in Nat, \A x \in S : f[x] <= m,
           NEW s \in SUBSET S
    PROVE  IsFiniteSet(Marks(f, s)) /\ Cardinality(Marks(f, s)) \in Nat
<1>1. IsFiniteSet(1..m) /\ IsFiniteSet(s)
    BY FS_Interval, FS_Subset
<1>2. IsFiniteSet(s \X (1..m))
    BY <1>1, FS_Product
<1>3. Marks(f, s) \in SUBSET (s \X (1..m))
    <2>1. ASSUME NEW p \in Marks(f, s) PROVE p \in s \X (1..m)
        <3>1. p \in s \X Nat /\ 1 <= p[2] /\ p[2] <= f[p[1]]
            BY <2>1 DEF Marks
        <3>2. PICK x \in s, i \in Nat : p = <<x, i>>
            BY <3>1
        <3>3. i \in 1..m
            BY <3>1, <3>2
        <3>4. QED
            BY <3>2, <3>3
    <2>2. QED
        BY <2>1
<1>4. QED
    BY <1>2, <1>3, FS_Subset, FS_CardinalityType

\* As many marks as the function says are at each place.
LEMMA MarksAt ==
    ASSUME NEW S, NEW f \in [S -> Nat], NEW x \in S
    PROVE  IsFiniteSet(Marks(f, {x})) /\ Cardinality(Marks(f, {x})) = f[x]
<1> DEFINE M == Marks(f, {x})
           b == [i \in 1..f[x] |-> <<x, i>>]
<1>1. f[x] \in Nat
    OBVIOUS
<1>2. b \in [1..f[x] -> M]
    BY <1>1 DEF Marks
<1>3. \A i, j \in 1..f[x] : b[i] = b[j] => i = j
    OBVIOUS
<1>4. ASSUME NEW p \in M PROVE \E i \in 1..f[x] : b[i] = p
    <2>1. p \in {x} \X Nat /\ 1 <= p[2] /\ p[2] <= f[p[1]]
        BY <1>4 DEF Marks
    <2>2. PICK i \in Nat : p = <<x, i>>
        BY <2>1
    <2>3. i \in 1..f[x]
        BY <1>1, <2>1, <2>2
    <2>4. QED
        BY <2>2, <2>3
<1>5. b \in Bijection(1..f[x], M)
    BY <1>2, <1>3, <1>4 DEF Bijection, Injection, Surjection, IsInjective
<1>6. ExistsBijection(1..f[x], M)
    BY <1>5 DEF ExistsBijection
<1> HIDE DEF M
<1>7. IsFiniteSet(M)
    BY <1>1, <1>6, FS_NatBijection
<1>8. Cardinality(M) = f[x]
    BY <1>1, <1>6, FS_CountingElements
<1>9. QED
    BY <1>7, <1>8 DEF M

\* The number of the marks follows the recursion, so it is the sum.
LEMMA SumIsMarks ==
    ASSUME NEW S, IsFiniteSet(S), NEW f \in [S -> Nat], NEW m \in Nat, \A x \in S : f[x] <= m
    PROVE  Sum(f, S) = Cardinality(Marks(f, S))
<1> DEFINE g == [s \in SUBSET S |-> Cardinality(Marks(f, s))]
<1>1. \A s \in SUBSET S : IsFiniteSet(Marks(f, s)) /\ Cardinality(Marks(f, s)) \in Nat
    BY MarksFinite
<1>2. ASSUME NEW s \in SUBSET S
      PROVE  g[s] = IF s = {} THEN 0 ELSE f[Any(s)] + g[s \ {Any(s)}]
    <2>1. CASE s = {}
        <3>1. Marks(f, {}) = {}
            BY DEF Marks
        <3>2. QED
            BY <2>1, <3>1, FS_EmptySet
    <2>2. CASE s # {}
        <3>1. PICK x \in s : x = Any(s)
            BY <2>2 DEF Any
        <3> DEFINE A == Marks(f, {x})
                   B == Marks(f, s \ {x})
        <3>2. Marks(f, s) = A \cup B /\ A \cap B = {}
            BY DEF Marks
        <3>3. IsFiniteSet(A) /\ Cardinality(A) = f[x] /\ f[x] \in Nat
            BY MarksAt
        <3>4. IsFiniteSet(B) /\ Cardinality(B) \in Nat /\ g[s \ {x}] = Cardinality(B)
            BY <1>1
        <3>5. g[s] = Cardinality(Marks(f, s))
            OBVIOUS
        <3> HIDE DEF A, B, g
        <3>6. Cardinality(A \cup B) = Cardinality(A) + Cardinality(B) - Cardinality({})
            BY <3>2, <3>3, <3>4, FS_Union
        <3>7. Cardinality({}) = 0
            BY FS_EmptySet
        <3>8. g[s] = f[x] + g[s \ {x}]
            BY <3>2, <3>3, <3>4, <3>5, <3>6, <3>7
        <3>9. QED
            BY <2>2, <3>1, <3>8
    <2>3. QED
        BY <2>1, <2>2
<1>3. IsSum(g, f, S)
    <2>1. DOMAIN g = SUBSET S /\ g = [s \in DOMAIN g |-> g[s]]
        OBVIOUS
    <2> HIDE DEF g
    <2>2. QED
        BY <1>2, <2>1 DEF IsSum
<1>4. g[S] = Cardinality(Marks(f, S))
    OBVIOUS
<1> HIDE DEF g
<1>5. \A h : IsSum(h, f, S) => h = g
    BY <1>3, SumUnique
<1>6. (CHOOSE h : IsSum(h, f, S)) = g
    BY <1>3, <1>5, Zenon
<1>7. QED
    BY <1>4, <1>6, SumChosen

\* One mark more at every place of O
LEMMA MarksMore ==
    ASSUME NEW S, IsFiniteSet(S), NEW f \in [S -> Nat], NEW m \in Nat, \A x \in S : f[x] <= m,
           NEW O \in SUBSET S, NEW g \in [S -> Nat],
           \A x \in S : g[x] = IF x \in O THEN f[x] + 1 ELSE f[x]
    PROVE  Cardinality(Marks(g, S)) = Cardinality(Marks(f, S)) + Cardinality(O)
<1> DEFINE A == Marks(f, S)
           N == {p \in S \X Nat : p[1] \in O /\ p[2] = f[p[1]] + 1}
           b == [x \in O |-> <<x, f[x] + 1>>]
<1>1. Marks(g, S) = A \cup N
    <2>1. ASSUME NEW x \in S, NEW i \in Nat
          PROVE  1 <= i /\ i <= g[x] <=> (1 <= i /\ i <= f[x]) \/ (x \in O /\ i = f[x] + 1)
        <3>1. f[x] \in Nat /\ g[x] = IF x \in O THEN f[x] + 1 ELSE f[x]
            OBVIOUS
        <3>2. QED
            BY <3>1
    <2>2. QED
        BY <2>1 DEF Marks
<1>2. A \cap N = {}
    <2> SUFFICES ASSUME NEW p \in S \X Nat, p[2] <= f[p[1]], p[2] = f[p[1]] + 1 PROVE FALSE
        BY DEF Marks
    <2>1. f[p[1]] \in Nat
        OBVIOUS
    <2>2. QED
        BY <2>1
<1>3. b \in Bijection(O, N)
    <2>1. b \in [O -> N]
        OBVIOUS
    <2>2. \A x, y \in O : b[x] = b[y] => x = y
        OBVIOUS
    <2>3. ASSUME NEW p \in N PROVE \E x \in O : b[x] = p
        <3>1. PICK x \in S, i \in Nat : p = <<x, i>>
            OBVIOUS
        <3>2. x \in O /\ i = f[x] + 1
            BY <3>1
        <3>3. b[x] = p
            BY <3>1, <3>2
        <3>4. QED
            BY <3>2, <3>3
    <2>4. QED
        BY <2>1, <2>2, <2>3 DEF Bijection, Injection, Surjection, IsInjective
<1>4. IsFiniteSet(O) /\ ExistsBijection(O, N)
    BY <1>3, FS_Subset DEF ExistsBijection
<1> HIDE DEF N
<1>5. IsFiniteSet(N) /\ Cardinality(N) = Cardinality(O)
    BY <1>4, FS_Bijection
<1>6. IsFiniteSet(A) /\ Cardinality(A) \in Nat
    <2>1. S \in SUBSET S
        OBVIOUS
    <2>2. QED
        BY <2>1, MarksFinite
<1>7. Cardinality(O) \in Nat /\ Cardinality({}) = 0
    BY <1>4, FS_CardinalityType, FS_EmptySet
<1> HIDE DEF A
<1>8. Cardinality(A \cup N) = Cardinality(A) + Cardinality(N) - Cardinality({})
    BY <1>2, <1>5, <1>6, FS_Union
<1>9. QED
    BY <1>1, <1>5, <1>6, <1>7, <1>8 DEF A

-----------------------------------------------------------------------------
(***************************************************************************)
(* What a call can lose.                                                    *)
(***************************************************************************)

\* Calls that have ended, and what each may have lost
Ended == IF local["pyFunc"] = NULL THEN calls ELSE calls - 1
LossLimit == Max({7, 4 + 2 * MaxDepth})

LossInv ==
    /\ local["pyFunc"] # NULL => calls >= 1
    /\ \A o \in Objects : lost[o] <= Ended
    /\ Cardinality(Marks(lost, Objects)) <= Ended * LossLimit

\* The bound of the property is no less than either of its parts.
LEMMA LimitCovers == LossLimit \in Nat /\ LossLimit >= 7 /\ LossLimit >= 4 + 2 * MaxDepth
<1> DEFINE n == 4 + 2 * MaxDepth
<1>1. n \in Nat
    BY BoundsAssumption
<1> HIDE DEF n
<1>2. \E x \in {7, n} : \A y \in {7, n} : x >= y
    <2>1. CASE n >= 7
        BY <1>1, <2>1
    <2>2. CASE 7 >= n
        BY <1>1, <2>2
    <2>3. QED
        BY <1>1, <2>1, <2>2
<1>3. LossLimit = CHOOSE x \in {7, n} : \A y \in {7, n} : x >= y
    BY DEF LossLimit, Max, n
<1>4. LossLimit \in {7, n} /\ \A y \in {7, n} : LossLimit >= y
    BY <1>2, <1>3
<1>5. QED
    BY <1>1, <1>4 DEF n

\* A sequence holds no more objects than it is long.
LEMMA SmallRange ==
    ASSUME NEW f, NEW n \in Nat, DOMAIN f = 1..n PROVE Small({f[i] : i \in 1..n}, n)
<1> DEFINE T == {f[i] : i \in 1..n}
           g == [i \in 1..n |-> f[i]]
<1>1. g \in Surjection(1..n, T)
    BY DEF Surjection
<1>2. IsFiniteSet(1..n) /\ Cardinality(1..n) = n
    BY FS_Interval
<1> HIDE DEF T, g
<1>3. IsFiniteSet(T) /\ Cardinality(T) <= n
    BY <1>1, <1>2, FS_Surjection
<1>4. Cardinality(T) \in Nat
    BY <1>3, FS_CardinalityType
<1>5. QED
    BY <1>3, <1>4 DEF Small, T

\* A call that has its arguments packed loses its locals; one that throws while it
\* converts has only the function, the two strings and one query, and the arrays.
LEMMA LeaveLoses ==
    ASSUME CountInv, Return \/ ReturnsNull \/ ConvertThrows
    PROVE  Small(Owned \cap Objects, LossLimit)
<1>1. CASE local["pyArgs"] # NULL
    <2>1. conv = <<>> /\ hand = NULL
        BY <1>1, Parts DEF Progress, Missing
    <2>2. Owned \cap Objects \in
            SUBSET {local["pyFunc"], local["token"], local["url"], local["pyArgs"],
                    local["pyResult"], local["query"], local["query2"]}
        BY <2>1, ObjectsFinite DEF Owned, Slots, Queries
    <2>3. Small({local["pyFunc"], local["token"], local["url"], local["pyArgs"],
                 local["pyResult"], local["query"], local["query2"]}, 7)
        BY SmallSets
    <2>4. Small(Owned \cap Objects, 7)
        BY <2>2, <2>3, SmallSubset
    <2>5. QED
        BY <2>4, LimitCovers DEF Small
<1>2. CASE local["pyArgs"] = NULL
    <2>1. Due
        BY <1>2, Parts DEF Return, ReturnsNull, ConvertThrows, Progress
    <2>2. PICK q \in Queries : Missing(q)
        BY <2>1, DueMeans
    <2>3. hand = NULL /\ local[q] = NULL /\ local["pyResult"] = NULL
        BY <1>2, <2>1, <2>2, DueMeans, Parts DEF Missing, Progress
    <2>4. PICK r \in Queries : \A t \in Queries : t = q \/ t = r
        BY DEF Queries
    <2> DEFINE L == {local["pyFunc"], local["token"], local["url"], local[r]}
               A == {Arrays(conv)[i] : i \in 1..Len(conv)}
               K == {Keys(conv)[i] : i \in 1..Len(conv)}
    <2>5. Len(conv) \in Nat /\ Len(conv) <= MaxDepth /\ DOMAIN conv = 1..Len(conv)
          /\ conv \in Seq(Frames)
        BY Parts DEF Progress
    <2>6. /\ DOMAIN Arrays(conv) = 1..Len(conv) /\ DOMAIN Keys(conv) = 1..Len(conv)
          /\ \A i \in DOMAIN conv : Arrays(conv)[i] = conv[i].object /\ Keys(conv)[i] = conv[i].key
        BY <2>5, StackTypes
    <2>7. Small(L, 4)
        BY SmallSets
    <2>8. Small(A, Len(conv)) /\ Small(K, Len(conv))
        BY <2>5, <2>6, SmallRange
    <2>9. Owned \cap Objects \in SUBSET ((L \cup A) \cup K)
        <3> SUFFICES ASSUME NEW o \in Objects, o \in Owned PROVE o \in L \/ o \in A \/ o \in K
            OBVIOUS
        <3>1. \/ \E s \in Slots : local[s] = o
              \/ o = hand
              \/ \E i \in DOMAIN conv : conv[i].object = o
              \/ \E i \in DOMAIN conv : conv[i].key = o
            BY DEF Owned
        <3>2. ASSUME NEW s \in Slots, local[s] = o PROVE o \in L
            BY <1>2, <2>3, <2>4, <3>2, ObjectsFinite DEF Slots
        <3>3. ASSUME NEW i \in DOMAIN conv, conv[i].object = o PROVE o \in A
            BY <2>5, <2>6, <3>3
        <3>4. ASSUME NEW i \in DOMAIN conv, conv[i].key = o PROVE o \in K
            BY <2>5, <2>6, <3>4
        <3>5. QED
            BY <2>3, <3>1, <3>2, <3>3, <3>4, ObjectsFinite
    <2> HIDE DEF L, A, K
    <2>10. Small(L \cup A, 4 + Len(conv))
        BY <2>5, <2>7, <2>8, SmallUnion
    <2>11. Small((L \cup A) \cup K, (4 + Len(conv)) + Len(conv))
        <3>1. 4 + Len(conv) \in Nat
            BY <2>5
        <3>2. QED
            BY <2>5, <2>8, <2>10, <3>1, SmallUnion
    <2>12. Small(Owned \cap Objects, (4 + Len(conv)) + Len(conv))
        <3>1. (4 + Len(conv)) + Len(conv) \in Nat
            BY <2>5
        <3>2. QED
            BY <2>9, <2>11, <3>1, SmallSubset
    <2>13. (4 + Len(conv)) + Len(conv) <= LossLimit
        BY <2>5, LimitCovers, BoundsAssumption
    <2>14. QED
        BY <2>5, <2>12, <2>13, LimitCovers DEF Small
<1>3. QED
    BY <1>1, <1>2

\* A step that loses nothing
LEMMA NothingLost ==
    ASSUME CountInv, LossInv, UNCHANGED <<lost, calls>>, local'["pyFunc"] = local["pyFunc"]
    PROVE  LossInv'
BY DEF LossInv, Ended, Objects, LossLimit, Marks

\* The end of a call loses at most the bound: each object it owns once.
LEMMA LeaveLoss ==
    ASSUME CountInv, LossInv, Return \/ ReturnsNull \/ ConvertThrows
    PROVE  LossInv'
<1>1. /\ lost' = [o \in Objects |-> IF o \in Owned THEN lost[o] + 1 ELSE lost[o]]
      /\ local'["pyFunc"] = NULL /\ calls' = calls
    BY DEF Return, ReturnsNull, ConvertThrows, Leave, Empty, Slots
<1>2. local["pyFunc"] # NULL
    BY DEF Return, ReturnsNull, ConvertThrows, Running, Due
<1>3. calls \in Nat /\ calls >= 1 /\ Ended = calls - 1 /\ Ended \in Nat /\ Ended' = calls
    BY <1>1, <1>2, Parts DEF LossInv, Ended
<1> DEFINE O == Owned \cap Objects
           g == lost'
<1>4. /\ lost \in [Objects -> Nat] /\ g \in [Objects -> Nat] /\ O \in SUBSET Objects
      /\ \A x \in Objects : g[x] = IF x \in O THEN lost[x] + 1 ELSE lost[x]
    BY <1>1, Parts
<1>5. \A x \in Objects : lost[x] <= Ended
    BY DEF LossInv
<1>6. Cardinality(O) \in Nat /\ Cardinality(O) <= LossLimit
    BY LeaveLoses DEF Small
<1> HIDE DEF O, g
<1>7. Cardinality(Marks(g, Objects)) = Cardinality(Marks(lost, Objects)) + Cardinality(O)
    BY <1>3, <1>4, <1>5, MarksMore, ObjectsFinite
<1>8. PICK c \in Nat, l \in Nat, k \in Nat, e \in Nat :
          /\ c = Cardinality(Marks(lost, Objects)) /\ l = LossLimit /\ k = Cardinality(O) /\ e = Ended
    <2>1. Objects \in SUBSET Objects
        OBVIOUS
    <2>2. Cardinality(Marks(lost, Objects)) \in Nat
        BY <1>3, <1>4, <1>5, <2>1, MarksFinite, ObjectsFinite
    <2>3. QED
        BY <1>3, <1>6, <2>2, LimitCovers
<1>9. c <= e * l /\ k <= l
    BY <1>6, <1>8 DEF LossInv
<1>10. c + k <= (e + 1) * l
    BY <1>9
<1>11. Cardinality(Marks(g, Objects)) <= calls * LossLimit
    <2>1. calls = e + 1
        BY <1>3, <1>8
    <2>2. QED
        BY <1>7, <1>8, <1>10, <2>1
<1>12. \A x \in Objects : g[x] <= calls
    <2> SUFFICES ASSUME NEW x \in Objects PROVE g[x] <= calls
        OBVIOUS
    <2>1. lost[x] \in Nat /\ lost[x] <= calls - 1
        BY <1>3, <1>4, <1>5
    <2>2. QED
        BY <1>3, <1>4, <2>1
<1>13. QED
    BY <1>1, <1>3, <1>11, <1>12 DEF LossInv, g, Objects, LossLimit, Marks

\* Before the first call nothing is lost.
LEMMA LossInit == Init => LossInv
<1> SUFFICES ASSUME Init PROVE LossInv
    OBVIOUS
<1>1. local["pyFunc"] = NULL /\ calls = 0 /\ \A o \in Objects : lost[o] = 0
    BY DEF Init, Empty, Slots
<1>2. Marks(lost, Objects) = {}
    BY <1>1 DEF Marks
<1>3. Cardinality(Marks(lost, Objects)) = 0
    BY <1>2, FS_EmptySet
<1>4. 0 * LossLimit = 0
    BY LimitCovers
<1>5. QED
    BY <1>1, <1>3, <1>4 DEF LossInv, Ended

\* Every step keeps the bound.
LEMMA LossStep == CountInv /\ LossInv /\ [Next]_vars => LossInv'
<1> SUFFICES ASSUME CountInv, LossInv, [Next]_vars PROVE LossInv'
    OBVIOUS
<1>1. CASE GetAttr
    <2>1. /\ calls' = calls + 1 /\ lost' = lost /\ local["pyFunc"] = NULL /\ local'["pyFunc"] = Func
        BY <1>1, Parts DEF GetAttr, Empty, Slots
    <2>2. Ended' = Ended /\ calls' >= 1
        BY <2>1, Parts DEF Ended, Func, NULL
    <2>3. QED
        BY <2>1, <2>2 DEF LossInv, Objects, LossLimit, Marks
<1>2. CASE Return \/ ReturnsNull \/ ConvertThrows
    BY <1>2, LeaveLoss
<1>3. CASE UNCHANGED <<lost, calls>> /\ local'["pyFunc"] = local["pyFunc"]
    BY <1>3, NothingLost
<1>4. ASSUME NEW s \in Slots, BuildValue(s)
      PROVE  UNCHANGED <<lost, calls>> /\ local'["pyFunc"] = local["pyFunc"]
    BY <1>4, Parts DEF BuildValue
<1>5. CASE Converted
    BY <1>3, <1>5, Parts DEF Converted, Queries
<1>6. CASE Pack \/ CallObject
    <2>1. UNCHANGED <<lost, calls>>
        BY <1>6 DEF Pack, CallObject
    <2>2. local' = [local EXCEPT !["pyArgs"] = New] \/ local' = [local EXCEPT !["pyResult"] = New]
        BY <1>6 DEF Pack, CallObject
    <2>3. local'["pyFunc"] = local["pyFunc"]
        BY <2>2, Parts DEF Slots
    <2>4. QED
        BY <1>3, <2>1, <2>3
<1>7. QED
    BY <1>1, <1>2, <1>3, <1>4, <1>5, <1>6 DEF Next, vars, ConvertLeaf, ConvertArray, ConvertKey,
        StoreInList, StoreInDict, ConvertedArray, Decref

\* Memory grows by a bounded number of lost references per call, whatever the
\* queries are: seven locals, or four and two per level of the array on which the
\* conversion failed.
THEOREM LossIsPerCall == Spec => []LossPerCall
<1>1. CountInv /\ LossInv => LossPerCall
    <2> SUFFICES ASSUME CountInv, LossInv PROVE LossPerCall
        OBVIOUS
    <2>1. calls \in Nat /\ Ended \in Nat /\ Ended <= calls
        BY Parts DEF LossInv, Ended
    <2>2. Sum(lost, Objects) = Cardinality(Marks(lost, Objects))
        BY <2>1, Parts, ObjectsFinite, SumIsMarks DEF LossInv
    <2>3. Cardinality(Marks(lost, Objects)) <= Ended * LossLimit
        BY DEF LossInv
    <2>4. Ended * LossLimit <= calls * LossLimit
        BY <2>1, LimitCovers
    <2>5. Ended * LossLimit \in Nat /\ calls * LossLimit \in Nat
        BY <2>1, LimitCovers
    <2>6. Cardinality(Marks(lost, Objects)) \in Nat
        <3>1. Objects \in SUBSET Objects
            OBVIOUS
        <3>2. QED
            BY <2>1, <3>1, MarksFinite, Parts, ObjectsFinite DEF LossInv
    <2>7. Sum(lost, Objects) <= calls * LossLimit
        BY <2>2, <2>3, <2>4, <2>5, <2>6
    <2>8. QED
        BY <2>7, Zenon DEF LossPerCall, Sum, LossLimit
<1>2. LossInv /\ CountInv /\ [Next]_vars => LossInv'
    BY LossStep
<1>3. QED
    BY CountsInvariant, LossInit, <1>1, <1>2, PTL DEF Spec
=============================================================================
