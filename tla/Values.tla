------------------------------- MODULE Values -------------------------------
(***************************************************************************)
(* src/zend/value.cpp: the C++ class Value around a zval of the PHP engine. *)
(* A zval is undefined, a scalar, an array (a counted cell, shared until it *)
(* is written) or a reference (a counted cell that holds the one zval its   *)
(* holders share).  Cells are freed when their count gets to zero, so that  *)
(* every operation has to keep the counts right.  An array has one element  *)
(* here; releasing it, when the array is freed, is a step of its own.       *)
(***************************************************************************)
EXTENDS Naturals, Sequences, FiniteSets

CONSTANTS Vars,   \* C++ Values, and zvals of PHP code they are made from
          Cells,  \* addresses on PHP's heap
          None,
          MaxLost \* bound: zvals that are overwritten without a release

ASSUME ValuesAssumption ==
    /\ None \notin Vars \cup Cells
    /\ IsFiniteSet(Vars) /\ IsFiniteSet(Cells)
    /\ MaxLost \in Nat

VARIABLES val,    \* the zval of each variable, Gone when it does not exist
          heap,   \* the cells
          trash,  \* zvals that are being released
          lost,   \* zvals that were overwritten without a release (history)
          broken  \* is a zval held that is not counted? (history)

vars == <<val, heap, trash, lost, broken>>
history == <<lost, broken>>

Zval(t, c) == [t |-> t, p |-> c]
Gone == Zval("gone", None)
Undef == Zval("undef", None)
Scalar == Zval("scalar", None)
FreeCell == [kind |-> "free", rc |-> 0, item |-> Undef]

Init ==
    /\ val = [x \in Vars |-> Gone]
    /\ heap = [c \in Cells |-> FreeCell]
    /\ trash = <<>>
    /\ lost = <<>>
    /\ broken = FALSE

\* What becomes of a heap whose counts are too small is not followed further.
Sound == trash = <<>> /\ ~broken
Exists(x) == Sound /\ val[x] # Gone
Vacant(x) == Sound /\ val[x] = Gone
Fresh == {c \in Cells : heap[c].kind = "free"}

Counted(z) == z.t \in {"arr", "ref"}
AddRef(h, z) == IF Counted(z) THEN [h EXCEPT ![z.p].rc = @ + 1] ELSE h
DelRef(h, z) == [h EXCEPT ![z.p].rc = @ - 1]
Alloc(h, c, kind, rc, item) == [h EXCEPT ![c] = [kind |-> kind, rc |-> rc, item |-> item]]

\* ZVAL_DEREF
Deref(z) == IF z.t = "ref" THEN heap[z.p].item ELSE z

\* zend_array_dup: the copy holds its element too, without a reference that
\* nobody else has.
Dup(h, c, z) ==
    LET i == h[z.p].item
        e == IF i.t = "ref" /\ h[i.p].rc = 1 THEN h[i.p].item ELSE i
    IN Alloc(AddRef(h, e), c, "arr", 1, e)

\* A holder of z is gone that did not release it.
Lose(z) ==
    IF Counted(z) THEN Len(lost) < MaxLost /\ lost' = Append(lost, z) ELSE UNCHANGED lost

-----------------------------------------------------------------------------
(***************************************************************************)
(* Construction and destruction.                                            *)
(***************************************************************************)

\* Value(), Value(int) and so on; Value(Type::Array)
Create(x) ==
    /\ Vacant(x)
    /\ val' = [val EXCEPT ![x] = Scalar]
    /\ UNCHANGED <<heap, trash, history>>

CreateArray(x) ==
    /\ Vacant(x)
    /\ \E c \in Fresh :
          /\ val' = [val EXCEPT ![x] = Zval("arr", c)]
          /\ heap' = Alloc(heap, c, "arr", 1, Undef)
    /\ UNCHANGED <<trash, history>>

\* Mutant of CopyConstruct: ZVAL_COPY_VALUE, which does not count.
CopyConstructUncounted(x, y) ==
    /\ Vacant(x) /\ Exists(y)
    /\ val' = [val EXCEPT ![x] = Deref(val[y])]
    /\ UNCHANGED <<heap, trash, history>>

\* Value(const Value &)
CopyConstruct(x, y) ==
    /\ Vacant(x) /\ Exists(y)
    /\ val' = [val EXCEPT ![x] = Deref(val[y])]
    /\ heap' = AddRef(heap, Deref(val[y]))
    /\ UNCHANGED <<trash, history>>

\* ZVAL_DUP
Duplicate(x, z) ==
    /\ IF z.t = "arr"
       THEN \E c \in Fresh :
               /\ val' = [val EXCEPT ![x] = Zval("arr", c)]
               /\ heap' = Dup(heap, c, z)
       ELSE /\ val' = [val EXCEPT ![x] = z]
            /\ heap' = AddRef(heap, z)
    /\ UNCHANGED <<trash, history>>

\* Value(zval *), as for each parameter of a call.
Wrap(x, y) == Vacant(x) /\ Exists(y) /\ Duplicate(x, val[y])

\* Value(zval *, true) and makeReference(): both become holders of a reference.
WrapRef(x, y) ==
    /\ Vacant(x) /\ Exists(y)
    /\ val[y] # Undef
    /\ IF val[y].t = "ref"
       THEN /\ val' = [val EXCEPT ![x] = val[y]]
            /\ heap' = AddRef(heap, val[y])
       ELSE \E c \in Fresh :
               /\ val' = [val EXCEPT ![x] = Zval("ref", c), ![y] = Zval("ref", c)]
               /\ heap' = Alloc(heap, c, "ref", 2, val[y])
    /\ UNCHANGED <<trash, history>>

\* Value(Value &&), and detach(true) for a zval that is returned to PHP; detach(false)
\* does no more than that for the nulls that readProperty and readDimension return.
MoveConstruct(x, y) ==
    /\ Vacant(x) /\ Exists(y)
    /\ val' = [val EXCEPT ![x] = val[y], ![y] = Undef]
    /\ UNCHANGED <<heap, trash, history>>

\* toZval() of a property or an element that PHP code is going to write to: y's
\* zval is detached with one count less, and what is left of it is made a
\* reference.  A reference gets its count back; an array has one holder more than
\* its count then, and the reference a holder that nobody has.
DetachForWrite(x, y) ==
    /\ Vacant(x) /\ Exists(y)
    /\ Counted(val[y]) /\ heap[val[y].p].rc > 1
    /\ IF val[y].t = "ref"
       THEN /\ val' = [val EXCEPT ![x] = val[y], ![y] = Undef]
            /\ UNCHANGED <<heap, history>>
       ELSE \E c \in Fresh :
               /\ val' = [val EXCEPT ![x] = Zval("ref", c), ![y] = Undef]
               /\ heap' = Alloc(DelRef(heap, val[y]), c, "ref", 2, val[y])
               /\ Lose(Zval("ref", c))
               /\ broken' = TRUE
    /\ UNCHANGED trash

\* ~Value(), and invalidate(), which leaves an undefined value behind
Destroy(x) ==
    /\ Exists(x)
    /\ val' = [val EXCEPT ![x] = Gone]
    /\ trash' = <<val[x]>>
    /\ UNCHANGED <<heap, history>>

Invalidate(x) ==
    /\ Exists(x)
    /\ val[x] # Undef
    /\ val' = [val EXCEPT ![x] = Undef]
    /\ trash' = <<val[x]>>
    /\ UNCHANGED <<heap, history>>

\* Mutant of Release: the last but one holder frees the cell.
ReleaseEarly ==
    /\ trash # <<>>
    /\ LET z == Head(trash) IN
       IF Counted(z) /\ heap[z.p].rc <= 2
       THEN /\ heap' = [heap EXCEPT ![z.p] = FreeCell]
            /\ trash' = <<heap[z.p].item>> \o Tail(trash)
       ELSE /\ heap' = IF Counted(z) THEN DelRef(heap, z) ELSE heap
            /\ trash' = Tail(trash)
    /\ UNCHANGED <<val, history>>

\* zval_ptr_dtor: an array or a reference that is freed releases what it holds.
Release ==
    /\ trash # <<>>
    /\ LET z == Head(trash) IN
       IF Counted(z) /\ heap[z.p].rc = 1
       THEN /\ heap' = [heap EXCEPT ![z.p] = FreeCell]
            /\ trash' = <<heap[z.p].item>> \o Tail(trash)
       ELSE /\ heap' = IF Counted(z) THEN DelRef(heap, z) ELSE heap
            /\ trash' = Tail(trash)
    /\ UNCHANGED <<val, history>>

-----------------------------------------------------------------------------
(***************************************************************************)
(* Elements.                                                                *)
(***************************************************************************)

\* get(): the element is wrapped.  An absent one is null for a string key; for an
\* integer index the code asks for an undefined Value, which throws an Error, so
\* that no Value comes to be and nothing changes.
Get(x, y) ==
    LET z == Deref(val[y])
        e == IF z.t = "arr" THEN heap[z.p].item ELSE Undef
    IN
    /\ Vacant(x) /\ Exists(y)
    /\ Duplicate(x, IF e = Undef THEN Scalar ELSE e)

\* convert_to_array and SEPARATE_ZVAL_IF_NOT_REF, with c for an array that has to
\* be made: what they make of variable x, and of the heap.  A reference is
\* unwrapped, whoever else holds it.
Unwrapped(x) ==
    IF val[x].t # "ref" THEN heap
    ELSE IF heap[val[x].p].rc = 1 THEN [heap EXCEPT ![val[x].p] = FreeCell]
    ELSE AddRef(DelRef(heap, val[x]), Deref(val[x]))

Shared(x) == Unwrapped(x)[Deref(val[x]).p].rc > 1

\* Mutant of Separated: no copy is made of an array that others share.
SeparatedInPlace(x, c) ==
    LET z == Deref(val[x]) IN
    IF z.t # "arr" THEN [array |-> c, heap |-> Alloc(Unwrapped(x), c, "arr", 1, Undef)]
    ELSE [array |-> z.p, heap |-> Unwrapped(x)]

Separated(x, c) ==
    LET z == Deref(val[x]) IN
    IF z.t # "arr" THEN [array |-> c, heap |-> Alloc(Unwrapped(x), c, "arr", 1, Undef)]
    ELSE IF Shared(x) THEN [array |-> c, heap |-> Dup(DelRef(Unwrapped(x), z), c, z)]
    ELSE [array |-> z.p, heap |-> Unwrapped(x)]

\* set(), by way of operator[] and HashMember: the element takes y's zval as it
\* is, the one it replaces is released.  An array that is set as its own element
\* is what it has become by then.
Set(x, y) ==
    /\ Exists(x) /\ Exists(y)
    /\ val[x] # Undef /\ val[y] # Undef
    /\ \E c \in Fresh :
          LET s == Separated(x, c)
              a == Zval("arr", s.array)
              z == IF x = y THEN a ELSE val[y]
          IN
          /\ val' = [val EXCEPT ![x] = a]
          /\ trash' = <<s.heap[s.array].item>>
          /\ heap' = AddRef([s.heap EXCEPT ![s.array].item = z], z)
    /\ UNCHANGED history

\* unset(): an array that is reached through a reference is changed where it is.
Unset(x) ==
    /\ Exists(x)
    /\ Deref(val[x]).t = "arr"
    /\ \E c \in Fresh :
          LET s == IF val[x].t = "ref"
                   THEN [array |-> Deref(val[x]).p, heap |-> heap]
                   ELSE Separated(x, c)
          IN
          /\ val' = IF val[x].t = "ref" THEN val ELSE [val EXCEPT ![x].p = s.array]
          /\ trash' = <<s.heap[s.array].item>>
          /\ heap' = [s.heap EXCEPT ![s.array].item = Undef]
    /\ UNCHANGED history

-----------------------------------------------------------------------------
(***************************************************************************)
(* Assignment.                                                              *)
(***************************************************************************)

\* The variable, or what its reference holds, gets zval z.
Store(h, x, z) ==
    IF val[x].t = "ref"
    THEN val' = val /\ heap' = [h EXCEPT ![val[x].p].item = z]
    ELSE val' = [val EXCEPT ![x] = z] /\ heap' = h

\* operator=(const Value &): a shared array in the way is duplicated, and the
\* duplicate is then overwritten.
Assign(x, y) ==
    LET to == Deref(val[x])
        from == Deref(val[y])
    IN
    /\ Exists(x) /\ Exists(y)
    /\ IF to.t = "arr" /\ (x = y \/ (val[x] = val[y] /\ val[x].t = "ref"))
       THEN UNCHANGED vars
       ELSE IF to.t = "arr" /\ heap[to.p].rc > 1
       THEN \E c \in Fresh :
               /\ Store(AddRef(Dup(DelRef(heap, to), c, to), from), x, from)
               /\ Lose(Zval("arr", c))
               /\ UNCHANGED <<trash, broken>>
       ELSE /\ Store(AddRef(heap, from), x, from)
            /\ trash' = <<to>>
            /\ UNCHANGED history

\* operator=(Value &&): values are swapped, but when one is a reference the zval
\* is copied without being counted, over what was there.
MoveAssign(x, y) ==
    /\ Exists(x) /\ Exists(y) /\ x # y
    /\ IF "ref" \in {val[x].t, val[y].t}
       THEN /\ val' = [val EXCEPT ![x] = val[y]]
            /\ Lose(val[x])
            /\ broken' = Counted(val[y])
       ELSE /\ val' = [val EXCEPT ![x] = val[y], ![y] = val[x]]
            /\ UNCHANGED history
    /\ UNCHANGED <<heap, trash>>

-----------------------------------------------------------------------------

Next ==
    \/ \E x \in Vars :
          Create(x) \/ CreateArray(x) \/ Destroy(x) \/ Invalidate(x) \/ Unset(x)
    \/ \E x, y \in Vars :
          \/ CopyConstruct(x, y) \/ Wrap(x, y) \/ WrapRef(x, y) \/ MoveConstruct(x, y)
          \/ DetachForWrite(x, y) \/ Get(x, y) \/ Set(x, y) \/ Assign(x, y) \/ MoveAssign(x, y)
    \/ Release

Spec == Init /\ [][Next]_vars
-----------------------------------------------------------------------------
(***************************************************************************)
(* Properties.                                                              *)
(***************************************************************************)

Zvals == [t : {"gone", "undef", "scalar", "arr", "ref"}, p : Cells \cup {None}]

\* A zval that says it is an array or a reference points to a live one.
Points(z) == IF Counted(z) THEN z.p \in Cells /\ heap[z.p].kind = z.t ELSE z.p = None

TypeOK ==
    /\ val \in [Vars -> Zvals]
    /\ heap \in [Cells -> [kind : {"free", "arr", "ref"}, rc : Nat, item : Zvals]]
    /\ trash \in Seq(Zvals)
    /\ lost \in Seq(Zvals) /\ Len(lost) <= MaxLost
    /\ broken \in BOOLEAN
    /\ \A x \in Vars : Points(val[x])
    /\ \A c \in Cells : Points(heap[c].item)
    /\ \A i \in DOMAIN trash : Points(trash[i])
    /\ \A i \in DOMAIN lost : Points(lost[i])

Holders(c) ==
    Cardinality({x \in Vars : val[x].p = c})
    + Cardinality({d \in Cells : heap[d].item.p = c})
    + Cardinality({i \in DOMAIN trash : trash[i].p = c})
    + Cardinality({i \in DOMAIN lost : lost[i].p = c})

\* How far the Value class takes care of the counts, as value.h:12-15 says it does:
\* the count of every cell is the number of variables and elements that hold it,
\* plus one for each zval that was overwritten without a release.  So no cell is
\* freed while it is in use, and nothing leaks but what an assignment overwrites.
\* It is so until one of two operations has run that hold a zval without counting
\* it: an assignment from a temporary where one side is a reference (the swap is
\* left out), and toZval() of a shared array for a write (detach(false)).
CountsAddUp == ~broken => \A c \in Cells : heap[c].rc = Holders(c)

\* Cells that only variable x has hold of.
OnlyOf(x) == {c \in Cells : val[x].p = c /\ heap[c].rc = 1}

\* No array that another variable or another array holds is changed.
OthersKept(x) ==
    \A c \in Cells :
       \/ \E z \in Vars \ {x} : val[z].p = c
       \/ \E d \in Cells \ OnlyOf(x) : heap[d].item.p = c
       => heap'[c].item = heap[c].item

\* Copy on write: setting or deleting an element through a variable that is not a
\* reference leaves the arrays of others alone, however they came to share one.
\* Nothing is said of a variable that is a reference: there the others should see
\* the write, as those of makeReference() would in PHP; unset() does that, and
\* set() takes the variable out of the reference first.
OthersKeepTheirArrays ==
    [][\A x \in Vars :
         val[x].t # "ref" /\ ((\E y \in Vars : Set(x, y)) \/ Unset(x)) => OthersKept(x)]_vars
=============================================================================
