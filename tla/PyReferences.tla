---------------------------- MODULE PyReferences ----------------------------
(***************************************************************************)
(* Who owns which reference to a Python object during a call of             *)
(* call_python_function (src/deep_client_php_wrapper.cpp) and the           *)
(* conversions it makes (src/PyPhpBridge.cpp).  A C++ local that ends       *)
(* without a Py_DECREF loses its reference: the object can never be freed.  *)
(* What the values are is the subject of PyPhpBridge.                       *)
(***************************************************************************)
EXTENDS Integers, Sequences, FiniteSets, FiniteSetsExt

CONSTANTS MaxObjects, \* bound: Python objects
          MaxItems,   \* bound: elements of an array
          MaxDepth,   \* bound: nesting of arrays
          MaxCalls    \* bound: calls

ASSUME BoundsAssumption ==
    /\ {MaxObjects, MaxItems, MaxDepth, MaxCalls} \subseteq Nat
    /\ MaxObjects >= 1

Objects == 1..MaxObjects
NULL == 0
Func == 1                      \* the function, an attribute of the module
Queries == {"query", "query2"}
Slots == {"pyFunc", "token", "url", "pyArgs", "pyResult"} \cup Queries

VARIABLES
    rc,      \* reference count of each object, 0 when there is no such object
    items,   \* references that a container holds
    packed,  \* the arguments of the call: only id() may have a second query
    local,   \* references that call_python_function holds
    conv,    \* the arrays being converted, innermost last
    hand,    \* what the conversion of an element has returned
    client,  \* references kept by the client that deep_client_interface.py caches
    trash,   \* objects whose count is to be decremented
    lost,    \* references that nobody has any more (history)
    calls    \* calls so far

vars == <<rc, items, packed, local, conv, hand, client, trash, lost, calls>>

Empty == [s \in Slots |-> NULL]

Init ==
    /\ rc = [o \in Objects |-> IF o = Func THEN 1 ELSE 0]
    /\ items = [o \in Objects |-> <<>>]
    /\ packed = <<>>
    /\ local = Empty
    /\ conv = <<>>
    /\ hand = NULL
    /\ client = {}
    /\ trash = <<>>
    /\ lost = [o \in Objects |-> 0]
    /\ calls = 0

Fresh == {o \in Objects : rc[o] = 0}
New == Min(Fresh)
CanAllocate == Fresh # {}

Running == local["pyFunc"] # NULL /\ trash = <<>>
Alloc(o, held) == rc' = [rc EXCEPT ![o] = 1] /\ items' = [items EXCEPT ![o] = held]

\* PyObject_GetAttrString returns a new reference.
GetAttr ==
    /\ local = Empty /\ trash = <<>>
    /\ calls < MaxCalls
    /\ calls' = calls + 1
    /\ packed' \in {<<"token", "url", "query">>, <<"token", "url", "query", "query2">>}
    /\ rc' = [rc EXCEPT ![Func] = @ + 1]
    /\ local' = [local EXCEPT !["pyFunc"] = Func]
    /\ UNCHANGED <<items, conv, hand, client, trash, lost>>

Missing(s) ==
    local[s] = NULL /\ local["pyArgs"] = NULL /\ \E i \in DOMAIN packed : packed[i] = s

\* The arguments of PyTuple_Pack are made in any order the compiler likes.
BuildValue(s) ==
    /\ Running
    /\ s \in {"token", "url"}
    /\ Missing(s)
    /\ conv = <<>> /\ hand = NULL
    /\ CanAllocate
    /\ Alloc(New, <<>>)
    /\ local' = [local EXCEPT ![s] = New]
    /\ UNCHANGED <<packed, conv, hand, client, trash, lost, calls>>

-----------------------------------------------------------------------------
(***************************************************************************)
(* convertPhpValueToPyObject, convertPhpArrayToPyList, convertPhpArrayToPyDict *)
(***************************************************************************)

Top == conv[Len(conv)]

\* A value is due: the query itself, or the next element of the innermost array.
Due ==
    /\ Running /\ hand = NULL
    /\ IF conv = <<>>
       THEN \E q \in Queries : Missing(q)
       ELSE Top.left > 0 /\ (Top.kind = "dict" => Top.key # NULL)

ConvertLeaf ==
    /\ Due
    /\ CanAllocate
    /\ Alloc(New, <<>>)
    /\ hand' = New
    /\ UNCHANGED <<packed, local, conv, client, trash, lost, calls>>

\* PyList_New and PyDict_New
ConvertArray(kind, n) ==
    /\ Due
    /\ Len(conv) < MaxDepth
    /\ CanAllocate
    /\ Alloc(New, <<>>)
    /\ conv' = Append(conv, [object |-> New, kind |-> kind, left |-> n, key |-> NULL])
    /\ UNCHANGED <<packed, local, hand, client, trash, lost, calls>>

\* PyUnicode_DecodeUTF8
ConvertKey ==
    /\ Running /\ hand = NULL
    /\ conv # <<>>
    /\ Top.kind = "dict" /\ Top.left > 0 /\ Top.key = NULL
    /\ CanAllocate
    /\ Alloc(New, <<>>)
    /\ conv' = [conv EXCEPT ![Len(conv)].key = New]
    /\ UNCHANGED <<packed, local, hand, client, trash, lost, calls>>

\* Mutant of StoreInList: the reference is given up, as PyDict_SetItem needs it.
StoreInListDecref ==
    /\ Running /\ hand # NULL /\ conv # <<>>
    /\ Top.kind = "list"
    /\ items' = [items EXCEPT ![Top.object] = Append(@, hand)]
    /\ conv' = [conv EXCEPT ![Len(conv)].left = @ - 1]
    /\ hand' = NULL
    /\ trash' = <<hand>>
    /\ UNCHANGED <<packed, rc, local, client, lost, calls>>

\* PyList_SET_ITEM takes the reference over.
StoreInList ==
    /\ Running /\ hand # NULL /\ conv # <<>>
    /\ Top.kind = "list"
    /\ items' = [items EXCEPT ![Top.object] = Append(@, hand)]
    /\ conv' = [conv EXCEPT ![Len(conv)].left = @ - 1]
    /\ hand' = NULL
    /\ UNCHANGED <<packed, rc, local, client, trash, lost, calls>>

\* PyDict_SetItem makes references of its own, and the locals give up theirs.  A
\* key that is there already (two PHP keys may decode to one) keeps its object,
\* and the value it had is released.
StoreInDict ==
    /\ Running /\ hand # NULL /\ conv # <<>>
    /\ Top.kind = "dict"
    /\ LET d == Top.object
           key == Top.key
       IN
       \/ /\ items' = [items EXCEPT ![d] = @ \o <<key, hand>>]
          /\ rc' = [rc EXCEPT ![key] = @ + 1, ![hand] = @ + 1]
          /\ trash' = <<key, hand>>
       \/ /\ items[d] # <<>>
          /\ items' = [items EXCEPT ![d][2] = hand]
          /\ rc' = [rc EXCEPT ![hand] = @ + 1]
          /\ trash' = <<items[d][2], key, hand>>
    /\ conv' = [conv EXCEPT ![Len(conv)].left = @ - 1, ![Len(conv)].key = NULL]
    /\ hand' = NULL
    /\ UNCHANGED <<packed, local, client, lost, calls>>

\* Mutant of ConvertedArray: Py_INCREF before the array is returned.
ConvertedArrayIncref ==
    /\ Running /\ hand = NULL /\ conv # <<>>
    /\ Top.left = 0
    /\ hand' = Top.object
    /\ rc' = [rc EXCEPT ![Top.object] = @ + 1]
    /\ lost' = [lost EXCEPT ![Top.object] = @ + 1]
    /\ conv' = SubSeq(conv, 1, Len(conv) - 1)
    /\ UNCHANGED <<packed, items, local, client, trash, calls>>

ConvertedArray ==
    /\ Running /\ hand = NULL /\ conv # <<>>
    /\ Top.left = 0
    /\ hand' = Top.object
    /\ conv' = SubSeq(conv, 1, Len(conv) - 1)
    /\ UNCHANGED <<packed, rc, items, local, client, trash, lost, calls>>

Converted ==
    /\ Running /\ hand # NULL /\ conv = <<>>
    /\ \E q \in Queries : Missing(q) /\ local' = [local EXCEPT ![q] = hand]
    /\ hand' = NULL
    /\ UNCHANGED <<packed, rc, items, conv, client, trash, lost, calls>>

-----------------------------------------------------------------------------
(***************************************************************************)
(* The call and its end.                                                    *)
(***************************************************************************)

\* PyTuple_Pack adds a reference to each.
Pack ==
    /\ Running
    /\ \A i \in DOMAIN packed : local[packed[i]] # NULL
    /\ local["pyArgs"] = NULL
    /\ CanAllocate
    /\ LET held == [i \in DOMAIN packed |-> local[packed[i]]] IN
       /\ rc' = [o \in Objects |->
                   IF o = New THEN 1
                   ELSE rc[o] + Cardinality({i \in DOMAIN held : held[i] = o})]
       /\ items' = [items EXCEPT ![New] = held]
    /\ local' = [local EXCEPT !["pyArgs"] = New]
    /\ UNCHANGED <<packed, conv, hand, client, trash, lost, calls>>

\* PyObject_CallObject: the first call's token and url stay with the client; the
\* result is a new reference.
CallObject ==
    /\ Running
    /\ local["pyArgs"] # NULL /\ local["pyResult"] = NULL
    /\ CanAllocate
    /\ LET kept == IF client = {} THEN {local["token"], local["url"]} ELSE {} IN
       /\ client' = client \cup kept
       /\ rc' = [o \in Objects |->
                   IF o = New THEN 1 ELSE IF o \in kept THEN rc[o] + 1 ELSE rc[o]]
    /\ items' = [items EXCEPT ![New] = <<>>]
    /\ local' = [local EXCEPT !["pyResult"] = New]
    /\ UNCHANGED <<packed, conv, hand, trash, lost, calls>>

Owned ==
    {local[s] : s \in Slots} \cup {hand} \cup {conv[i].object : i \in DOMAIN conv}
    \cup {conv[i].key : i \in DOMAIN conv}

\* Every return and every throw is before the Py_DECREF lines.
Leave ==
    /\ lost' = [o \in Objects |-> IF o \in Owned THEN lost[o] + 1 ELSE lost[o]]
    /\ local' = Empty
    /\ conv' = <<>>
    /\ hand' = NULL
    /\ UNCHANGED <<packed, rc, items, client, trash, calls>>

Return == Running /\ local["pyResult"] # NULL /\ Leave

\* The Python function raised, or a value has no Python counterpart.
ReturnsNull == Running /\ local["pyArgs"] # NULL /\ local["pyResult"] = NULL /\ Leave
ConvertThrows == Due /\ Leave

\* Py_DECREF; a container that is freed gives up what it holds.
Decref ==
    /\ trash # <<>>
    /\ LET o == Head(trash) IN
       /\ rc' = [rc EXCEPT ![o] = @ - 1]
       /\ IF rc[o] = 1
          THEN /\ items' = [items EXCEPT ![o] = <<>>]
               /\ trash' = items[o] \o Tail(trash)
          ELSE /\ trash' = Tail(trash)
               /\ UNCHANGED items
    /\ UNCHANGED <<packed, local, conv, hand, client, lost, calls>>

Next ==
    \/ GetAttr
    \/ \E s \in Slots : BuildValue(s)
    \/ ConvertLeaf
    \/ \E kind \in {"list", "dict"}, n \in 1..MaxItems : ConvertArray(kind, n)
    \/ ConvertKey \/ StoreInList \/ StoreInDict \/ ConvertedArray \/ Converted
    \/ Pack \/ CallObject \/ Return \/ ReturnsNull \/ ConvertThrows \/ Decref

Spec == Init /\ [][Next]_vars
-----------------------------------------------------------------------------
(***************************************************************************)
(* Properties.                                                              *)
(***************************************************************************)

Count(S) == IF S THEN 1 ELSE 0

Holders(o) ==
    Count(o = Func) + Count(o = hand) + Count(o \in client)
    + Cardinality({s \in Slots : local[s] = o})
    + Cardinality({i \in DOMAIN conv : conv[i].object = o})
    + Cardinality({i \in DOMAIN conv : conv[i].key = o})
    + Cardinality({i \in DOMAIN trash : trash[i] = o})
    + Cardinality({c \in Objects : \E i \in DOMAIN items[c] : items[c][i] = o})

\* Borrowed, stolen and new references are told apart on every path: an object's
\* count is the number of its holders and of the references that were lost.  So
\* no argument, element or result is freed while a call still uses it.
CountsCoverHolders == \A o \in Objects : rc[o] = Holders(o) + lost[o]

\* Per call the worker's memory grows by what at most the seven locals hold, or the
\* function, two strings, one query and, per level of the other, an array and a key:
\* an array that is lost takes its elements along, but nothing is lost twice.
LossPerCall ==
    MapThenSumSet(LAMBDA o : lost[o], Objects) <= calls * Max({7, 4 + 2 * MaxDepth})
=============================================================================
