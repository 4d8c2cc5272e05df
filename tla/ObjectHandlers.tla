--------------------------- MODULE ObjectHandlers ---------------------------
(***************************************************************************)
(* src/zend/classimpl.cpp and src/zend/iteratorimpl.cpp: what PHP code does *)
(* to an object of a C++ class, property by property, offset by offset, and *)
(* in foreach.  Every handler asks the C++ class first; a method that the   *)
(* class does not override throws NotImplemented and the handler falls back *)
(* on PHP's own; any other exception is handed to PHP, where the code has a *)
(* try for it.  The object and its iterator are followed through the end of *)
(* the request.  Creation and cloning, which have no try, are in            *)
(* DeepClientWrapper.                                                       *)
(***************************************************************************)
EXTENDS Naturals

CONSTANTS Names,     \* properties without a callback
          Callbacks, \* properties registered with a getter and a setter
          ReadOnly,  \* those that have no setter
          Offsets,   \* keys of ArrayAccess
          Classes    \* classes: what each of them overrides or implements

ASSUME NamesAssumption == ReadOnly \subseteq Callbacks /\ Names \cap Callbacks = {}

Values == {"null", "falsy", "truthy"}
Absent == "absent"

VARIABLES
    class,     \* the class of the object
    native,    \* properties and elements as the C++ object keeps them
    table,     \* PHP's property table of the object
    obj,       \* "alive", "destructed" or "freed"
    held,      \* does PHP code have hold of the object?
    iter,      \* "none", "live", or "released": half way through its destructor
    request,   \* "running"; "ended", or "fatal" after an error: PHP code runs in
               \* shutdown functions and destructors; "freeing": no more PHP code;
               \* "escaped": the process is gone
    out        \* the last operation: on what, its result, and whether C++ code threw

vars == <<class, native, table, obj, held, iter, request, out>>
store == <<native, table>>
life == <<obj, held, iter>>

Out(op, on, ret, threw) == [op |-> op, on |-> on, ret |-> ret, threw |-> threw]

Init ==
    /\ class \in Classes
    /\ native = [n \in Names \cup Callbacks \cup Offsets |-> IF n \in Callbacks THEN "null" ELSE Absent]
    /\ table = [n \in Names |-> Absent]
    /\ obj = "alive"
    /\ held = TRUE
    /\ iter = "none"
    /\ request = "running"
    /\ out = Out("new", "", "done", FALSE)

PhpRuns == request \in {"running", "ended", "fatal"}
Can == PhpRuns /\ held
YesNo(b) == IF b THEN "yes" ELSE "no"
Null(v) == IF v = Absent THEN "null" ELSE v

\* How a handler ends: with a result, with an exception for PHP to catch, with
\* an error that ends the request.
Done(op, on, ret) == out' = Out(op, on, ret, FALSE) /\ UNCHANGED request
Rethrow(op, on) ==
    /\ out' = Out(op, on, "exception", TRUE)
    /\ UNCHANGED <<request, store>>
Fatal(op, on) == out' = Out(op, on, "fatal", FALSE) /\ request' = "fatal"

\* Calls C++ code that is overridden, which may throw; PHP's own handler if not.
Ask(op, on, method, Overridden, Default) ==
    /\ Can
    /\ IF method \in class THEN Overridden \/ Rethrow(op, on) ELSE Default
    /\ UNCHANGED <<class, life>>

-----------------------------------------------------------------------------
(***************************************************************************)
(* Properties: a callback, else the magic method, else PHP's table.         *)
(***************************************************************************)

ReadOf(n) == Null(IF n \in Callbacks \/ "__get" \in class THEN native[n] ELSE table[n])

readProperty(n) ==
    IF n \in Callbacks
    THEN Can /\ (Done("read", n, ReadOf(n)) \/ Rethrow("read", n)) /\ UNCHANGED <<class, store, life>>
    ELSE Ask("read", n, "__get",
             Done("read", n, ReadOf(n)) /\ UNCHANGED store,
             Done("read", n, ReadOf(n)) /\ UNCHANGED store)

SetNative(n, v) == native' = [native EXCEPT ![n] = v] /\ UNCHANGED table
SetTable(n, v) == table' = [table EXCEPT ![n] = v] /\ UNCHANGED native

\* Mutant of writeProperty: a value that __set has taken goes into PHP's table.
writePropertyAside(n, v) ==
    /\ n \in Names
    /\ Ask("write", n, "__set",
           Done("write", n, v) /\ SetTable(n, v),
           Done("write", n, v) /\ SetTable(n, v))

writeProperty(n, v) ==
    IF n \in Callbacks
    THEN /\ Can
         /\ IF n \in ReadOnly
            THEN Fatal("write", n) /\ UNCHANGED store
            ELSE (Done("write", n, v) /\ SetNative(n, v)) \/ Rethrow("write", n)
         /\ UNCHANGED <<class, life>>
    ELSE Ask("write", n, "__set",
             Done("write", n, v) /\ SetNative(n, v),
             Done("write", n, v) /\ SetTable(n, v))

\* What a value is to has_set_exists: 0 is for isset(), 1 for empty(), which
\* PHP negates, and 2 for property_exists().
Has(v, mode) == CASE mode = 0 -> Null(v) # "null"
                  [] mode = 1 -> v = "truthy"
                  [] mode = 2 -> v # Absent

\* Without a __get, PHP's table answers for what __isset says is there.
HasNative(n, mode) ==
    /\ native[n] # Absent
    /\ mode = 2 \/ Has(IF "__get" \in class THEN native[n] ELSE table[n], mode)

hasProperty(n, mode) ==
    LET op == <<"isset", "empty", "exists">>[mode + 1]
        Answer(b) == Done(op, n, YesNo(IF mode = 1 THEN ~b ELSE b)) /\ UNCHANGED store
    IN
    IF n \in Callbacks
    THEN Can /\ Answer(TRUE) /\ UNCHANGED <<class, life>>
    ELSE Ask(op, n, "__isset", Answer(HasNative(n, mode)), Answer(Has(table[n], mode)))

\* unset(): also after __unset has done its work the error is raised.
unsetProperty(n) ==
    IF n \in Callbacks
    THEN Can /\ Fatal("unset", n) /\ UNCHANGED <<class, store, life>>
    ELSE Ask("unset", n, "__unset",
             Fatal("unset", n) /\ SetNative(n, Absent),
             Done("unset", n, "done") /\ SetTable(n, Absent))

-----------------------------------------------------------------------------
(***************************************************************************)
(* Offsets.  PHP's own handlers throw: the object is no array.              *)
(***************************************************************************)

NoArray(op, k) == Done(op, k, "exception") /\ UNCHANGED store

readDimension(k) ==
    Ask("get", k, "ArrayAccess",
        Done("get", k, Null(native[k])) /\ UNCHANGED store, NoArray("get", k))

writeDimension(k, v) ==
    Ask("set", k, "ArrayAccess", Done("set", k, v) /\ SetNative(k, v), NoArray("set", k))

\* The handler says whether the element is empty when PHP asks if it is not.
hasDimension(k, mode) ==
    LET op == <<"issetAt", "emptyAt">>[mode + 1]
        is == native[k] # Absent /\ (mode = 0 \/ ~Has(native[k], 1))
    IN Ask(op, k, "ArrayAccess",
           Done(op, k, YesNo(IF mode = 1 THEN ~is ELSE is)) /\ UNCHANGED store, NoArray(op, k))

unsetDimension(k) ==
    Ask("unsetAt", k, "ArrayAccess",
        Done("unsetAt", k, "done") /\ SetNative(k, Absent), NoArray("unsetAt", k))

-----------------------------------------------------------------------------
(***************************************************************************)
(* Everything that leaves properties and elements alone.                    *)
(***************************************************************************)

Plain(op, ret) == Done(op, "", ret) /\ UNCHANGED store

countElements == Ask("count", "", "Countable", Plain("count", "done"), Plain("count", "default"))
cast == Ask("cast", "", "__to", Plain("cast", "done"), Plain("cast", "default"))
compare == Ask("compare", "", "__compare", Plain("compare", "done"), Plain("compare", "default"))

\* getMethod and callMethod, getClosure and callInvoke
callMethod ==
    Ask("call", "", "__call", Plain("call", "done"), Fatal("call", "") /\ UNCHANGED store)
callInvoke ==
    Ask("invoke", "", "__invoke", Plain("invoke", "done"), Fatal("invoke", "") /\ UNCHANGED store)

serialize ==
    /\ "Serializable" \in class
    /\ Ask("serialize", "", "Serializable", Plain("serialize", "done"), FALSE)

\* Its exception ends in a notice and a failure.
unserialize ==
    /\ Can
    /\ "Serializable" \in class
    /\ \/ Done("unserialize", "", "done")
       \/ out' = Out("unserialize", "", "failure", TRUE) /\ UNCHANGED request
    /\ UNCHANGED <<class, store, life>>

-----------------------------------------------------------------------------
(***************************************************************************)
(* foreach.  The engine's iterator holds the object, and so does the        *)
(* iterator of the extension that it owns.                                  *)
(***************************************************************************)

\* foreach by reference is a fatal error.
getIterator ==
    /\ Can
    /\ "Traversable" \in class
    /\ iter = "none"
    /\ \/ Done("iterate", "", "done") /\ iter' = "live"
       \/ Fatal("iterate", "") /\ UNCHANGED iter
       \/ out' = Out("iterate", "", "exception", TRUE) /\ UNCHANGED <<request, iter>>
    /\ UNCHANGED <<class, store, obj, held>>

\* valid, current, key, next and rewind catch nothing.
Iterate ==
    /\ PhpRuns
    /\ iter = "live"
    /\ \/ Done("step", "", "done")
       \/ out' = Out("step", "", "escaped", TRUE) /\ request' = "escaped"
    /\ UNCHANGED <<class, store, life>>

\* Mutant of IteratorObject: Php::Iterator keeps a bare pointer to the object.
IteratorObjectNot == FALSE

\* The destructor releases what the engine's iterator holds, and its members
\* after that: the iterator of the extension, which was the last to hold it.
IteratorData == iter = "live"
IteratorObject == iter \in {"live", "released"}

\* Whatever of PHP's has the iterator, a generator for instance, is released with
\* the others at the end of the request, before the object or after it.
destructor ==
    /\ request # "escaped"
    /\ \/ iter = "live" /\ iter' = "released"
       \/ iter = "released" /\ iter' = "none"
    /\ UNCHANGED <<class, store, obj, held, request, out>>

-----------------------------------------------------------------------------
(***************************************************************************)
(* The end of the object.                                                   *)
(***************************************************************************)

Drop ==
    /\ Can
    /\ held' = FALSE
    /\ UNCHANGED <<class, store, obj, iter, request, out>>

Unheld == ~held /\ ~IteratorData /\ ~IteratorObject

\* The script is through.  What it leaves is destructed now, whoever holds it.
End ==
    /\ request = "running"
    /\ request' = "ended"
    /\ UNCHANGED <<class, store, life, out>>

\* zend_deactivate: everything is freed, whoever holds it, and all destructors
\* have been called by then, unless a fatal error has marked them as called.
Shutdown ==
    /\ \/ request = "ended" /\ obj # "alive"
       \/ request = "fatal"
    /\ request' = "freeing"
    /\ UNCHANGED <<class, store, life, out>>

destructObject ==
    /\ request = "ended" \/ (request = "running" /\ Unheld)
    /\ obj = "alive"
    /\ obj' = "destructed"
    /\ \/ out' = Out("destruct", "", "done", FALSE)
       \/ out' = Out("destruct", "", "exception", TRUE)
    /\ UNCHANGED <<class, store, held, iter, request>>

freeObject ==
    /\ request = "freeing" \/ (PhpRuns /\ Unheld)
    /\ obj = "destructed" \/ (obj = "alive" /\ request \in {"fatal", "freeing"})
    /\ obj' = "freed"
    /\ UNCHANGED <<class, store, held, iter, request, out>>

Next ==
    \/ \E n \in Names \cup Callbacks :
          \/ readProperty(n) \/ unsetProperty(n)
          \/ \E v \in Values : writeProperty(n, v)
          \/ \E mode \in 0..2 : hasProperty(n, mode)
    \/ \E k \in Offsets :
          \/ readDimension(k) \/ unsetDimension(k)
          \/ \E v \in Values : writeDimension(k, v)
          \/ \E mode \in 0..1 : hasDimension(k, mode)
    \/ countElements \/ cast \/ compare \/ callMethod \/ callInvoke \/ serialize \/ unserialize
    \/ getIterator \/ Iterate \/ destructor
    \/ Drop \/ End \/ Shutdown \/ destructObject \/ freeObject

Spec == Init /\ [][Next]_vars
-----------------------------------------------------------------------------
(***************************************************************************)
(* Properties.                                                              *)
(***************************************************************************)

\* A class overrides these methods together or not at all.
Together(methods) == methods \subseteq class \/ methods \cap class = {}

\* isset() and empty() of a property say what reading it would give, and what was
\* written is what is read, for a class that overrides the methods together.
PropertiesAgree ==
    \A n \in Names :
        out.on = n /\ ~out.threw =>
            /\ Together({"__get", "__isset"}) =>
                  /\ out.op = "isset" => out.ret = YesNo(ReadOf(n) # "null")
                  /\ out.op = "empty" => out.ret = YesNo(ReadOf(n) # "truthy")
            /\ Together({"__get", "__set"}) => (out.op = "write" => ReadOf(n) = out.ret)

\* include/iterator.h:70 "This ensures that this object is not destructed as long
\* as the iterator exists", up to the end of the iterator's own destructor: while
\* the script runs the object is not destructed, and as long as PHP code runs at
\* all, in shutdown functions and destructors, it is not freed.  (At the end of a
\* request every object is destructed and freed, an iterator's too.)
IteratorKeepsObject ==
    iter # "none" =>
        /\ request = "running" => obj = "alive"
        /\ request # "freeing" => obj # "freed"
=============================================================================
