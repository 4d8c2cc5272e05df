------------------------ MODULE ObjectHandlersProofs ------------------------
(***************************************************************************)
(* Proofs about ObjectHandlers, for any sets of properties, callbacks and   *)
(* offsets and any choice of what a class overrides.                        *)
(***************************************************************************)
EXTENDS ObjectHandlers, TLAPS

\* The handlers of one property, of one offset, and of the whole object
OfProperty(n) ==
    \/ readProperty(n) \/ unsetProperty(n)
    \/ \E v \in Values : writeProperty(n, v)
    \/ \E mode \in 0..2 : hasProperty(n, mode)
OfOffset(k) ==
    \/ readDimension(k) \/ unsetDimension(k)
    \/ \E v \in Values : writeDimension(k, v)
    \/ \E mode \in 0..1 : hasDimension(k, mode)
OfObject ==
    countElements \/ cast \/ compare \/ callMethod \/ callInvoke \/ serialize \/ unserialize
OfIterator == getIterator \/ Iterate \/ destructor
OfLife == Drop \/ End \/ Shutdown \/ destructObject \/ freeObject

\* Every step is one of these.
LEMMA NextIs ==
    Next <=> \/ \E n \in Names \cup Callbacks : OfProperty(n)
             \/ \E k \in Offsets : OfOffset(k)
             \/ OfObject \/ OfIterator \/ OfLife
BY DEF Next, OfProperty, OfOffset, OfObject, OfIterator, OfLife

\* Cells of the property tables
Keys == Names \cup Callbacks \cup Offsets
Cells ==
    /\ native \in [Keys -> Values \cup {Absent}]
    /\ table \in [Names -> Values \cup {Absent}]

-----------------------------------------------------------------------------
(***************************************************************************)
(* The iterator and the object.                                             *)
(***************************************************************************)

\* The inductive invariant: what is held, by PHP code or by an iterator, is alive
\* while the script runs, and not freed as long as PHP code runs.
HoldersKeepObject ==
    /\ iter \in {"none", "live", "released"}
    /\ held \/ iter # "none" =>
          /\ request = "running" => obj = "alive"
          /\ request # "freeing" => obj # "freed"

\* No handler of a property, an offset or the object changes what lives; it may
\* end the script.
LEMMA HandlersLeaveLife ==
    (\/ \E n \in Names \cup Callbacks : OfProperty(n)
     \/ \E k \in Offsets : OfOffset(k)
     \/ OfObject)
    => UNCHANGED life /\ (request' = request \/ (PhpRuns /\ request' = "fatal"))
<1> DEFINE Same == UNCHANGED life /\ (request' = request \/ (PhpRuns /\ request' = "fatal"))
<1>a. \A op, on, ret : Done(op, on, ret) \/ Rethrow(op, on) => request' = request
    BY DEF Done, Rethrow
<1>b. \A op, on : Fatal(op, on) => request' = "fatal"
    BY DEF Fatal
<1>1. ASSUME NEW n \in Names \cup Callbacks, OfProperty(n) PROVE Same
    BY <1>1, <1>a, <1>b DEF OfProperty, readProperty, unsetProperty, writeProperty, hasProperty, Ask, Can
<1>2. ASSUME NEW k \in Offsets, OfOffset(k) PROVE Same
    BY <1>2, <1>a DEF OfOffset, readDimension, unsetDimension, writeDimension, hasDimension, Ask, NoArray
<1>3. ASSUME OfObject PROVE Same
    <2>1. CASE unserialize
        BY <2>1 DEF unserialize, Done
    <2>2. CASE ~unserialize
        BY <1>3, <1>a, <1>b, <2>2
           DEF OfObject, countElements, cast, compare, callMethod, callInvoke, serialize, Ask, Can, Plain
    <2>3. QED
        BY <2>1, <2>2
<1>4. QED
    BY <1>1, <1>2, <1>3

\* Every step keeps the invariant.
LEMMA HoldersStep == HoldersKeepObject /\ [Next]_vars => HoldersKeepObject'
<1> SUFFICES ASSUME HoldersKeepObject, [Next]_vars PROVE HoldersKeepObject'
    OBVIOUS
<1> USE DEF HoldersKeepObject, life
<1>1. CASE UNCHANGED life /\ (request' = request \/ (PhpRuns /\ request' = "fatal"))
    BY <1>1 DEF PhpRuns
<1>2. CASE getIterator
    BY <1>2 DEF getIterator, Can, PhpRuns, Done, Fatal
<1>3. CASE Iterate
    BY <1>3 DEF Iterate, Done, PhpRuns
<1>4. CASE destructor
    BY <1>4 DEF destructor
<1>5. CASE Drop
    BY <1>5 DEF Drop
<1>6. CASE End \/ Shutdown
    BY <1>6 DEF End, Shutdown
<1>7. CASE destructObject
    BY <1>7 DEF destructObject, Unheld, IteratorData, IteratorObject
<1>8. CASE freeObject
    BY <1>8 DEF freeObject, Unheld, IteratorData, IteratorObject
<1>9. CASE UNCHANGED vars
    BY <1>9 DEF vars
<1>10. Next => \/ UNCHANGED life /\ (request' = request \/ (PhpRuns /\ request' = "fatal"))
               \/ OfIterator \/ OfLife
    BY NextIs, HandlersLeaveLife
<1>11. QED
    BY <1>1, <1>2, <1>3, <1>4, <1>5, <1>6, <1>7, <1>8, <1>9, <1>10 DEF OfIterator, OfLife

\* The object outlives its iterator, whoever lets go of it first and however the
\* script ends: its destructor is not called before the end of the iterator's while
\* the script runs, and it is not freed as long as shutdown functions and
\* destructors may still use the iterator.
THEOREM IteratorsKeepTheirObject == Spec => []IteratorKeepsObject
<1>1. Init => HoldersKeepObject
    BY DEF Init, HoldersKeepObject
<1>2. HoldersKeepObject => IteratorKeepsObject
    BY DEF HoldersKeepObject, IteratorKeepsObject
<1>3. QED
    BY <1>1, <1>2, HoldersStep, PTL DEF Spec

-----------------------------------------------------------------------------
(***************************************************************************)
(* Reading, writing, isset() and empty().                                   *)
(***************************************************************************)

\* The inductive invariant: the tables keep their cells, the class stays what it
\* is, and the last answer is still what reading the property would confirm.
AgreeInv == Cells /\ PropertiesAgree

\* isset() and empty() of the handler, for a class that overrides __get and
\* __isset together, against what __get or PHP's table would give.
LEMMA HasAgreesWithRead ==
    ASSUME NEW n \in Names, Together({"__get", "__isset"})
    PROVE  LET has(mode) == IF "__isset" \in class THEN HasNative(n, mode) ELSE Has(table[n], mode)
           IN  /\ has(0) <=> ReadOf(n) # "null"
               /\ has(1) <=> ReadOf(n) = "truthy"
<1>1. n \notin Callbacks
    BY NamesAssumption
<1>2. CASE "__isset" \in class
    <2>1. "__get" \in class
        BY <1>2 DEF Together
    <2>2. QED
        BY <1>1, <1>2, <2>1 DEF HasNative, Has, ReadOf, Null, Absent
<1>3. CASE "__isset" \notin class
    <2>1. "__get" \notin class
        BY <1>3 DEF Together
    <2>2. QED
        BY <1>1, <1>3, <2>1 DEF Has, ReadOf, Null, Absent
<1>4. QED
    BY <1>2, <1>3

\* An operation that answers nothing about a property has nothing to agree with.
LEMMA OthersAgree ==
    ASSUME out'.op \notin {"isset", "empty", "write"}
    PROVE  PropertiesAgree'
BY DEF PropertiesAgree

\* The last operation is op, on whatever and however it ended.
Last(op) == \E on, ret, threw : out' = Out(op, on, ret, threw)

\* So an operation of another name has nothing to agree with.
LEMMA OtherNameAgrees ==
    ASSUME NEW op, op \notin {"isset", "empty", "write"}, Last(op)
    PROVE  PropertiesAgree'
<1>1. PICK on, ret, threw : out' = Out(op, on, ret, threw)
    BY DEF Last
<1>2. out'.op = op
    BY <1>1 DEF Out
<1>3. QED
    BY <1>2, OthersAgree

\* Neither has one on a property with a callback.
LEMMA CallbacksAgree == ASSUME out'.on \in Callbacks PROVE PropertiesAgree'
BY NamesAssumption DEF PropertiesAgree

\* Nor has one that threw.
LEMMA ThrownAgree == ASSUME out'.threw = TRUE PROVE PropertiesAgree'
BY Zenon DEF PropertiesAgree

\* Every step keeps the cells.
LEMMA CellsStep == Cells /\ [Next]_vars => Cells'
<1> SUFFICES ASSUME Cells, [Next]_vars PROVE Cells'
    OBVIOUS
<1>a. Absent \in Values \cup {Absent} /\ Names \subseteq Keys /\ Callbacks \subseteq Keys
      /\ Offsets \subseteq Keys
    BY DEF Keys
<1>b. ASSUME NEW n \in Keys, NEW v \in Values \cup {Absent}, SetNative(n, v) PROVE Cells'
    BY <1>b DEF SetNative, Cells
<1>c. ASSUME NEW n \in Names, NEW v \in Values \cup {Absent}, SetTable(n, v) PROVE Cells'
    BY <1>c DEF SetTable, Cells
<1>d. CASE UNCHANGED store
    BY <1>d DEF store, Cells
<1>1. ASSUME NEW n \in Names \cup Callbacks, OfProperty(n) PROVE Cells'
    <2>1. \/ UNCHANGED store
          \/ \E v \in Values \cup {Absent} : SetNative(n, v)
          \/ n \notin Callbacks /\ \E v \in Values \cup {Absent} : SetTable(n, v)
        BY <1>1 DEF OfProperty, readProperty, unsetProperty, writeProperty, hasProperty, Ask,
                    Rethrow, Fatal, Done, store
    <2>2. QED
        BY <1>a, <1>b, <1>c, <1>d, <2>1
<1>2. ASSUME NEW k \in Offsets, OfOffset(k) PROVE Cells'
    <2>1. UNCHANGED store \/ \E v \in Values \cup {Absent} : SetNative(k, v)
        BY <1>2 DEF OfOffset, readDimension, unsetDimension, writeDimension, hasDimension, Ask,
                    Rethrow, NoArray, store
    <2>2. QED
        BY <1>a, <1>b, <1>d, <2>1
<1>3. CASE OfObject
    BY <1>3, <1>d DEF OfObject, countElements, cast, compare, callMethod, callInvoke, serialize,
                      unserialize, Ask, Plain, Rethrow, store
<1>4. CASE OfIterator
    BY <1>4, <1>d DEF OfIterator, getIterator, Iterate, destructor, store
<1>5. CASE OfLife
    BY <1>5, <1>d DEF OfLife, Drop, End, Shutdown, destructObject, freeObject, store
<1>6. CASE UNCHANGED vars
    BY <1>6, <1>d DEF vars, store
<1>7. QED
    BY <1>1, <1>2, <1>3, <1>4, <1>5, <1>6, NextIs

\* What a write has put where ReadOf looks is read again.
LEMMA WriteAgrees ==
    ASSUME Cells, NEW n \in Names, NEW v \in Values, writeProperty(n, v)
    PROVE  PropertiesAgree'
<1>1. n \notin Callbacks
    BY NamesAssumption
<1>2. class' = class
    BY <1>1 DEF writeProperty, Ask
<1>3. CASE Rethrow("write", n)
    BY <1>3, ThrownAgree DEF Rethrow, Out
<1>4. CASE ~Rethrow("write", n)
    <2>1. out' = Out("write", n, v, FALSE)
        BY <1>1, <1>4 DEF writeProperty, Ask, Done
    <2>2. out'.op = "write" /\ out'.on = n /\ out'.ret = v
        BY <2>1 DEF Out
    <2>3. Null(v) = v
        BY DEF Values, Null, Absent
    <2>4. CASE "__set" \in class
        <3>1. native'[n] = v
            BY <1>1, <1>4, <2>4 DEF writeProperty, Ask, SetNative, Cells, Keys
        <3>2. Together({"__get", "__set"})' => "__get" \in class'
            BY <1>2, <2>4 DEF Together
        <3>3. Together({"__get", "__set"})' => ReadOf(n)' = v
            BY <2>3, <3>1, <3>2 DEF ReadOf, Null
        <3>4. QED
            BY <2>2, <3>3 DEF PropertiesAgree
    <2>5. CASE "__set" \notin class
        <3>1. table'[n] = v
            BY <1>1, <1>4, <2>5 DEF writeProperty, Ask, SetTable, Cells, Keys
        <3>2. Together({"__get", "__set"})' => "__get" \notin class'
            BY <1>2, <2>5 DEF Together
        <3>3. Together({"__get", "__set"})' => ReadOf(n)' = v
            BY <1>1, <2>3, <3>1, <3>2 DEF ReadOf, Null
        <3>4. QED
            BY <2>2, <3>3 DEF PropertiesAgree
    <2>6. QED
        BY <2>4, <2>5
<1>5. QED
    BY <1>3, <1>4

\* What isset() and empty() answer is what reading the property would give.
LEMMA HasAgrees ==
    ASSUME NEW n \in Names, NEW mode \in 0..2, hasProperty(n, mode)
    PROVE  PropertiesAgree'
<1> DEFINE has == IF "__isset" \in class THEN HasNative(n, mode) ELSE Has(table[n], mode)
           op == <<"isset", "empty", "exists">>[mode + 1]
<1>1. n \notin Callbacks
    BY NamesAssumption
<1>2. UNCHANGED <<class, native, table>>
    BY <1>1 DEF hasProperty, Ask, Rethrow, store
<1>3. CASE Rethrow(op, n)
    BY <1>3, ThrownAgree DEF Rethrow, Out
<1>4. CASE ~Rethrow(op, n)
    <2>1. out' = Out(op, n, YesNo(IF mode = 1 THEN ~has ELSE has), FALSE)
        BY <1>1, <1>4 DEF hasProperty, Ask, Done
    <2>2. /\ out'.op = op /\ out'.on = n
          /\ out'.ret = YesNo(IF mode = 1 THEN ~has ELSE has)
        BY <2>1, Zenon DEF Out
    <2>3. ReadOf(n)' = ReadOf(n) /\ Together({"__get", "__isset"})' = Together({"__get", "__isset"})
        BY <1>2 DEF ReadOf, Together
    <2>4. CASE mode = 0
        <3>1. Together({"__get", "__isset"}) => (has <=> ReadOf(n) # "null")
            BY <2>4, HasAgreesWithRead
        <3>2. op = "isset" /\ out'.ret = YesNo(has)
            BY <2>2, <2>4
        <3>3. Together({"__get", "__isset"}) => out'.ret = YesNo(ReadOf(n) # "null")
            BY <3>1, <3>2 DEF YesNo
        <3>4. QED
            BY <2>2, <2>3, <3>2, <3>3 DEF PropertiesAgree
    <2>5. CASE mode = 1
        <3>1. Together({"__get", "__isset"}) => (has <=> ReadOf(n) = "truthy")
            BY <2>5, HasAgreesWithRead
        <3>2. op = "empty" /\ out'.ret = YesNo(~has)
            BY <2>2, <2>5
        <3>3. Together({"__get", "__isset"}) => out'.ret = YesNo(ReadOf(n) # "truthy")
            BY <3>1, <3>2 DEF YesNo
        <3>4. QED
            BY <2>2, <2>3, <3>2, <3>3 DEF PropertiesAgree
    <2>6. CASE mode = 2
        BY <2>2, <2>6, OthersAgree
    <2>7. QED
        BY <2>4, <2>5, <2>6
<1>5. QED
    BY <1>3, <1>4

\* Every step keeps the agreement: a later write to any property, a call or the
\* end of the object either leaves the tables or becomes the last operation.
LEMMA AgreeStep == AgreeInv /\ [Next]_vars => AgreeInv'
<1> SUFFICES ASSUME AgreeInv, [Next]_vars PROVE PropertiesAgree'
    BY CellsStep DEF AgreeInv
<1>a. CASE UNCHANGED <<class, native, table, out>>
    BY <1>a DEF AgreeInv, PropertiesAgree, Together, ReadOf
<1>1. ASSUME NEW n \in Names, OfProperty(n) PROVE PropertiesAgree'
    <2>1. CASE readProperty(n)
        <3>1. out'.op = "read"
            BY <2>1 DEF readProperty, Ask, Done, Rethrow, Out
        <3>2. QED
            BY <3>1, OthersAgree
    <2>2. CASE unsetProperty(n)
        <3>1. out'.op = "unset"
            BY <2>2 DEF unsetProperty, Ask, Done, Fatal, Rethrow, Out
        <3>2. QED
            BY <3>1, OthersAgree
    <2>3. QED
        BY <1>1, <2>1, <2>2, WriteAgrees, HasAgrees DEF OfProperty, AgreeInv
<1>2. ASSUME NEW n \in Callbacks, OfProperty(n) PROVE PropertiesAgree'
    <2>1. out'.on = n
        <3>1. CASE readProperty(n)
            BY <1>2, <3>1 DEF readProperty, Done, Rethrow, Out
        <3>2. CASE unsetProperty(n)
            BY <1>2, <3>2 DEF unsetProperty, Fatal, Out
        <3>3. ASSUME NEW v \in Values, writeProperty(n, v) PROVE out'.on = n
            BY <1>2, <3>3 DEF writeProperty, Done, Fatal, Rethrow, Out
        <3>4. ASSUME NEW mode \in 0..2, hasProperty(n, mode) PROVE out'.on = n
            BY <1>2, <3>4 DEF hasProperty, Done, Out
        <3>5. QED
            BY <1>2, <3>1, <3>2, <3>3, <3>4 DEF OfProperty
    <2>2. QED
        BY <2>1, CallbacksAgree
<1>3. ASSUME NEW k \in Offsets, OfOffset(k) PROVE PropertiesAgree'
    <2>1. CASE readDimension(k)
        <3>1. out'.op = "get"
            BY <2>1 DEF readDimension, Ask, Done, NoArray, Rethrow, Out
        <3>2. QED
            BY <3>1, OthersAgree
    <2>2. CASE unsetDimension(k)
        <3>1. out'.op = "unsetAt"
            BY <2>2 DEF unsetDimension, Ask, Done, NoArray, Rethrow, Out
        <3>2. QED
            BY <3>1, OthersAgree
    <2>3. ASSUME NEW v \in Values, writeDimension(k, v) PROVE PropertiesAgree'
        <3>1. out'.op = "set"
            BY <2>3 DEF writeDimension, Ask, Done, NoArray, Rethrow, Out
        <3>2. QED
            BY <3>1, OthersAgree
    <2>4. ASSUME NEW mode \in 0..1, hasDimension(k, mode) PROVE PropertiesAgree'
        <3>1. out'.op \in {"issetAt", "emptyAt"}
            BY <2>4 DEF hasDimension, Ask, Done, NoArray, Rethrow, Out
        <3>2. QED
            BY <3>1, OthersAgree
    <2>5. QED
        BY <1>3, <2>1, <2>2, <2>3, <2>4 DEF OfOffset
<1>4. CASE OfObject
    <2> USE DEF Ask, Plain, Done, Fatal, Rethrow, Last
    <2>1. CASE countElements
        <3>1. Last("count")
            BY <2>1, Zenon DEF countElements
        <3>2. QED
            BY <3>1, OtherNameAgrees
    <2>2. CASE cast
        <3>1. Last("cast")
            BY <2>2, Zenon DEF cast
        <3>2. QED
            BY <3>1, OtherNameAgrees
    <2>3. CASE compare
        <3>1. Last("compare")
            BY <2>3, Zenon DEF compare
        <3>2. QED
            BY <3>1, OtherNameAgrees
    <2>4. CASE callMethod
        <3>1. Last("call")
            BY <2>4, Zenon DEF callMethod
        <3>2. QED
            BY <3>1, OtherNameAgrees
    <2>5. CASE callInvoke
        <3>1. Last("invoke")
            BY <2>5, Zenon DEF callInvoke
        <3>2. QED
            BY <3>1, OtherNameAgrees
    <2>6. CASE serialize
        <3>1. Last("serialize")
            BY <2>6, Zenon DEF serialize
        <3>2. QED
            BY <3>1, OtherNameAgrees
    <2>7. CASE unserialize
        <3>1. Last("unserialize")
            BY <2>7, Zenon DEF unserialize
        <3>2. QED
            BY <3>1, OtherNameAgrees
    <2>8. QED
        BY <1>4, <2>1, <2>2, <2>3, <2>4, <2>5, <2>6, <2>7 DEF OfObject
<1>5. CASE OfIterator
    <2>1. CASE getIterator
        <3>1. Last("iterate")
            BY <2>1, Zenon DEF getIterator, Done, Fatal, Last
        <3>2. QED
            BY <3>1, OtherNameAgrees
    <2>2. CASE Iterate
        <3>1. Last("step")
            BY <2>2, Zenon DEF Iterate, Done, Last
        <3>2. QED
            BY <3>1, OtherNameAgrees
    <2>3. CASE destructor
        BY <1>a, <2>3 DEF destructor, store
    <2>4. QED
        BY <1>5, <2>1, <2>2, <2>3 DEF OfIterator
<1>6. CASE OfLife
    <2>1. CASE destructObject
        <3>1. Last("destruct")
            BY <2>1, Zenon DEF destructObject, Last
        <3>2. QED
            BY <3>1, OtherNameAgrees
    <2>2. CASE Drop \/ End \/ Shutdown \/ freeObject
        BY <1>a, <2>2 DEF Drop, End, Shutdown, freeObject, store
    <2>3. QED
        BY <1>6, <2>1, <2>2 DEF OfLife
<1>7. CASE UNCHANGED vars
    BY <1>7, <1>a DEF vars
<1>8. QED
    BY <1>1, <1>2, <1>3, <1>4, <1>5, <1>6, <1>7, NextIs

\* For a class that overrides the magic methods together, isset(), empty() and
\* the last write agree with what reading the property gives, however properties,
\* offsets and exceptions follow each other.
THEOREM ReadsAgree == Spec => []PropertiesAgree
<1>1. Init => AgreeInv
    <2> SUFFICES ASSUME Init PROVE AgreeInv
        OBVIOUS
    <2>1. Cells
        BY DEF Init, Cells, Keys, Values
    <2>2. out.op = "new"
        BY DEF Init, Out
    <2>3. QED
        BY <2>1, <2>2 DEF AgreeInv, PropertiesAgree
<1>2. AgreeInv => PropertiesAgree
    BY DEF AgreeInv
<1>3. QED
    BY <1>1, <1>2, AgreeStep, PTL DEF Spec
=============================================================================
