---------------------------- MODULE PyPhpBridge ----------------------------
(***************************************************************************)
(* src/PyPhpBridge.cpp and the result dispatch of call_python_function:     *)
(* what becomes of a PHP value that is passed to a method of the client,    *)
(* and of the Python value that comes back.                                 *)
(*                                                                          *)
(* A value is a tuple whose first component names its type:                 *)
(*   PHP     <<"null">> <<"bool", b>> <<"int", n>> <<"float", n>>           *)
(*           <<"str", s>> <<"array", entries>>                              *)
(*   Python  <<"none">> <<"bool", b>> <<"int", n>> <<"float", n>>           *)
(*           <<"str", s>> <<"opaque", t>> <<"list", items>>                 *)
(*           <<"dict", entries>>                                            *)
(* where entries is a sequence of <<key, value>> in insertion order and a   *)
(* key is <<"int", n>> or <<"str", s>>.  <<"throw", class>> stands for the  *)
(* PHP exception a conversion ends in.  Floats are the whole numbers that   *)
(* a double of MantissaBits represents; a C long has LongBits.              *)
(***************************************************************************)
EXTENDS Integers, FiniteSets, Sequences, SequencesExt

CONSTANTS LongBits,      \* width of zend_long and of a C long (64)
          MantissaBits   \* precision of a C double (53)

ASSUME WidthAssumption == LongBits \in Nat \ {0} /\ MantissaBits \in Nat \ {0}

-----------------------------------------------------------------------------
(***************************************************************************)
(* Scalars.                                                                 *)
(***************************************************************************)

Throw(class) == <<"throw", class>>
Thrown(x) == x[1] = "throw"

InLong(n) == -(2^(LongBits - 1)) <= n /\ n < 2^(LongBits - 1)

\* PyLong_AsLong: -1, with an OverflowError pending, for an int that is no long.
AsLong(n) == IF InLong(n) THEN n ELSE -1

\* The nearest double, ties to the even mantissa.
ToDouble(n) ==
    LET a    == IF n < 0 THEN -n ELSE n
        ulp  == CHOOSE s \in {2^k : k \in 0..LongBits} :
                    /\ a <= s * 2^MantissaBits
                    /\ s = 1 \/ a > (s \div 2) * 2^MantissaBits
        q    == a \div ulp
        r    == a % ulp
        near == IF 2 * r > ulp \/ (2 * r = ulp /\ q % 2 = 1) THEN q + 1 ELSE q
    IN  IF n < 0 THEN -(near * ulp) ELSE near * ulp

\* Strings are a few names.  "a.b" stands for one with a NUL byte inside, which
\* code that hands on a char pointer cuts there; "0", "1" and "2" are the ones
\* that PHP's symbol tables treat as integer keys.
CString(s) == IF s = "a.b" THEN "a" ELSE s
Numerals == <<"0", "1", "2">>
Numeral(n) == Numerals[n + 1]
IsNumeral(s) == \E n \in 0..2 : Numeral(n) = s
NumberOf(s) == CHOOSE n \in 0..2 : Numeral(n) = s

\* Text.  "bin1" and "bin2" are PHP strings whose bytes are not UTF-8.  Decoded
\* with "replace" both are "rep", a str of replacement characters;
\* PyUnicode_DecodeFSDefault makes "esc1" and "esc2" of them, which hold the bytes
\* as lone surrogates, and a str with lone surrogates has no UTF-8 form.
Undecodable == {"bin1", "bin2"}
Escaped == {"esc1", "esc2"}
DecodeReplace(s) == IF s \in Undecodable THEN "rep" ELSE s
DecodeFSDefault(s) ==
    CASE s = "bin1" -> "esc1" [] s = "bin2" -> "esc2" [] OTHER -> CString(s)
HasUTF8(s) == s \notin Escaped

-----------------------------------------------------------------------------
(***************************************************************************)
(* PHP to Python.                                                           *)
(***************************************************************************)

Keys(entries) == {entries[i][1] : i \in 1..Len(entries)}

\* $array[$key] = $value and dict[key] = value: replaces in place, or appends.
Assign(entries, k, x) ==
    IF k \in Keys(entries)
    THEN [i \in 1..Len(entries) |-> IF entries[i][1] = k THEN <<k, x>> ELSE entries[i]]
    ELSE Append(entries, <<k, x>>)

\* Mutant of isAssociativeArray: only the first key is looked at.
isAssociativeByFirstKey(entries) == entries[1][1][1] # "int"

isAssociativeArray(entries) == \E k \in Keys(entries) : k[1] # "int"

\* The element at an index; PHP-CPP answers a missing one with a Value of type
\* Undefined, which it refuses to build.
At(entries, i) ==
    IF <<"int", i>> \in Keys(entries)
    THEN entries[CHOOSE j \in 1..Len(entries) : entries[j][1] = <<"int", i>>][2]
    ELSE Throw("Error")

\* The str a key is decoded to, whole: two keys may decode to one.
StringKey(k) == <<"str", IF k[1] = "int" THEN Numeral(k[2]) ELSE DecodeReplace(k[2])>>

\* The first of a sequence of conversions that throws ends the conversion.
Checked(items, whole) ==
    IF \E i \in 1..Len(items) : Thrown(items[i])
    THEN SelectSeq(items, Thrown)[1]
    ELSE whole

RECURSIVE convertPhpValueToPyObject(_)

\* Mutant of convertPhpScalar: null is passed on as None, as in the line that is
\* commented out in the source.
convertPhpScalarOrNull(v) ==
    CASE v[1] = "int"  -> <<"float", ToDouble(v[2])>>
      [] v[1] = "str"  -> <<"str", DecodeFSDefault(v[2])>>
      [] v[1] = "null" -> <<"none">>
      [] OTHER         -> Throw("Exception")

convertPhpScalar(v) ==
    CASE v[1] = "int" -> <<"float", ToDouble(v[2])>>
      [] v[1] = "str" -> <<"str", DecodeFSDefault(v[2])>>
      [] OTHER        -> Throw("Exception")

convertPhpArrayToPyDict(entries) ==
    LET values == [i \in 1..Len(entries) |-> convertPhpValueToPyObject(entries[i][2])]
        dict   == FoldLeft(LAMBDA acc, i : Assign(acc, StringKey(entries[i][1]), values[i]),
                           <<>>, [i \in 1..Len(entries) |-> i])
    IN  Checked(values, <<"dict", dict>>)

convertPhpArrayToPyList(entries) ==
    LET item(i) == IF Thrown(At(entries, i)) THEN At(entries, i)
                   ELSE convertPhpValueToPyObject(At(entries, i))
        items   == [i \in 1..Len(entries) |-> item(i - 1)]
    IN  Checked(items, <<"list", items>>)

convertPhpValueToPyObject(v) ==
    IF v[1] # "array" THEN convertPhpScalar(v)
    ELSE IF v[2] = <<>> THEN <<"list", <<>>>>
    ELSE IF isAssociativeArray(v[2]) THEN convertPhpArrayToPyDict(v[2])
    ELSE convertPhpArrayToPyList(v[2])

-----------------------------------------------------------------------------
(***************************************************************************)
(* Python to PHP.                                                           *)
(***************************************************************************)

\* Mutant of PhpKey: the key is used as it is, not as a symbol table does.
PhpKeyVerbatim(k) == <<"str", IF k[1] = "str" THEN CString(k[2]) ELSE "">>

\* The key of a dict entry.  A key that is no str, or a str with lone surrogates,
\* has no UTF-8 form; the null Value made of it is used as the empty string.
PhpKey(k) ==
    LET s == CString(k[2])
    IN  IF k[1] # "str" \/ ~HasUTF8(k[2]) THEN <<"str", "">>
        ELSE IF IsNumeral(s) THEN <<"int", NumberOf(s)>> ELSE <<"str", s>>

RECURSIVE convertPyValue(_)

\* Php::Value phpArray stays null until something is assigned to it.
Filled(entries) == IF entries = <<>> THEN <<"null">> ELSE <<"array", entries>>

convertPyDictToPhpArray(entries) ==
    Filled(FoldLeft(LAMBDA acc, e : Assign(acc, PhpKey(e[1]), convertPyValue(e[2])),
                    <<>>, entries))

\* Mutant of convertPyListToPhpArray: the loop starts at 1.
convertPyListFromOne(items) ==
    Filled([i \in 1..(Len(items) - 1) |-> <<<<"int", i>>, convertPyValue(items[i + 1])>>])

convertPyListToPhpArray(items) ==
    Filled([i \in 1..Len(items) |-> <<<<"int", i - 1>>, convertPyValue(items[i])>>])

\* An element of a list or dict; a bool passes PyLong_Check, and a str without
\* a UTF-8 form is the null pointer that Php::Value takes for null.
convertPyValue(v) ==
    CASE v[1] = "int"   -> <<"int", AsLong(v[2])>>
      [] v[1] = "bool"  -> <<"int", IF v[2] THEN 1 ELSE 0>>
      [] v[1] = "float" -> v
      [] v[1] = "str"   -> IF HasUTF8(v[2]) THEN <<"str", CString(v[2])>> ELSE <<"null">>
      [] v[1] = "dict"  -> convertPyDictToPhpArray(v[2])
      [] v[1] = "list"  -> convertPyListToPhpArray(v[2])
      [] OTHER          -> <<"null">>

\* call_python_function on the result of a call.
convertPyResult(v) ==
    CASE v[1] \in {"str", "none"} -> Throw("Exception")
      [] v[1] = "opaque"          -> <<"str", v[2]>>
      [] OTHER                    -> convertPyValue(v)

-----------------------------------------------------------------------------
(***************************************************************************)
(* A call: an argument is converted, the service answers, the answer is     *)
(* converted, and the handler may pass what it got to another call.         *)
(***************************************************************************)

CONSTANTS PhpInputs, PyInputs   \* arguments and answers to try

VARIABLES phase,  \* "call", "python", "result", "thrown"
          php,    \* the PHP value at hand: the argument, or the result
          py,     \* the Python value at hand
          hops,   \* conversions so far
          first,  \* what the chain started from
          origin  \* "php" or "python": the side first is a value of

vars == <<phase, php, py, hops, first, origin>>

MaxHops == 4

Init ==
    /\ hops = 0
    /\ \/ /\ php \in PhpInputs /\ py = <<"none">>
          /\ phase = "call" /\ first = php /\ origin = "php"
       \/ /\ py \in PyInputs /\ php = <<"null">>
          /\ phase = "python" /\ first = py /\ origin = "python"

Argument ==
    /\ phase = "call"
    /\ hops < MaxHops
    /\ hops' = hops + 1
    /\ IF Thrown(convertPhpValueToPyObject(php))
       THEN phase' = "thrown" /\ php' = convertPhpValueToPyObject(php) /\ UNCHANGED py
       ELSE phase' = "python" /\ py' = convertPhpValueToPyObject(php) /\ UNCHANGED php
    /\ UNCHANGED <<first, origin>>

\* The service answers with the value itself.
Result ==
    /\ phase = "python"
    /\ hops < MaxHops
    /\ hops' = hops + 1
    /\ php' = convertPyResult(py)
    /\ phase' = IF Thrown(php') THEN "thrown" ELSE "result"
    /\ UNCHANGED <<py, first, origin>>

PassOn ==
    /\ phase = "result"
    /\ hops < MaxHops
    /\ phase' = "call"
    /\ UNCHANGED <<php, py, hops, first, origin>>

Next == Argument \/ Result \/ PassOn

Spec == Init /\ [][Next]_vars

-----------------------------------------------------------------------------
(***************************************************************************)
(* Reference definitions: a value as the set of its leaves, each with the   *)
(* path of keys that leads to it.                                           *)
(***************************************************************************)

RECURSIVE Leaves(_)

Leaves(v) ==
    CASE v[1] \in {"array", "dict"} ->
            UNION {{<<<<v[2][i][1]>> \o leaf[1], leaf[2]>> : leaf \in Leaves(v[2][i][2])} :
                   i \in 1..Len(v[2])}
      [] v[1] = "list" ->
            UNION {{<<<<<<"int", i - 1>>>> \o leaf[1], leaf[2]>> : leaf \in Leaves(v[2][i])} :
                   i \in 1..Len(v[2])}
      [] OTHER -> {<<<<>>, v>>}

RECURSIVE Parts(_)

\* A value and all the values inside it.
Parts(v) ==
    {v} \cup CASE v[1] \in {"array", "dict"} -> UNION {Parts(v[2][i][2]) : i \in 1..Len(v[2])}
               [] v[1] = "list"              -> UNION {Parts(v[2][i]) : i \in 1..Len(v[2])}
               [] OTHER                      -> {}

IsContainer(v) == v[1] \in {"array", "dict", "list"}
HasEmpty(v) == \E p \in Parts(v) : IsContainer(p) /\ p[2] = <<>>

\* Integer keys that are not exactly 0 .. n-1, with no string key among them.
IsSparse(v) ==
    /\ v[1] = "array"
    /\ \A i \in 1..Len(v[2]) : v[2][i][1][1] = "int"
    /\ {v[2][i][1][2] : i \in 1..Len(v[2])} # 0..(Len(v[2]) - 1)

\* The strings that are leaves of a value, and those that are keys in it.
LeafTexts(v) == {leaf[2][2] : leaf \in {x \in Leaves(v) : x[2][1] = "str"}}
KeyTexts(v) ==
    UNION {{leaf[1][i][2] : i \in {j \in 1..Len(leaf[1]) : leaf[1][j][1] = "str"}} :
           leaf \in Leaves(v)}

\* A string, as a leaf or as a key, that a NUL byte cuts short.
HasNul(v) == "a.b" \in LeafTexts(v) \cup KeyTexts(v)

\* What an echo makes of a leaf: of an int the nearest double, of text that is
\* not UTF-8 nothing.
Echo(x) ==
    CASE x[1] = "int"                             -> <<"float", ToDouble(x[2])>>
      [] x[1] = "str" /\ x[2] \in Undecodable     -> <<"null">>
      [] OTHER                                    -> x

-----------------------------------------------------------------------------
(***************************************************************************)
(* Properties.                                                              *)
(***************************************************************************)

\* An argument is refused exactly when it holds, at any depth, a value other
\* than an int, a string or an array, or a list with holes; and a refusal is a
\* catchable Exception unless the only fault is a list with holes.
RefusedExactly ==
    LET unsupported == \E p \in Parts(first) : p[1] \in {"null", "bool", "float"}
        sparse      == \E p \in Parts(first) : IsSparse(p)
    IN  hops = 1 /\ origin = "php" =>
           /\ phase = "thrown" <=> unsupported \/ sparse
           /\ phase = "thrown" /\ ~sparse => php = Throw("Exception")
           /\ phase = "thrown" /\ ~unsupported => php = Throw("Error")

\* What was accepted and is echoed by the service comes back with every leaf at
\* its old path, an int as the nearest double and a string that is not UTF-8 as
\* null: lists, associative arrays and arrays that mix both kinds of keys, at any
\* depth.  Left out: arrays with an empty array inside (it comes back as null),
\* with a string that a NUL byte cuts short, or with a key that is not UTF-8
\* (it comes back as replacement characters and may fall on another key).
EchoKeepsLeaves ==
    hops = 2 /\ phase = "result" /\ origin = "php"
        /\ ~HasEmpty(first) /\ ~HasNul(first) /\ KeyTexts(first) \cap Undecodable = {}
    => Leaves(php) = {<<leaf[1], Echo(leaf[2])>> : leaf \in Leaves(first)}

\* No entry of a Python answer is lost, at any depth: different str keys stay different keys,
\* although numerals among them turn into PHP integer keys.  Left out: answers
\* with an empty container, with a string that a NUL byte cuts short, or with a
\* key that is no str or has lone surrogates (these all become the empty string).
AnswerKeepsEntries ==
    LET strKeyed == \A p \in Parts(first) : p[1] = "dict" =>
                        \A i \in 1..Len(p[2]) : p[2][i][1][1] = "str"
    IN  hops = 1 /\ phase = "result" /\ origin = "python" /\ strKeyed
            /\ ~HasEmpty(first) /\ ~HasNul(first) /\ KeyTexts(first) \cap Escaped = {}
        => Cardinality(Leaves(php)) = Cardinality(Leaves(first))

\* An answer made of strings in lists and dicts (with no empty one and no dict
\* whose keys all look like integers) can be passed to the next call, and
\* reaches Python as it left it.  Left out: strings and keys with a NUL byte,
\* which cuts them, or with lone surrogates, which have no UTF-8 form.
AnswerCanBePassedOn ==
    LET plain == /\ \A leaf \in Leaves(first) : leaf[2][1] = "str"
                 /\ \A p \in Parts(first) : p[1] = "dict" =>
                       /\ \A i \in 1..Len(p[2]) : p[2][i][1][1] = "str"
                       /\ \E i \in 1..Len(p[2]) : ~IsNumeral(p[2][i][1][2])
    IN  hops = 2 /\ origin = "python" /\ IsContainer(first) /\ plain
            /\ ~HasEmpty(first) /\ ~HasNul(first)
            /\ (LeafTexts(first) \cup KeyTexts(first)) \cap Escaped = {}
        => phase = "python" /\ py = first
=============================================================================
