--------------------------- MODULE MCPyPhpBridge ---------------------------
(***************************************************************************)
(* Model checking of PyPhpBridge over all values of depth two with at most  *)
(* two entries per container, a 4-bit long and a 2-bit mantissa.            *)
(***************************************************************************)
EXTENDS PyPhpBridge

PhpLeaves == {<<"null">>, <<"bool", TRUE>>, <<"int", 1>>, <<"int", 7>>, <<"int", -8>>,
              <<"float", 4>>, <<"str", "a">>, <<"str", "a.b">>, <<"str", "bin1">>}
PhpKeys == {<<"int", 0>>, <<"int", 1>>, <<"int", 2>>, <<"str", "a">>, <<"str", "a.b">>,
            <<"str", "bin1">>, <<"str", "bin2">>}

PyLeaves == {<<"none">>, <<"bool", TRUE>>, <<"int", 7>>, <<"int", 8>>, <<"float", 4>>,
             <<"str", "a">>, <<"str", "1">>, <<"str", "a.b">>, <<"str", "esc1">>, <<"opaque", "Tuple">>}
PyKeys == {<<"str", "a">>, <<"str", "b">>, <<"str", "1">>, <<"str", "a.b">>,
           <<"str", "esc1">>, <<"int", 1>>}

\* Sequences of at most two entries, with different keys.
Entries(keys, values) ==
    {<<>>} \cup {<<e>> : e \in keys \X values}
           \cup {p \in (keys \X values) \X (keys \X values) : p[1][1] # p[2][1]}

Items(values) == {<<>>} \cup {<<x>> : x \in values} \cup (values \X values)

PhpFlat == {<<"array", e>> : e \in Entries(PhpKeys, PhpLeaves)}
PyFlat == {<<"list", s>> : s \in Items(PyLeaves)}
          \cup {<<"dict", e>> : e \in Entries(PyKeys, PyLeaves)}

MCPhpInputs ==
    PhpLeaves \cup PhpFlat
    \cup {<<"array", <<<<k, x>>>>>> : k \in {<<"int", 0>>, <<"str", "a">>}, x \in PhpFlat}
    \cup {<<"array", <<<<<<"int", 0>>, <<"int", 1>>>>, <<k, x>>>>>> :
             k \in {<<"int", 1>>, <<"str", "a">>}, x \in PhpFlat}

MCPyInputs ==
    PyLeaves \cup PyFlat
    \cup {<<"list", <<<<"str", "a">>, x>>>> : x \in PyFlat}
    \cup {<<"dict", <<<<<<"str", "a">>, x>>>>>> : x \in PyFlat}
=============================================================================
