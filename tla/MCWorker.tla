------------------------------ MODULE MCWorker ------------------------------
(***************************************************************************)
(* Model checking of Worker.                                                *)
(***************************************************************************)
EXTENDS Worker, TLC

\* One request for each way through index.php: a plain route, no route, a body
\* that cannot be used and one whose code is run.
MCRequests == {<<"GET", "/healthz", "falsy">>, <<"GET", "/call", "full">>,
               <<"POST", "/call", "falsy">>, <<"POST", "/call", "full">>}

\* The slots for objects are interchangeable.
ObjectSymmetry == Permutations(Objects)
=============================================================================
