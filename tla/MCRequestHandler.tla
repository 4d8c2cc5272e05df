-------------------------- MODULE MCRequestHandler --------------------------
(***************************************************************************)
(* Model checking of RequestHandler: safety and liveness with one printed   *)
(* segment, two output buffers and one step of code that runs late.         *)
(***************************************************************************)
EXTENDS RequestHandler

\* The plain routes, no route, and a route of handleRequestExecutor with every kind of
\* body.
MCRequests == {<<"GET", "/healthz", "falsy">>, <<"GET", "/call", "full">>}
              \cup {<<"POST", "/call", b>> : b \in Bodies}
=============================================================================
