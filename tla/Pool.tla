-------------------------------- MODULE Pool --------------------------------
(***************************************************************************)
(* nginx (src/nginx.conf) in front of the php-fpm pool (src/docker.conf):   *)
(* requests wait in the backlog of the socket, workers accept one at a time *)
(* and run a handler, and three clocks are running: nginx gives up on a     *)
(* silent answer (fastcgi_read_timeout, its default of 60 s), php-fpm kills *)
(* a worker whose request takes too long (request_terminate_timeout, 160 s) *)
(* and callers may try again.  A handler acts in Deep once or, when it      *)
(* throws or is rejected before, not at all; acting may make Deep call      *)
(* another handler of this provider and wait for it (Inner).                *)
(* What happens inside a worker is the business of the module Worker.       *)
(***************************************************************************)
EXTENDS Naturals, Sequences, FiniteSets

CONSTANTS Workers,           \* as many as pm.max_children
          Calls,             \* what callers want done
          Inner,             \* the call that a call's effect triggers, or None
          None,
          MaxTries,          \* bound: attempts at one call
          Backlog,           \* connections the socket holds for the workers
          StartServers, MinSpare, MaxSpare, MaxRequests,   \* pm.*
          NginxTimeout, TerminateTimeout     \* in ticks of the clock

Attempts == Calls \X (1..MaxTries)

ASSUME PoolAssumption ==
    /\ None \notin Workers \cup Calls \cup Attempts
    /\ Inner \in [Calls -> Calls \cup {None}]
    /\ MaxTries \in Nat /\ Backlog \in Nat
    /\ MinSpare \in Nat \ {0} /\ MaxSpare \in Nat /\ StartServers \in MinSpare..MaxSpare
    /\ MaxRequests \in Nat \ {0}

\* 60 s against 160 s.
ASSUME TimeoutAssumption ==
    NginxTimeout \in Nat /\ TerminateTimeout \in Nat /\ NginxTimeout < TerminateTimeout

VARIABLES
    tries,    \* attempts made so far, for each call
    conn,     \* nginx's connection with its client, for each attempt
    wait,     \* how long nginx has been waiting for the worker, in ticks
    flushed,  \* has output of the attempt reached nginx already?
    queue,    \* the backlog of /run/php7.4-fpm.sock
    state,    \* of a worker: "absent", "idle", "busy" or "exited"
    job,      \* the attempt it works on, or None
    stage,    \* where its handler is: "code", "acted", "inner" or "returning"
    served,   \* requests it has served, 0 once it is gone
    run,      \* how long it has been running the request, in ticks
    sub,      \* the inner attempt its handler waits for, or None
    effects   \* how often an attempt has acted in Deep

callers == <<tries, conn, wait, flushed>>
worker == <<state, job, stage, served, run, sub>>
vars == <<callers, queue, worker, effects>>

Idle == {w \in Workers : state[w] = "idle"}

Init ==
    /\ tries = [c \in Calls |-> 0]
    /\ conn = [a \in Attempts |-> "none"]
    /\ wait = [a \in Attempts |-> 0]
    /\ flushed = [a \in Attempts |-> FALSE]
    /\ queue = <<>>
    /\ state \in [Workers -> {"idle", "absent"}] /\ Cardinality(Idle) = StartServers
    /\ job = [w \in Workers |-> None]
    /\ stage = [w \in Workers |-> "code"]
    /\ served = [w \in Workers |-> 0]
    /\ run = [w \in Workers |-> 0]
    /\ sub = [w \in Workers |-> None]
    /\ effects = [a \in Attempts |-> 0]

-----------------------------------------------------------------------------
(***************************************************************************)
(* nginx and its clients.                                                   *)
(***************************************************************************)

\* Mutant of HandOver: the backlog has no limit.
HandOverUnbounded(c) ==
    LET a == <<c, tries[c] + 1>> IN
    /\ tries[c] < MaxTries
    /\ tries' = [tries EXCEPT ![c] = @ + 1]
    /\ queue' = Append(queue, a)
    /\ conn' = [conn EXCEPT ![a] = "waiting"]
    /\ UNCHANGED <<wait, flushed>>

\* fastcgi_pass: the next attempt at c goes into the backlog; when that is full
\* the connect fails and the client gets a 502.
HandOver(c) ==
    LET a == <<c, tries[c] + 1>> IN
    /\ tries[c] < MaxTries
    /\ tries' = [tries EXCEPT ![c] = @ + 1]
    /\ IF Len(queue) < Backlog
       THEN /\ queue' = Append(queue, a)
            /\ conn' = [conn EXCEPT ![a] = "waiting"]
       ELSE /\ conn' = [conn EXCEPT ![a] = "bad"]
            /\ UNCHANGED queue
    /\ UNCHANGED <<wait, flushed>>

\* A first attempt at a call that no handler triggers, or another one after an
\* attempt that failed or was answered: a document may say "rejected".
Request(c) ==
    /\ \A d \in Calls : Inner[d] # c
    /\ tries[c] > 0 => conn[<<c, tries[c]>>] # "waiting"
    /\ HandOver(c)
    /\ UNCHANGED <<worker, effects>>

\* nginx's connection for a, if it is still open, comes to an end.
End(a, how) ==
    IF conn[a] = "waiting"
    THEN /\ conn' = [conn EXCEPT ![a] = how]
         /\ wait' = [wait EXCEPT ![a] = 0]
         /\ flushed' = [flushed EXCEPT ![a] = FALSE]
    ELSE UNCHANGED <<conn, wait, flushed>>

\* Mutant of GiveUp: nginx passes the request to an upstream once more before it
\* reports the failure.
GiveUpNextUpstream(a) ==
    /\ conn[a] = "waiting"
    /\ wait[a] = NginxTimeout
    /\ End(a, "timeout")
    /\ queue' = IF Len(queue) < Backlog THEN Append(queue, a) ELSE queue
    /\ UNCHANGED <<tries, worker, effects>>

\* fastcgi_read_timeout: the client gets a 504, or what was flushed so far.  The
\* connection stays in the backlog, or the worker at work: neither notices.
GiveUp(a) ==
    /\ conn[a] = "waiting"
    /\ wait[a] = NginxTimeout
    /\ End(a, "timeout")
    /\ UNCHANGED <<tries, queue, worker, effects>>

\* The client hangs up before that; nginx closes its end as well.
Abort(a) ==
    /\ conn[a] = "waiting"
    /\ End(a, "timeout")
    /\ UNCHANGED <<tries, queue, worker, effects>>

-----------------------------------------------------------------------------
(***************************************************************************)
(* A worker.                                                                *)
(***************************************************************************)

\* Mutant of Accept: the connection stays in the backlog.
AcceptKeeps(w) ==
    /\ state[w] = "idle"
    /\ queue # <<>>
    /\ state' = [state EXCEPT ![w] = "busy"]
    /\ job' = [job EXCEPT ![w] = Head(queue)]
    /\ stage' = [stage EXCEPT ![w] = "code"]
    /\ run' = [run EXCEPT ![w] = 0]
    /\ UNCHANGED <<callers, queue, served, sub, effects>>

\* fcgi_accept_request takes the oldest connection and reads the request, which
\* is there also when nginx has closed its end.
Accept(w) ==
    /\ state[w] = "idle"
    /\ queue # <<>>
    /\ state' = [state EXCEPT ![w] = "busy"]
    /\ job' = [job EXCEPT ![w] = Head(queue)]
    /\ stage' = [stage EXCEPT ![w] = "code"]
    /\ run' = [run EXCEPT ![w] = 0]
    /\ queue' = Tail(queue)
    /\ UNCHANGED <<callers, served, sub, effects>>

\* The handler acts in Deep.
Act(w) ==
    /\ state[w] = "busy"
    /\ stage[w] = "code"
    /\ effects' = [effects EXCEPT ![job[w]] = @ + 1]
    /\ stage' = [stage EXCEPT ![w] = "acted"]
    /\ UNCHANGED <<callers, queue, state, job, served, run, sub>>

\* The handler ends before it acts: it returns, its code throws or raises, the
\* body is no JSON.  index.php makes a document of each of these, with status 200.
Decline(w) ==
    /\ state[w] = "busy"
    /\ stage[w] = "code"
    /\ stage' = [stage EXCEPT ![w] = "returning"]
    /\ UNCHANGED <<callers, queue, state, job, served, run, sub, effects>>

\* Deep answers at once, or calls a handler of this provider first.
Answered(w) ==
    /\ state[w] = "busy"
    /\ stage[w] = "acted"
    /\ Inner[job[w][1]] = None
    /\ stage' = [stage EXCEPT ![w] = "returning"]
    /\ UNCHANGED <<callers, queue, state, job, served, run, sub, effects>>

CallInner(w) ==
    /\ state[w] = "busy"
    /\ stage[w] = "acted"
    /\ LET c == Inner[job[w][1]] IN
       /\ c # None
       /\ HandOver(c)
       /\ sub' = [sub EXCEPT ![w] = <<c, tries[c] + 1>>]
    /\ stage' = [stage EXCEPT ![w] = "inner"]
    /\ UNCHANGED <<state, job, served, run, effects>>

\* The inner call has ended, well or not: the handler returns or throws, and
\* index.php makes a document of either.
InnerOver(w) ==
    /\ state[w] = "busy"
    /\ stage[w] = "inner"
    /\ conn[sub[w]] # "waiting"
    /\ stage' = [stage EXCEPT ![w] = "returning"]
    /\ sub' = [sub EXCEPT ![w] = None]
    /\ UNCHANGED <<callers, queue, state, job, served, run, effects>>

\* The worker is free again, or gone after pm.max_requests.
Free(w) ==
    /\ IF served[w] + 1 = MaxRequests
       THEN /\ state' = [state EXCEPT ![w] = "exited"]
            /\ served' = [served EXCEPT ![w] = 0]
       ELSE /\ state' = [state EXCEPT ![w] = "idle"]
            /\ served' = [served EXCEPT ![w] = @ + 1]
    /\ job' = [job EXCEPT ![w] = None]
    /\ stage' = [stage EXCEPT ![w] = "code"]
    /\ run' = [run EXCEPT ![w] = 0]
    /\ sub' = [sub EXCEPT ![w] = None]

\* The handler flushes its output past the buffers: nginx's timer starts again.
\* With the client gone the write fails, and PHP ends the script there.
Flush(w) ==
    /\ state[w] = "busy"
    /\ stage[w] # "inner"
    /\ IF conn[job[w]] = "waiting"
       THEN /\ flushed' = [flushed EXCEPT ![job[w]] = TRUE]
            /\ wait' = [wait EXCEPT ![job[w]] = 0]
            /\ UNCHANGED worker
       ELSE Free(w) /\ UNCHANGED <<flushed, wait>>
    /\ UNCHANGED <<tries, conn, queue, effects>>

\* fcgi_finish_request: the answer reaches nginx if it still listens.
Finish(w) ==
    /\ state[w] = "busy"
    /\ stage[w] = "returning"
    /\ End(job[w], "ok")
    /\ Free(w)
    /\ UNCHANGED <<tries, queue, effects>>

-----------------------------------------------------------------------------
(***************************************************************************)
(* The master.                                                              *)
(***************************************************************************)

Lose(w) ==
    /\ state' = [state EXCEPT ![w] = "exited"]
    /\ job' = [job EXCEPT ![w] = None]
    /\ stage' = [stage EXCEPT ![w] = "code"]
    /\ run' = [run EXCEPT ![w] = 0]
    /\ sub' = [sub EXCEPT ![w] = None]
    /\ served' = [served EXCEPT ![w] = 0]
    /\ End(job[w], "bad")
    /\ UNCHANGED <<tries, queue, effects>>

\* A crash: a C++ exception in the engine, a module of a dead interpreter.
Crash(w) == state[w] = "busy" /\ Lose(w)

\* Mutants of Terminate: a limit below nginx's; none for a handler that waits.
TerminateEarly(w) ==
    /\ state[w] = "busy"
    /\ run[w] >= NginxTimeout
    /\ Lose(w)

TerminateNotInCode(w) ==
    /\ state[w] = "busy"
    /\ stage[w] # "code"
    /\ run[w] = TerminateTimeout
    /\ Lose(w)

\* request_terminate_timeout
Terminate(w) ==
    /\ state[w] = "busy"
    /\ run[w] = TerminateTimeout
    /\ Lose(w)

\* A worker that ended, whatever the reason, is replaced.
Bury(w) ==
    /\ state[w] = "exited"
    /\ state' = [state EXCEPT ![w] = "idle"]
    /\ UNCHANGED <<callers, queue, job, stage, served, run, sub, effects>>

\* pm = dynamic: one idle worker less, or one more.
Retire(w) ==
    /\ state[w] = "idle"
    /\ Cardinality(Idle) > MaxSpare
    /\ state' = [state EXCEPT ![w] = "absent"]
    /\ served' = [served EXCEPT ![w] = 0]
    /\ UNCHANGED <<callers, queue, job, stage, run, sub, effects>>

Fork(w) ==
    /\ state[w] = "absent"
    /\ Cardinality(Idle) < MinSpare
    /\ state' = [state EXCEPT ![w] = "idle"]
    /\ UNCHANGED <<callers, queue, job, stage, served, run, sub, effects>>

\* Time passes for everybody.  A timer that is due fires before the next tick.
Tick ==
    /\ \A a \in Attempts : conn[a] = "waiting" => wait[a] < NginxTimeout
    /\ \A w \in Workers : state[w] = "busy" => run[w] < TerminateTimeout
    /\ wait' = [a \in Attempts |-> IF conn[a] = "waiting" THEN wait[a] + 1 ELSE wait[a]]
    /\ run' = [w \in Workers |-> IF state[w] = "busy" THEN run[w] + 1 ELSE run[w]]
    /\ UNCHANGED <<tries, conn, flushed, queue, state, job, stage, served, sub, effects>>

-----------------------------------------------------------------------------

Handler(w) ==
    \/ Act(w) \/ Decline(w) \/ Answered(w)
    \/ CallInner(w) \/ InnerOver(w) \/ Flush(w) \/ Finish(w)

Next ==
    \/ \E c \in Calls : Request(c)
    \/ \E a \in Attempts : GiveUp(a) \/ Abort(a)
    \/ \E w \in Workers :
          \/ Accept(w) \/ Handler(w)
          \/ Crash(w) \/ Terminate(w) \/ Bury(w) \/ Retire(w) \/ Fork(w)
    \/ Tick

Spec == Init /\ [][Next]_vars

\* Timers run and fire, the master looks after its workers, and an idle worker
\* accepts.  Nothing is assumed of handlers, callers and Deep.
FairSpec ==
    /\ Spec
    /\ WF_vars(Tick)
    /\ \A a \in Attempts : WF_vars(GiveUp(a))
    /\ \A w \in Workers : WF_vars(Terminate(w)) /\ WF_vars(Bury(w)) /\ WF_vars(Fork(w))
    /\ WF_vars(\E w \in Workers : Accept(w))
-----------------------------------------------------------------------------
(***************************************************************************)
(* Properties.                                                              *)
(***************************************************************************)

TypeOK ==
    /\ tries \in [Calls -> 0..MaxTries]
    /\ conn \in [Attempts -> {"none", "waiting", "ok", "bad", "timeout"}]
    /\ wait \in [Attempts -> 0..NginxTimeout]
    /\ flushed \in [Attempts -> BOOLEAN]
    /\ queue \in Seq(Attempts) /\ Len(queue) <= Backlog
    /\ state \in [Workers -> {"absent", "idle", "busy", "exited"}]
    /\ job \in [Workers -> Attempts \cup {None}]
    /\ stage \in [Workers -> {"code", "acted", "inner", "returning"}]
    /\ served \in [Workers -> 0..(MaxRequests - 1)]
    /\ run \in [Workers -> 0..TerminateTimeout]
    /\ sub \in [Workers -> Attempts \cup {None}]
    /\ effects \in [Attempts -> Nat]

\* A worker at work, or a place in the backlog, belongs to one attempt that nginx
\* is waiting for or has given up on; an attempt is never in two places.
OnePlace ==
    /\ \A w \in Workers : state[w] = "busy" => conn[job[w]] \in {"waiting", "timeout"}
    /\ \A i \in 1..Len(queue) : conn[queue[i]] \in {"waiting", "timeout"}
    /\ \A v, w \in Workers : job[v] = job[w] /\ job[v] # None => v = w
    /\ \A i, j \in 1..Len(queue) : queue[i] = queue[j] => i = j
    /\ \A w \in Workers, i \in 1..Len(queue) : job[w] # queue[i]

\* What a client knows of its attempts: 502 and 504 are the same to it.
Knows(c) == CASE c = "waiting" -> "asked"
              [] c = "ok" -> "answered"
              [] c \in {"bad", "timeout"} -> "failed"
              [] OTHER -> c
Told == [a \in Attempts |-> Knows(conn[a])]

\* With queue, timeouts, kills, recycling and retries, an attempt acts at most
\* once in Deep, and only when it was asked for; what a client is told of it is
\* final, and once a client has a document the attempt does not act any more.
\* That it has acted the client can not tell: the status is 200 either way.
Promise == INSTANCE HandlerCalls WITH told <- Told, performed <- effects

AtMostOncePerAttempt == Promise!Spec

\* request_terminate_timeout never cuts off a client that nginx still keeps
\* waiting, unless the handler had flushed output: whoever is killed has been
\* reported as a 504 before.
KillHitsNobodyWaiting ==
    [][\A w \in Workers : Terminate(w) /\ conn[job[w]] = "waiting" => flushed[job[w]]]_vars

\* Nobody waits in the backlog for ever, also when every worker is held by a
\* handler that waits for an inner call behind it in the backlog.
BacklogDrains ==
    \A a \in Attempts : (\E i \in 1..Len(queue) : queue[i] = a)
                            ~> ~ \E i \in 1..Len(queue) : queue[i] = a

\* What nginx has given up on ends: some time after the 504 no worker acts for
\* the attempt any more.
AbandonedWorkEnds ==
    \A a \in Attempts : conn[a] = "timeout" ~>
        [](/\ \A w \in Workers : job[w] # a
           /\ \A i \in 1..Len(queue) : queue[i] # a)
=============================================================================
