----------------------------- MODULE PoolProofs -----------------------------
(***************************************************************************)
(* Proofs about Pool, for any number of workers, calls and tries, any       *)
(* backlog, any limits of the pool and any two timeouts of which nginx's is *)
(* the shorter.                                                             *)
(***************************************************************************)
EXTENDS Pool, TLAPS

-----------------------------------------------------------------------------
(***************************************************************************)
(* The inductive invariant.                                                 *)
(***************************************************************************)

\* An attempt has a connection once it was made.
Numbered == \A c \in Calls, i \in 1..MaxTries : conn[<<c, i>>] = "none" <=> i > tries[c]

\* A worker has a job while it is busy.
Employed == \A w \in Workers : job[w] # None <=> state[w] = "busy"

\* An attempt acts at most once, and has not acted while its worker is before that
\* line, while it is in the backlog, or when it was not made.
Acted ==
    /\ \A a \in Attempts : effects[a] \in {0, 1}
    /\ \A a \in Attempts : conn[a] = "none" => effects[a] = 0
    /\ \A i \in 1..Len(queue) : effects[queue[i]] = 0
    /\ \A w \in Workers : state[w] = "busy" /\ stage[w] = "code" => effects[job[w]] = 0

\* The worker's clock was started after nginx's, which only a flush resets.
Clocks ==
    \A w \in Workers :
        state[w] = "busy" /\ conn[job[w]] = "waiting" /\ ~flushed[job[w]]
        => run[w] <= wait[job[w]]

PoolInv == TypeOK /\ Numbered /\ Employed /\ OnePlace /\ Acted /\ Clocks

-----------------------------------------------------------------------------
(***************************************************************************)
(* What the steps of nginx do to it.                                        *)
(***************************************************************************)

\* The attempt that HandOver makes is new: nobody has it.
LEMMA NextAttemptIsNew ==
    ASSUME PoolInv, NEW c \in Calls, tries[c] < MaxTries
    PROVE  LET a == <<c, tries[c] + 1>> IN
           /\ a \in Attempts
           /\ conn[a] = "none"
           /\ effects[a] = 0
           /\ \A w \in Workers : job[w] # a
           /\ \A i \in 1..Len(queue) : queue[i] # a
<1> DEFINE a == <<c, tries[c] + 1>>
<1>1. tries[c] + 1 \in 1..MaxTries
    BY PoolAssumption DEF PoolInv, TypeOK
<1>2. a \in Attempts
    BY <1>1 DEF Attempts
<1>3. conn[a] = "none"
    BY <1>1 DEF PoolInv, Numbered, TypeOK
<1>4. effects[a] = 0
    BY <1>2, <1>3 DEF PoolInv, Acted
<1>5. ASSUME NEW w \in Workers, job[w] = a PROVE FALSE
    <2>1. a # None
        BY <1>2, PoolAssumption
    <2>2. state[w] = "busy"
        BY <1>5, <2>1 DEF PoolInv, Employed
    <2>3. QED
        BY <1>3, <1>5, <2>2 DEF PoolInv, OnePlace
<1>6. \A i \in 1..Len(queue) : queue[i] # a
    BY <1>3 DEF PoolInv, OnePlace
<1>7. QED
    BY <1>2, <1>3, <1>4, <1>5, <1>6

\* HandOver makes the attempt, in the backlog or with a 502, and moves no other.
LEMMA HandOverIs ==
    ASSUME PoolInv, NEW c \in Calls, HandOver(c)
    PROVE  LET a == <<c, tries[c] + 1>> IN
           /\ tries[c] < MaxTries
           /\ tries' = [tries EXCEPT ![c] = @ + 1]
           /\ \/ /\ Len(queue) < Backlog
                 /\ queue' = Append(queue, a)
                 /\ conn' = [conn EXCEPT ![a] = "waiting"]
              \/ queue' = queue /\ conn' = [conn EXCEPT ![a] = "bad"]
           /\ UNCHANGED <<wait, flushed>>
BY DEF HandOver

\* The new attempt keeps the invariant, whatever else happens to stages that are
\* past the handler's action and to what they wait for.
LEMMA HandOverKeeps ==
    ASSUME PoolInv, NEW c \in Calls, HandOver(c),
           UNCHANGED <<state, job, served, run, effects>>,
           stage' \in [Workers -> {"code", "acted", "inner", "returning"}],
           \A w \in Workers : stage'[w] = "code" <=> stage[w] = "code",
           sub' \in [Workers -> Attempts \cup {None}]
    PROVE  PoolInv'
<1> DEFINE a == <<c, tries[c] + 1>>
<1>a. /\ tries[c] < MaxTries
      /\ tries' = [tries EXCEPT ![c] = @ + 1]
      /\ \/ /\ Len(queue) < Backlog
            /\ queue' = Append(queue, a)
            /\ conn' = [conn EXCEPT ![a] = "waiting"]
         \/ queue' = queue /\ conn' = [conn EXCEPT ![a] = "bad"]
      /\ UNCHANGED <<wait, flushed>>
    BY HandOverIs
<1>b. /\ a \in Attempts
      /\ conn[a] = "none"
      /\ effects[a] = 0
      /\ \A w \in Workers : job[w] # a
      /\ \A i \in 1..Len(queue) : queue[i] # a
    BY <1>a, NextAttemptIsNew
<1>c. a[1] = c /\ a[2] = tries[c] + 1
    OBVIOUS
<1>d. TypeOK /\ Numbered /\ Employed /\ OnePlace /\ Acted /\ Clocks
    BY DEF PoolInv
<1>1. Numbered'
    <2> SUFFICES ASSUME NEW d \in Calls, NEW i \in 1..MaxTries
                 PROVE  conn'[<<d, i>>] = "none" <=> i > tries'[d]
        BY DEF Numbered
    <2>1. <<d, i>> \in Attempts
        BY DEF Attempts
    <2>2. conn[<<d, i>>] = "none" <=> i > tries[d]
        BY <1>d DEF Numbered
    <2>3. CASE d = c /\ i = tries[c] + 1
        <3>1. conn'[<<d, i>>] \in {"waiting", "bad"}
            BY <1>a, <1>d, <2>1, <2>3 DEF TypeOK
        <3>2. tries'[d] = i
            BY <1>a, <1>d, <2>3 DEF TypeOK
        <3>3. QED
            BY <3>1, <3>2
    <2>4. CASE ~(d = c /\ i = tries[c] + 1)
        <3>1. conn'[<<d, i>>] = conn[<<d, i>>]
            BY <1>a, <1>d, <2>1, <2>4 DEF TypeOK
        <3>2. i > tries'[d] <=> i > tries[d]
            BY <1>a, <1>d, <2>4 DEF TypeOK
        <3>3. QED
            BY <2>2, <3>1, <3>2
    <2>5. QED
        BY <2>3, <2>4
<1> HIDE DEF a
<1>2. TypeOK'
    <2>1. tries' \in [Calls -> 0..MaxTries]
        BY <1>a, <1>d, PoolAssumption DEF TypeOK
    <2>2. conn' \in [Attempts -> {"none", "waiting", "ok", "bad", "timeout"}]
        BY <1>a, <1>d DEF TypeOK
    <2>3. queue' \in Seq(Attempts) /\ Len(queue') <= Backlog
        <3>1. queue \in Seq(Attempts) /\ Len(queue) \in Nat /\ Len(queue) <= Backlog
            BY <1>d DEF TypeOK
        <3>2. CASE queue' = queue
            BY <3>1, <3>2
        <3>3. CASE Len(queue) < Backlog /\ queue' = Append(queue, a)
            <4>1. queue' \in Seq(Attempts) /\ Len(queue') = Len(queue) + 1
                BY <1>b, <3>1, <3>3
            <4>2. QED
                BY <3>1, <3>3, <4>1, PoolAssumption
        <3>4. QED
            BY <1>a, <3>2, <3>3
    <2>4. QED
        BY <1>a, <1>d, <2>1, <2>2, <2>3 DEF TypeOK
<1>3. \A b \in Attempts : b # a => conn'[b] = conn[b]
    BY <1>a, <1>d DEF TypeOK
<1>4. \A w \in Workers : state[w] = "busy" => job[w] \in Attempts /\ job[w] # a
    BY <1>b, <1>d DEF TypeOK, Employed
<1>5. Employed' /\ Clocks'
    BY <1>a, <1>d, <1>3, <1>4 DEF Employed, Clocks
<1>6. CASE queue' = Append(queue, a) /\ conn' = [conn EXCEPT ![a] = "waiting"]
    <2>1. Len(queue') = Len(queue) + 1 /\ Len(queue) \in Nat
        BY <1>6, <1>d DEF TypeOK
    <2>2. \A i \in 1..Len(queue) : queue'[i] = queue[i] /\ queue[i] \in Attempts
        BY <1>6, <1>d DEF TypeOK
    <2>3. queue'[Len(queue')] = a
        BY <1>6, <1>d, <2>1 DEF TypeOK
    <2>4. \A i \in 1..Len(queue') : i \in 1..Len(queue) \/ i = Len(queue')
        BY <2>1
    <2>5. conn'[a] = "waiting"
        BY <1>6, <1>b, <1>d DEF TypeOK
    <2>6. OnePlace'
        <3>1. \A i \in 1..Len(queue') : conn'[queue'[i]] \in {"waiting", "timeout"}
            BY <1>b, <1>d, <1>3, <2>2, <2>3, <2>4, <2>5 DEF OnePlace
        <3>2. \A i, j \in 1..Len(queue') : queue'[i] = queue'[j] => i = j
            BY <1>b, <1>d, <2>2, <2>3, <2>4 DEF OnePlace
        <3>3. \A w \in Workers, i \in 1..Len(queue') : job'[w] # queue'[i]
            BY <1>b, <1>d, <2>2, <2>3, <2>4 DEF OnePlace
        <3>4. QED
            BY <1>d, <1>3, <1>4, <3>1, <3>2, <3>3 DEF OnePlace
    <2>7. Acted'
        <3>1. \A i \in 1..Len(queue') : effects'[queue'[i]] = 0
            BY <1>b, <1>d, <2>2, <2>3, <2>4 DEF Acted
        <3>2. \A b \in Attempts : conn'[b] = "none" => effects'[b] = 0
            BY <1>b, <1>d, <1>3 DEF Acted
        <3>3. QED
            BY <1>d, <3>1, <3>2 DEF Acted
    <2>8. QED
        BY <1>1, <1>2, <1>5, <2>6, <2>7 DEF PoolInv
<1>7. CASE queue' = queue /\ conn' = [conn EXCEPT ![a] = "bad"]
    <2>1. \A i \in 1..Len(queue) : queue[i] \in Attempts
        BY <1>d DEF TypeOK
    <2>2. OnePlace'
        BY <1>7, <1>b, <1>d, <1>3, <1>4, <2>1 DEF OnePlace
    <2>3. Acted'
        BY <1>7, <1>b, <1>d, <1>3 DEF Acted
    <2>4. QED
        BY <1>1, <1>2, <1>5, <2>2, <2>3 DEF PoolInv
<1>8. QED
    BY <1>a, <1>6, <1>7

\* The end of a connection changes what the client knows, once.
LEMMA EndIs ==
    ASSUME TypeOK, NEW a \in Attempts, NEW how \in {"ok", "bad", "timeout"}, End(a, how)
    PROVE  /\ conn' \in [Attempts -> {"none", "waiting", "ok", "bad", "timeout"}]
           /\ wait' \in [Attempts -> 0..NginxTimeout]
           /\ flushed' \in [Attempts -> BOOLEAN]
           /\ \A b \in Attempts :
                 \/ conn'[b] = conn[b] /\ wait'[b] = wait[b] /\ flushed'[b] = flushed[b]
                 \/ b = a /\ conn[b] = "waiting" /\ conn'[b] = how
<1>1. CASE conn[a] = "waiting"
    <2>1. /\ conn' = [conn EXCEPT ![a] = how]
          /\ wait' = [wait EXCEPT ![a] = 0]
          /\ flushed' = [flushed EXCEPT ![a] = FALSE]
        BY <1>1 DEF End
    <2>2. 0 \in 0..NginxTimeout
        BY TimeoutAssumption
    <2>3. QED
        BY <1>1, <2>1, <2>2 DEF TypeOK
<1>2. CASE conn[a] # "waiting"
    BY <1>2 DEF End, TypeOK
<1>3. QED
    BY <1>1, <1>2

\* nginx that gives up, or a client that hangs up, leaves backlog and workers.
LEMMA GivesUpKeeps ==
    ASSUME PoolInv, NEW a \in Attempts, End(a, "timeout"), UNCHANGED <<tries, queue, worker, effects>>
    PROVE  PoolInv'
<1>a. TypeOK /\ Numbered /\ Employed /\ OnePlace /\ Acted /\ Clocks
    BY DEF PoolInv
<1>b. /\ conn' \in [Attempts -> {"none", "waiting", "ok", "bad", "timeout"}]
      /\ wait' \in [Attempts -> 0..NginxTimeout]
      /\ flushed' \in [Attempts -> BOOLEAN]
      /\ \A b \in Attempts :
            \/ conn'[b] = conn[b] /\ wait'[b] = wait[b] /\ flushed'[b] = flushed[b]
            \/ b = a /\ conn[b] = "waiting" /\ conn'[b] = "timeout"
    BY <1>a, EndIs
<1>1. TypeOK'
    BY <1>a, <1>b DEF TypeOK, worker
<1>2. Numbered'
    BY <1>a, <1>b DEF Numbered, Attempts
<1>3. \A w \in Workers : state[w] = "busy" => job[w] \in Attempts
    BY <1>a DEF TypeOK, Employed
<1>4. \A i \in 1..Len(queue) : queue[i] \in Attempts
    BY <1>a DEF TypeOK
<1>5. Employed' /\ Acted'
    BY <1>a, <1>b DEF Employed, Acted, worker
<1>6. OnePlace'
    BY <1>a, <1>b, <1>3, <1>4 DEF OnePlace, worker
<1>7. Clocks'
    BY <1>a, <1>b, <1>3 DEF Clocks, worker
<1>8. QED
    BY <1>1, <1>2, <1>5, <1>6, <1>7 DEF PoolInv

-----------------------------------------------------------------------------
(***************************************************************************)
(* What the steps of a worker and of the master do to it.                   *)
(***************************************************************************)

\* accept takes the head of the backlog: an attempt that has not acted.
LEMMA AcceptsNew == ASSUME PoolInv, NEW w \in Workers, Accept(w) PROVE PoolInv'
<1>a. TypeOK /\ Numbered /\ Employed /\ OnePlace /\ Acted /\ Clocks
    BY DEF PoolInv
<1>b. /\ state[w] = "idle" /\ queue # <<>>
      /\ state' = [state EXCEPT ![w] = "busy"]
      /\ job' = [job EXCEPT ![w] = Head(queue)]
      /\ stage' = [stage EXCEPT ![w] = "code"]
      /\ run' = [run EXCEPT ![w] = 0]
      /\ queue' = Tail(queue)
      /\ UNCHANGED <<tries, conn, wait, flushed, served, sub, effects>>
    BY DEF Accept, callers
<1>c. queue \in Seq(Attempts) /\ Len(queue) \in Nat /\ Len(queue) <= Backlog
    BY <1>a DEF TypeOK
<1>d. /\ Len(queue) > 0 /\ Head(queue) = queue[1] /\ queue[1] \in Attempts
      /\ queue' \in Seq(Attempts) /\ Len(queue') = Len(queue) - 1
      /\ \A i \in 1..Len(queue') : i + 1 \in 1..Len(queue) /\ queue'[i] = queue[i + 1]
    BY <1>b, <1>c
<1>e. \A i \in 1..Len(queue') : queue'[i] # queue[1]
    BY <1>a, <1>c, <1>d DEF OnePlace
<1>f. /\ queue[1] # None
      /\ conn[queue[1]] \in {"waiting", "timeout"}
      /\ effects[queue[1]] = 0
      /\ \A v \in Workers : job[v] # queue[1]
    BY <1>a, <1>c, <1>d, PoolAssumption DEF OnePlace, Acted
<1>g. /\ \A v \in Workers : state'[v] = IF v = w THEN "busy" ELSE state[v]
      /\ \A v \in Workers : job'[v] = IF v = w THEN queue[1] ELSE job[v]
      /\ \A v \in Workers : stage'[v] = IF v = w THEN "code" ELSE stage[v]
      /\ \A v \in Workers : run'[v] = IF v = w THEN 0 ELSE run[v]
    BY <1>a, <1>b, <1>d DEF TypeOK
<1>1. TypeOK'
    <2>1. 0 \in 0..TerminateTimeout
        BY TimeoutAssumption
    <2>2. Len(queue') <= Backlog
        BY <1>c, <1>d, PoolAssumption
    <2>3. QED
        BY <1>a, <1>b, <1>d, <2>1, <2>2 DEF TypeOK
<1>2. Numbered'
    BY <1>a, <1>b DEF Numbered
<1>3. Employed'
    BY <1>a, <1>f, <1>g DEF Employed
<1>4. OnePlace'
    <2>1. \A i \in 1..Len(queue') : conn'[queue'[i]] \in {"waiting", "timeout"}
        BY <1>a, <1>b, <1>d DEF OnePlace
    <2>2. \A i, j \in 1..Len(queue') : queue'[i] = queue'[j] => i = j
        <3> SUFFICES ASSUME NEW i \in 1..Len(queue'), NEW j \in 1..Len(queue'),
                            queue'[i] = queue'[j]
                     PROVE  i = j
            OBVIOUS
        <3>1. i + 1 = j + 1
            BY <1>a, <1>d DEF OnePlace
        <3>2. QED
            BY <3>1, <1>c, <1>d
    <2>3. \A v \in Workers, i \in 1..Len(queue') : job'[v] # queue'[i]
        BY <1>a, <1>d, <1>e, <1>g DEF OnePlace
    <2>4. \A v \in Workers : state'[v] = "busy" => conn'[job'[v]] \in {"waiting", "timeout"}
        BY <1>a, <1>b, <1>f, <1>g DEF OnePlace
    <2>5. \A u, v \in Workers : job'[u] = job'[v] /\ job'[u] # None => u = v
        BY <1>a, <1>f, <1>g DEF OnePlace
    <2>6. QED
        BY <2>1, <2>2, <2>3, <2>4, <2>5 DEF OnePlace
<1>5. Acted'
    BY <1>a, <1>b, <1>d, <1>f, <1>g DEF Acted
<1>6. Clocks'
    <2>1. wait[queue[1]] >= 0
        BY <1>a, <1>d, TimeoutAssumption DEF TypeOK
    <2>2. QED
        BY <1>a, <1>b, <1>g, <2>1 DEF Clocks
<1>7. QED
    BY <1>1, <1>2, <1>3, <1>4, <1>5, <1>6 DEF PoolInv

\* The handler acts once: its attempt is in no other place.
LEMMA ActKeeps == ASSUME PoolInv, NEW w \in Workers, Act(w) PROVE PoolInv'
<1>a. TypeOK /\ Numbered /\ Employed /\ OnePlace /\ Acted /\ Clocks
    BY DEF PoolInv
<1>b. /\ state[w] = "busy" /\ stage[w] = "code"
      /\ effects' = [effects EXCEPT ![job[w]] = @ + 1]
      /\ stage' = [stage EXCEPT ![w] = "acted"]
      /\ UNCHANGED <<tries, conn, wait, flushed, queue, state, job, served, run, sub>>
    BY DEF Act, callers
<1>c. job[w] \in Attempts /\ job[w] # None /\ effects[job[w]] = 0
    BY <1>a, <1>b DEF TypeOK, Employed, Acted
<1>d. /\ \A a \in Attempts : effects'[a] = IF a = job[w] THEN 1 ELSE effects[a]
      /\ \A v \in Workers : stage'[v] = IF v = w THEN "acted" ELSE stage[v]
    BY <1>a, <1>b, <1>c DEF TypeOK
<1>1. TypeOK'
    BY <1>a, <1>b, <1>c DEF TypeOK
<1>2. Numbered' /\ Employed' /\ OnePlace' /\ Clocks'
    BY <1>a, <1>b DEF Numbered, Employed, OnePlace, Clocks
<1>3. Acted'
    <2>1. \A i \in 1..Len(queue) : queue[i] \in Attempts /\ queue[i] # job[w]
        BY <1>a DEF TypeOK, OnePlace
    <2>2. \A v \in Workers : state[v] = "busy" => job[v] \in Attempts /\ (job[v] = job[w] => v = w)
        BY <1>a, <1>c DEF TypeOK, Employed, OnePlace
    <2>3. conn[job[w]] # "none"
        BY <1>a, <1>b DEF OnePlace
    <2>4. /\ \A a \in Attempts : effects'[a] \in {0, 1}
          /\ \A a \in Attempts : conn'[a] = "none" => effects'[a] = 0
        BY <1>a, <1>b, <1>d, <2>3 DEF Acted
    <2>5. \A i \in 1..Len(queue') : effects'[queue'[i]] = 0
        BY <1>a, <1>b, <1>d, <2>1 DEF Acted
    <2>6. \A v \in Workers :
              state'[v] = "busy" /\ stage'[v] = "code" => effects'[job'[v]] = 0
        BY <1>a, <1>b, <1>d, <2>2 DEF Acted
    <2>7. QED
        BY <2>4, <2>5, <2>6 DEF Acted
<1>4. QED
    BY <1>1, <1>2, <1>3 DEF PoolInv

\* A handler that ends without acting, or that has acted, only moves on.
LEMMA MovesOnKeeps ==
    ASSUME PoolInv, NEW w \in Workers,
           Decline(w) \/ Answered(w) \/ CallInner(w) \/ InnerOver(w)
    PROVE  PoolInv'
<1>a. TypeOK /\ Numbered /\ Employed /\ OnePlace /\ Acted /\ Clocks
    BY DEF PoolInv
<1>1. CASE Decline(w) \/ Answered(w) \/ InnerOver(w)
    <2>1. /\ stage' = [stage EXCEPT ![w] = "returning"]
          /\ sub' = sub \/ sub' = [sub EXCEPT ![w] = None]
          /\ UNCHANGED <<tries, conn, wait, flushed, queue, state, job, served, run, effects>>
        BY <1>1 DEF Decline, Answered, InnerOver, callers
    <2>2. \A v \in Workers : stage'[v] = "code" => stage[v] = "code"
        BY <1>a, <2>1 DEF TypeOK
    <2>3. TypeOK'
        BY <1>a, <2>1 DEF TypeOK
    <2>4. Numbered' /\ Employed' /\ OnePlace' /\ Clocks'
        BY <1>a, <2>1 DEF Numbered, Employed, OnePlace, Clocks
    <2>5. Acted'
        BY <1>a, <2>1, <2>2 DEF Acted
    <2>6. QED
        BY <2>3, <2>4, <2>5 DEF PoolInv
<1>2. CASE CallInner(w)
    <2> DEFINE c == Inner[job[w][1]]
    <2>1. /\ state[w] = "busy" /\ stage[w] = "acted"
          /\ c # None /\ HandOver(c)
          /\ sub' = [sub EXCEPT ![w] = <<c, tries[c] + 1>>]
          /\ stage' = [stage EXCEPT ![w] = "inner"]
          /\ UNCHANGED <<state, job, served, run, effects>>
        BY <1>2 DEF CallInner
    <2>2. job[w] \in Attempts
        BY <1>a, <2>1 DEF TypeOK, Employed
    <2>3. c \in Calls
        BY <2>1, <2>2, PoolAssumption DEF Attempts
    <2> HIDE DEF c
    <2>4. <<c, tries[c] + 1>> \in Attempts
        BY <2>1, <2>3, HandOverIs, NextAttemptIsNew
    <2>5. /\ stage' \in [Workers -> {"code", "acted", "inner", "returning"}]
          /\ \A v \in Workers : stage'[v] = "code" <=> stage[v] = "code"
          /\ sub' \in [Workers -> Attempts \cup {None}]
        BY <1>a, <2>1, <2>4 DEF TypeOK
    <2>6. QED
        BY <2>1, <2>3, <2>5, HandOverKeeps
<1>3. QED
    BY <1>1, <1>2

\* A worker that is through with its request, or lost, has no job any more.
LEMMA LeavesKeeps ==
    ASSUME PoolInv, NEW w \in Workers, state[w] = "busy",
           NEW how \in {"ok", "bad", "timeout"}, End(job[w], how),
           NEW x \in {"idle", "exited"}, state' = [state EXCEPT ![w] = x],
           served' \in [Workers -> 0..(MaxRequests - 1)],
           job' = [job EXCEPT ![w] = None],
           stage' = [stage EXCEPT ![w] = "code"],
           run' = [run EXCEPT ![w] = 0],
           sub' = [sub EXCEPT ![w] = None],
           UNCHANGED <<tries, queue, effects>>
    PROVE  PoolInv'
<1>a. TypeOK /\ Numbered /\ Employed /\ OnePlace /\ Acted /\ Clocks
    BY DEF PoolInv
<1>b. job[w] \in Attempts /\ job[w] # None
    BY <1>a DEF TypeOK, Employed
<1>c. /\ conn' \in [Attempts -> {"none", "waiting", "ok", "bad", "timeout"}]
      /\ wait' \in [Attempts -> 0..NginxTimeout]
      /\ flushed' \in [Attempts -> BOOLEAN]
      /\ \A b \in Attempts :
            \/ conn'[b] = conn[b] /\ wait'[b] = wait[b] /\ flushed'[b] = flushed[b]
            \/ b = job[w] /\ conn[b] = "waiting" /\ conn'[b] = how
    BY <1>a, <1>b, EndIs
<1>d. /\ \A v \in Workers : state'[v] = IF v = w THEN x ELSE state[v]
      /\ \A v \in Workers : job'[v] = IF v = w THEN None ELSE job[v]
      /\ \A v \in Workers : v # w => stage'[v] = stage[v] /\ run'[v] = run[v]
    BY <1>a DEF TypeOK
<1>e. \A v \in Workers : v # w /\ state[v] = "busy" => job[v] \in Attempts /\ job[v] # job[w]
    BY <1>a, <1>b DEF TypeOK, Employed, OnePlace
<1>f. \A i \in 1..Len(queue) : queue[i] \in Attempts /\ queue[i] # job[w] /\ queue[i] # None
    BY <1>a, PoolAssumption DEF TypeOK, OnePlace
<1>1. TypeOK'
    <2>1. 0 \in 0..TerminateTimeout
        BY TimeoutAssumption
    <2>2. /\ state' \in [Workers -> {"absent", "idle", "busy", "exited"}]
          /\ job' \in [Workers -> Attempts \cup {None}]
          /\ stage' \in [Workers -> {"code", "acted", "inner", "returning"}]
        BY <1>a DEF TypeOK
    <2>3. /\ run' \in [Workers -> 0..TerminateTimeout]
          /\ sub' \in [Workers -> Attempts \cup {None}]
        BY <1>a, <2>1 DEF TypeOK
    <2>4. QED
        BY <1>a, <1>c, <2>2, <2>3 DEF TypeOK
<1>2. Numbered'
    BY <1>a, <1>c DEF Numbered, Attempts
<1>3. Employed'
    BY <1>a, <1>d DEF Employed
<1>4. OnePlace'
    <2>1. \A v \in Workers : state'[v] = "busy" => conn'[job'[v]] \in {"waiting", "timeout"}
        <3> SUFFICES ASSUME NEW v \in Workers, state'[v] = "busy"
                     PROVE  conn'[job'[v]] \in {"waiting", "timeout"}
            OBVIOUS
        <3>1. v # w /\ state[v] = "busy" /\ job'[v] = job[v]
            BY <1>d
        <3>2. conn[job[v]] \in {"waiting", "timeout"}
            BY <1>a, <3>1 DEF OnePlace
        <3>3. conn'[job[v]] = conn[job[v]]
            BY <1>c, <1>e, <3>1
        <3>4. QED
            BY <3>1, <3>2, <3>3
    <2>2. \A i \in 1..Len(queue') : conn'[queue'[i]] \in {"waiting", "timeout"}
        BY <1>a, <1>c, <1>f DEF OnePlace
    <2>3. /\ \A u, v \in Workers : job'[u] = job'[v] /\ job'[u] # None => u = v
          /\ \A v \in Workers, i \in 1..Len(queue') : job'[v] # queue'[i]
        BY <1>a, <1>d, <1>f DEF OnePlace
    <2>4. QED
        BY <1>a, <2>1, <2>2, <2>3 DEF OnePlace
<1>5. Acted'
    <2>1. \A a \in Attempts : conn'[a] = "none" => effects'[a] = 0
        BY <1>a, <1>c DEF Acted
    <2>2. \A v \in Workers :
              state'[v] = "busy" /\ stage'[v] = "code" => effects'[job'[v]] = 0
        BY <1>a, <1>d DEF Acted
    <2>3. QED
        BY <1>a, <2>1, <2>2 DEF Acted
<1>6. Clocks'
    BY <1>a, <1>c, <1>d, <1>e DEF Clocks
<1>7. QED
    BY <1>1, <1>2, <1>3, <1>4, <1>5, <1>6 DEF PoolInv

\* The worker that Free leaves idle or gone
LEMMA FreeIs ==
    ASSUME TypeOK, NEW w \in Workers, Free(w)
    PROVE  /\ \E x \in {"idle", "exited"} : state' = [state EXCEPT ![w] = x]
           /\ served' \in [Workers -> 0..(MaxRequests - 1)]
           /\ job' = [job EXCEPT ![w] = None]
           /\ stage' = [stage EXCEPT ![w] = "code"]
           /\ run' = [run EXCEPT ![w] = 0]
           /\ sub' = [sub EXCEPT ![w] = None]
<1>1. served[w] \in 0..(MaxRequests - 1) /\ MaxRequests \in Nat \ {0}
    BY PoolAssumption DEF TypeOK
<1>2. CASE served[w] + 1 = MaxRequests
    <2>1. 0 \in 0..(MaxRequests - 1)
        BY <1>1
    <2>2. QED
        BY <1>2, <2>1 DEF Free, TypeOK
<1>3. CASE served[w] + 1 # MaxRequests
    <2>1. served[w] + 1 \in 0..(MaxRequests - 1)
        BY <1>1, <1>3
    <2>2. QED
        BY <1>3, <2>1 DEF Free, TypeOK
<1>4. QED
    BY <1>2, <1>3

\* A flush, and the end of a request
LEMMA FlushKeeps == ASSUME PoolInv, NEW w \in Workers, Flush(w) PROVE PoolInv'
<1>a. TypeOK /\ Numbered /\ Employed /\ OnePlace /\ Acted /\ Clocks
    BY DEF PoolInv
<1>b. state[w] = "busy" /\ job[w] \in Attempts /\ UNCHANGED <<tries, conn, queue, effects>>
    BY <1>a DEF Flush, TypeOK, Employed
<1>1. CASE conn[job[w]] = "waiting"
    <2>1. /\ flushed' = [flushed EXCEPT ![job[w]] = TRUE]
          /\ wait' = [wait EXCEPT ![job[w]] = 0]
          /\ UNCHANGED <<state, job, stage, served, run, sub>>
        BY <1>1 DEF Flush, worker
    <2>2. TypeOK'
        <3>1. 0 \in 0..NginxTimeout
            BY TimeoutAssumption
        <3>2. QED
            BY <1>a, <1>b, <2>1, <3>1 DEF TypeOK
    <2>3. Numbered' /\ Employed' /\ OnePlace' /\ Acted'
        BY <1>a, <1>b, <2>1 DEF Numbered, Employed, OnePlace, Acted
    <2>4. Clocks'
        <3>1. \A b \in Attempts : \/ flushed'[b]
                                  \/ flushed'[b] = flushed[b] /\ wait'[b] = wait[b]
            BY <1>a, <1>b, <2>1 DEF TypeOK
        <3>2. \A v \in Workers : state[v] = "busy" => job[v] \in Attempts
            BY <1>a DEF TypeOK, Employed
        <3>3. QED
            BY <1>a, <1>b, <2>1, <3>1, <3>2 DEF Clocks
    <2>5. QED
        BY <2>2, <2>3, <2>4 DEF PoolInv
<1>2. CASE conn[job[w]] # "waiting"
    <2>1. Free(w) /\ UNCHANGED <<conn, wait, flushed>>
        BY <1>b, <1>2 DEF Flush
    <2>2. End(job[w], "timeout")
        BY <1>2, <2>1 DEF End
    <2>3. QED
        BY <1>a, <1>b, <2>1, <2>2, FreeIs, LeavesKeeps
<1>3. QED
    BY <1>1, <1>2

\* The worker ends its request, and itself when it has served pm.max_requests.
LEMMA FinishKeeps == ASSUME PoolInv, NEW w \in Workers, Finish(w) PROVE PoolInv'
<1>1. TypeOK
    BY DEF PoolInv
<1>2. /\ state[w] = "busy" /\ End(job[w], "ok") /\ Free(w)
      /\ UNCHANGED <<tries, queue, effects>>
    BY DEF Finish
<1>3. QED
    BY <1>1, <1>2, FreeIs, LeavesKeeps

\* A crash, and the kill by the master
LEMMA LoseKeeps == ASSUME PoolInv, NEW w \in Workers, state[w] = "busy", Lose(w) PROVE PoolInv'
<1>1. served' \in [Workers -> 0..(MaxRequests - 1)]
    <2>1. 0 \in 0..(MaxRequests - 1)
        BY PoolAssumption
    <2>2. QED
        BY <2>1 DEF Lose, PoolInv, TypeOK
<1>2. /\ state' = [state EXCEPT ![w] = "exited"]
      /\ job' = [job EXCEPT ![w] = None]
      /\ stage' = [stage EXCEPT ![w] = "code"]
      /\ run' = [run EXCEPT ![w] = 0]
      /\ sub' = [sub EXCEPT ![w] = None]
      /\ End(job[w], "bad")
      /\ UNCHANGED <<tries, queue, effects>>
    BY DEF Lose
<1>3. QED
    BY <1>1, <1>2, LeavesKeeps

\* The master replaces, retires and forks only workers without a job.
LEMMA MasterKeeps ==
    ASSUME PoolInv, NEW w \in Workers, Bury(w) \/ Retire(w) \/ Fork(w)
    PROVE  PoolInv'
<1>a. TypeOK /\ Numbered /\ Employed /\ OnePlace /\ Acted /\ Clocks
    BY DEF PoolInv
<1>1. /\ state[w] # "busy"
      /\ state' = [state EXCEPT ![w] = "idle"] \/ state' = [state EXCEPT ![w] = "absent"]
      /\ served' = served \/ served' = [served EXCEPT ![w] = 0]
      /\ UNCHANGED <<tries, conn, wait, flushed, queue, job, stage, run, sub, effects>>
    BY DEF Bury, Retire, Fork, callers
<1>2. \A v \in Workers : state'[v] = "busy" <=> state[v] = "busy"
    BY <1>a, <1>1 DEF TypeOK
<1>3. TypeOK'
    <2>1. 0 \in 0..(MaxRequests - 1)
        BY PoolAssumption
    <2>2. QED
        BY <1>a, <1>1, <2>1 DEF TypeOK
<1>4. Numbered' /\ Employed' /\ OnePlace' /\ Acted' /\ Clocks'
    BY <1>a, <1>1, <1>2 DEF Numbered, Employed, OnePlace, Acted, Clocks
<1>5. QED
    BY <1>3, <1>4 DEF PoolInv

\* Both clocks go on together.
LEMMA TickKeeps == ASSUME PoolInv, Tick PROVE PoolInv'
<1>a. TypeOK /\ Numbered /\ Employed /\ OnePlace /\ Acted /\ Clocks
    BY DEF PoolInv
<1>b. UNCHANGED <<tries, conn, flushed, queue, state, job, stage, served, sub, effects>>
    BY DEF Tick
<1>c. /\ wait' = [a \in Attempts |-> IF conn[a] = "waiting" THEN wait[a] + 1 ELSE wait[a]]
      /\ run' = [w \in Workers |-> IF state[w] = "busy" THEN run[w] + 1 ELSE run[w]]
    BY DEF Tick
<1>1. wait' \in [Attempts -> 0..NginxTimeout]
    <2>1. \A a \in Attempts : conn[a] = "waiting" => wait[a] < NginxTimeout
        BY DEF Tick
    <2>2. QED
        BY <1>a, <1>c, <2>1, TimeoutAssumption DEF TypeOK
<1>2. run' \in [Workers -> 0..TerminateTimeout]
    <2>1. \A w \in Workers : state[w] = "busy" => run[w] < TerminateTimeout
        BY DEF Tick
    <2>2. QED
        BY <1>a, <1>c, <2>1, TimeoutAssumption DEF TypeOK
<1>3. TypeOK'
    BY <1>a, <1>b, <1>1, <1>2 DEF TypeOK
<1>4. Numbered' /\ Employed' /\ OnePlace' /\ Acted'
    BY <1>a, <1>b DEF Numbered, Employed, OnePlace, Acted
<1>5. Clocks'
    <2> SUFFICES ASSUME NEW w \in Workers, state[w] = "busy", conn[job[w]] = "waiting",
                        ~flushed[job[w]]
                 PROVE  run'[w] <= wait'[job[w]]
        BY <1>b DEF Clocks
    <2>1. job[w] \in Attempts
        BY <1>a DEF TypeOK, Employed
    <2>2. run[w] <= wait[job[w]]
        BY <1>a DEF Clocks
    <2>3. run'[w] = run[w] + 1 /\ wait'[job[w]] = wait[job[w]] + 1
        BY <1>c, <2>1
    <2>4. run[w] \in Nat /\ wait[job[w]] \in Nat
        BY <1>a, <2>1, TimeoutAssumption DEF TypeOK
    <2>5. QED
        BY <2>2, <2>3, <2>4
<1>6. QED
    BY <1>3, <1>4, <1>5 DEF PoolInv

-----------------------------------------------------------------------------
(***************************************************************************)
(* The invariant holds.                                                     *)
(***************************************************************************)

\* A pool that has just started satisfies the invariant.
LEMMA PoolInit == Init => PoolInv
<1> SUFFICES ASSUME Init PROVE PoolInv
    OBVIOUS
<1>1. TypeOK
    <2>1. 0 \in 0..MaxTries /\ 0 \in 0..NginxTimeout /\ 0 \in 0..(MaxRequests - 1)
          /\ 0 \in 0..TerminateTimeout
        BY PoolAssumption, TimeoutAssumption
    <2>2. queue \in Seq(Attempts) /\ Len(queue) <= Backlog
        BY PoolAssumption DEF Init
    <2>3. QED
        BY <2>1, <2>2 DEF Init, TypeOK
<1>2. Numbered
    BY PoolAssumption DEF Init, Numbered, Attempts
<1>3. Employed /\ OnePlace
    BY DEF Init, Employed, OnePlace
<1>4. Acted
    BY DEF Init, Acted
<1>5. Clocks
    BY DEF Init, Clocks
<1>6. QED
    BY <1>1, <1>2, <1>3, <1>4, <1>5 DEF PoolInv

\* Every step of nginx, its clients, the workers, the master and the clock keeps
\* the invariant.
LEMMA PoolStep == PoolInv /\ [Next]_vars => PoolInv'
<1> SUFFICES ASSUME PoolInv, [Next]_vars PROVE PoolInv'
    OBVIOUS
<1>1. ASSUME NEW c \in Calls, Request(c) PROVE PoolInv'
    <2>1. HandOver(c) /\ UNCHANGED <<state, job, stage, served, run, sub, effects>>
        BY <1>1 DEF Request, worker
    <2>2. QED
        BY <2>1, HandOverKeeps DEF PoolInv, TypeOK
<1>2. ASSUME NEW a \in Attempts, GiveUp(a) \/ Abort(a) PROVE PoolInv'
    BY <1>2, GivesUpKeeps DEF GiveUp, Abort
<1>3. ASSUME NEW w \in Workers, Accept(w) \/ Handler(w) PROVE PoolInv'
    BY <1>3, AcceptsNew, ActKeeps, MovesOnKeeps, FlushKeeps, FinishKeeps DEF Handler
<1>4. ASSUME NEW w \in Workers, Crash(w) \/ Terminate(w) PROVE PoolInv'
    BY <1>4, LoseKeeps DEF Crash, Terminate
<1>5. ASSUME NEW w \in Workers, Bury(w) \/ Retire(w) \/ Fork(w) PROVE PoolInv'
    BY <1>5, MasterKeeps
<1>6. CASE Tick
    BY <1>6, TickKeeps
<1>7. CASE UNCHANGED vars
    BY <1>7 DEF vars, callers, worker, PoolInv, TypeOK, Numbered, Employed, OnePlace, Acted, Clocks
<1>8. QED
    BY <1>1, <1>2, <1>3, <1>4, <1>5, <1>6, <1>7 DEF Next

\* The invariant holds in every behaviour of the pool.
LEMMA PoolInvariant == Spec => []PoolInv
BY PoolInit, PoolStep, PTL DEF Spec

-----------------------------------------------------------------------------
(***************************************************************************)
(* Theorems.                                                                *)
(***************************************************************************)

\* The backlog stays within its limit, no clock passes its timeout and no worker
\* serves more than pm.max_requests, whatever the order of requests and faults.
THEOREM PoolTypes == Spec => []TypeOK
<1>1. PoolInv => TypeOK
    BY DEF PoolInv
<1>2. QED
    BY <1>1, PoolInvariant, PTL

\* No attempt is with two workers, twice in the backlog, or in both places.
THEOREM AttemptsHaveOnePlace == Spec => []OnePlace
<1>1. PoolInv => OnePlace
    BY DEF PoolInv
<1>2. QED
    BY <1>1, PoolInvariant, PTL

\* Because nginx's timeout is the shorter one and starts first, the kill of
\* request_terminate_timeout hits nobody nginx still keeps waiting, except behind
\* a handler that had flushed.
THEOREM KillsAreAfterTheReport == Spec => KillHitsNobodyWaiting
<1>1. PoolInv /\ [Next]_vars
      => [\A w \in Workers : Terminate(w) /\ conn[job[w]] = "waiting" => flushed[job[w]]]_vars
    <2> SUFFICES ASSUME PoolInv, NEW w \in Workers, Terminate(w), conn[job[w]] = "waiting",
                        ~flushed[job[w]]
                 PROVE  FALSE
        OBVIOUS
    <2>1. state[w] = "busy" /\ run[w] = TerminateTimeout
        BY DEF Terminate
    <2>2. run[w] <= wait[job[w]]
        BY <2>1 DEF PoolInv, Clocks
    <2>3. wait[job[w]] \in 0..NginxTimeout
        BY <2>1 DEF PoolInv, TypeOK, Employed
    <2>4. QED
        BY <2>1, <2>2, <2>3, TimeoutAssumption
<1>2. QED
    BY <1>1, PoolInvariant, PTL DEF Spec, KillHitsNobodyWaiting

-----------------------------------------------------------------------------
(***************************************************************************)
(* The pool implements HandlerCalls: what a caller may rely on.             *)
(***************************************************************************)

\* One connection changes, and so does what its client knows.
LEMMA ToldChanges ==
    ASSUME TypeOK, NEW a \in Attempts, NEW how, conn' = [conn EXCEPT ![a] = how]
    PROVE  Told' = [Told EXCEPT ![a] = Knows(how)] /\ Told[a] = Knows(conn[a])
BY DEF Told, TypeOK

\* What clients know is unchanged as long as the connections are.
LEMMA ToldStays == ASSUME conn' = conn PROVE Told' = Told
BY DEF Told

\* nginx hands an attempt over: the client has asked, or is refused.
LEMMA HandOverAsks ==
    ASSUME PoolInv, NEW c \in Calls, HandOver(c), UNCHANGED effects
    PROVE  Promise!Next
<1> DEFINE a == <<c, tries[c] + 1>>
<1>a. TypeOK
    BY DEF PoolInv
<1>1. tries[c] < MaxTries /\ (conn' = [conn EXCEPT ![a] = "waiting"]
                              \/ conn' = [conn EXCEPT ![a] = "bad"])
    BY HandOverIs
<1>2. a \in Attempts /\ conn[a] = "none"
    BY <1>1, NextAttemptIsNew
<1> HIDE DEF a
<1>3. \/ Told' = [Told EXCEPT ![a] = Knows("waiting")]
      \/ Told' = [Told EXCEPT ![a] = Knows("bad")]
    BY <1>a, <1>1, <1>2, ToldChanges
<1>4. Told[a] = "none" /\ Knows("waiting") = "asked" /\ Knows("bad") = "failed"
    BY <1>2 DEF Told, Knows
<1>5. Promise!Ask(a)
    BY <1>3, <1>4 DEF Promise!Ask
<1>6. QED
    BY <1>2, <1>5 DEF Promise!Next

\* A connection ends, with an answer or with a failure.
LEMMA EndTells ==
    ASSUME PoolInv, NEW a \in Attempts, NEW how \in {"ok", "bad", "timeout"}, End(a, how),
           UNCHANGED effects
    PROVE  Promise!Next \/ UNCHANGED <<Told, effects>>
<1>a. TypeOK
    BY DEF PoolInv
<1>1. CASE conn[a] = "waiting"
    <2>1. Told' = [Told EXCEPT ![a] = Knows(how)] /\ Told[a] = "asked"
        BY <1>1, <1>a, ToldChanges DEF End, Knows
    <2>2. CASE how = "ok"
        BY <2>1, <2>2 DEF Promise!Next, Promise!Answer, Knows
    <2>3. CASE how \in {"bad", "timeout"}
        BY <2>1, <2>3 DEF Promise!Next, Promise!Fail, Knows
    <2>4. QED
        BY <2>2, <2>3
<1>2. CASE conn[a] # "waiting"
    BY <1>2, ToldStays DEF End
<1>3. QED
    BY <1>1, <1>2

\* Every step of the pool is a step of what callers rely on, or none of it.
LEMMA PoolStepPromised == PoolInv /\ [Next]_vars => [Promise!Next]_<<Told, effects>>
<1> SUFFICES ASSUME PoolInv, [Next]_vars
             PROVE  Promise!Next \/ UNCHANGED <<Told, effects>>
    OBVIOUS
<1>a. TypeOK /\ Employed /\ OnePlace /\ Acted
    BY DEF PoolInv
<1>b. CASE UNCHANGED <<conn, effects>>
    BY <1>b, ToldStays
<1>c. \A w \in Workers : state[w] = "busy" => job[w] \in Attempts
    BY <1>a DEF TypeOK, Employed
<1>1. ASSUME NEW c \in Calls, Request(c) PROVE Promise!Next
    BY <1>1, HandOverAsks DEF Request
<1>2. ASSUME NEW a \in Attempts, GiveUp(a) \/ Abort(a)
      PROVE  Promise!Next \/ UNCHANGED <<Told, effects>>
    BY <1>2, EndTells DEF GiveUp, Abort
<1>3. ASSUME NEW w \in Workers, Act(w) PROVE Promise!Next
    <2>1. /\ state[w] = "busy" /\ stage[w] = "code"
          /\ effects' = [effects EXCEPT ![job[w]] = @ + 1]
          /\ conn' = conn
        BY <1>3 DEF Act, callers
    <2>2. job[w] \in Attempts /\ effects[job[w]] = 0 /\ conn[job[w]] \in {"waiting", "timeout"}
        BY <1>a, <1>c, <2>1 DEF Acted, OnePlace
    <2>3. effects' = [effects EXCEPT ![job[w]] = 1]
        BY <2>1, <2>2
    <2>4. Told[job[w]] \in {"asked", "failed"} /\ Told' = Told
        BY <2>1, <2>2, ToldStays DEF Told, Knows
    <2>5. Promise!Perform(job[w])
        BY <2>2, <2>3, <2>4 DEF Promise!Perform
    <2>6. QED
        BY <2>2, <2>5 DEF Promise!Next
<1>4. ASSUME NEW w \in Workers, CallInner(w) PROVE Promise!Next
    <2> DEFINE c == Inner[job[w][1]]
    <2>1. state[w] = "busy" /\ c # None /\ HandOver(c) /\ effects' = effects
        BY <1>4 DEF CallInner
    <2>2. c \in Calls
        BY <1>c, <2>1, PoolAssumption DEF Attempts
    <2> HIDE DEF c
    <2>3. QED
        BY <2>1, <2>2, HandOverAsks
<1>5. ASSUME NEW w \in Workers, Finish(w)
      PROVE  Promise!Next \/ UNCHANGED <<Told, effects>>
    <2>1. state[w] = "busy" /\ End(job[w], "ok") /\ UNCHANGED effects
        BY <1>5 DEF Finish
    <2>2. QED
        BY <1>c, <2>1, EndTells
<1>6. ASSUME NEW w \in Workers, Crash(w) \/ Terminate(w)
      PROVE  Promise!Next \/ UNCHANGED <<Told, effects>>
    <2>1. state[w] = "busy" /\ End(job[w], "bad") /\ UNCHANGED effects
        BY <1>6 DEF Crash, Terminate, Lose
    <2>2. QED
        BY <1>c, <2>1, EndTells
<1>7. ASSUME NEW w \in Workers,
             \/ Accept(w) \/ Decline(w) \/ Answered(w) \/ InnerOver(w) \/ Flush(w)
             \/ Bury(w) \/ Retire(w) \/ Fork(w)
      PROVE  UNCHANGED <<Told, effects>>
    <2>1. UNCHANGED <<conn, effects>>
        BY <1>7 DEF Accept, Decline, Answered, InnerOver, Flush, Bury, Retire, Fork, callers
    <2>2. QED
        BY <2>1, ToldStays
<1>8. CASE Tick
    BY <1>8, <1>b DEF Tick
<1>9. CASE UNCHANGED vars
    BY <1>9, <1>b DEF vars, callers
<1>10. QED
    BY <1>1, <1>2, <1>3, <1>4, <1>5, <1>6, <1>7, <1>8, <1>9 DEF Next, Handler

\* With queue, timeouts, kills, recycling and retries an attempt acts at most
\* once in Deep and never unasked, reports are final, and an attempt that was
\* answered does not act afterwards: Pool implements HandlerCalls.
THEOREM PoolKeepsItsPromise == Spec => AtMostOncePerAttempt
<1>1. Init => Promise!Init
    BY DEF Init, Promise!Init, Told, Knows
<1>2. QED
    BY <1>1, PoolStepPromised, PoolInvariant, PTL
       DEF Spec, AtMostOncePerAttempt, Promise!Spec
=============================================================================
