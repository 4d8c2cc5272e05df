---------------------- MODULE DeepClientWrapperProofs ----------------------
(***************************************************************************)
(* Proofs about DeepClientWrapper, for every number of objects and every    *)
(* set of tokens and urls.                                                  *)
(***************************************************************************)
EXTENDS DeepClientWrapper, TLAPS

-----------------------------------------------------------------------------
(***************************************************************************)
(* Typing.                                                                  *)
(***************************************************************************)

\* The credentials a request is sent with are credentials.
LEMMA MakeDeepClientType ==
    ASSUME TypeOK, NEW c \in Cred
    PROVE  MakeDeepClient(c) \in Cred
BY DEF TypeOK, MakeDeepClient

\* The blank credentials of a new object are credentials.
LEMMA BlankType == Blank \in Cred
BY EmptyAssumption DEF Blank, Cred

\* Every outcome the actions build has the type of outcome.
LEMMA QuietType ==
    ASSUME NEW how \in Hows
    PROVE  Quiet(how) \in [how : Hows, own : Cred \cup {None}, sentAs : Cred \cup {None}]
BY DEF Quiet, Outcome

\* One step of any operation of the class keeps the types.
LEMMA TypeStep == TypeOK /\ [Next]_vars => TypeOK'
<1> SUFFICES ASSUME TypeOK, [Next]_vars PROVE TypeOK'
    OBVIOUS
<1> USE DEF TypeOK
<1>1. CASE Respawn
    BY <1>1, BlankType, QuietType DEF Respawn, Hows
<1>2. ASSUME NEW o \in Objects, Create(o) PROVE TypeOK'
    BY <1>2, BlankType, QuietType DEF Create, Hows
<1>3. ASSUME NEW o \in Objects, CreateImportFails(o) PROVE TypeOK'
    BY <1>3 DEF CreateImportFails
<1>4. ASSUME NEW o \in Objects, NEW t \in Tokens \cup {None}, NEW u \in Urls \cup {None},
             Construct(o, t, u)
      PROVE  TypeOK'
    <2>1. CASE t = None \/ u = None
        BY <1>4, <2>1, QuietType DEF Construct, Hows
    <2>2. CASE ~(t = None \/ u = None)
        <3>1. [token |-> t, url |-> u] \in Cred
            BY <2>2 DEF Cred
        <3>2. QED
            BY <1>4, <2>2, <3>1, QuietType DEF Construct, Hows
    <2>3. QED
        BY <2>1, <2>2
<1>5. ASSUME NEW o \in Objects, NEW p \in Objects, Clone(o, p) PROVE TypeOK'
    BY <1>5, QuietType DEF Clone, Hows
<1>6. ASSUME NEW o \in Objects, Destroy(o) PROVE TypeOK'
    <2>1. FinalizedModules \in [Objects -> {"null", "valid", "dangling"}]
        BY DEF FinalizedModules
    <2>2. QED
        BY <1>6, <2>1, BlankType, QuietType DEF Destroy, Hows
<1>7. ASSUME NEW o \in Objects, CallTooFew(o) PROVE TypeOK'
    BY <1>7, QuietType DEF CallTooFew, Hows
<1>8. ASSUME NEW o \in Objects, CallUnconvertible(o) PROVE TypeOK'
    BY <1>8, QuietType DEF CallUnconvertible, Hows
<1>9. ASSUME NEW o \in Objects, CallDangling(o) PROVE TypeOK'
    BY <1>9, QuietType DEF CallDangling, Hows
<1>10. ASSUME NEW o \in Objects, NEW m \in Methods, CallRaises(o, m) PROVE TypeOK'
    BY <1>10, QuietType DEF CallRaises, Hows, getPythonErrorText
<1>11. ASSUME NEW o \in Objects, NEW m \in Methods, CallEscapes(o, m) PROVE TypeOK'
    <2>1. MakeDeepClient(cred[o]) \in Cred
        BY MakeDeepClientType
    <2>2. QED
        BY <1>11, <2>1 DEF CallEscapes, Outcome, Hows, getPythonErrorText
<1>12. ASSUME NEW o \in Objects, NEW m \in Methods, NEW k \in Kinds, CallAnswers(o, m, k)
       PROVE  TypeOK'
    <2>1. MakeDeepClient(cred[o]) \in Cred
        BY MakeDeepClientType
    <2>2. k # "surrogates" => HowOf(k) \in Hows
        BY DEF Kinds, HowOf, Returns, Hows, getPythonErrorText
    <2>3. CASE k = "surrogates"
        BY <1>12, <2>1, <2>3 DEF CallAnswers
    <2>4. CASE k # "surrogates"
        <3>1. pyerr' \in BOOLEAN
            BY <1>12, <2>4, Zenon DEF CallAnswers
        <3>2. QED
            BY <1>12, <2>1, <2>2, <2>4, <3>1 DEF CallAnswers, Outcome
    <2>5. QED
        BY <2>3, <2>4
<1>13. CASE UNCHANGED vars
    BY <1>13 DEF vars
<1>14. QED
    BY <1>1, <1>2, <1>3, <1>4, <1>5, <1>6, <1>7, <1>8, <1>9, <1>10, <1>11, <1>12, <1>13
       DEF Next, Call

\* The initial state of a worker process has the types.
LEMMA TypeInit == Init => TypeOK
BY BlankType, QuietType DEF Init, TypeOK, Hows

\* TypeOK holds under every use PHP code can make of the class.
THEOREM TypeCorrect == Spec => []TypeOK
BY TypeInit, TypeStep, PTL DEF Spec

-----------------------------------------------------------------------------
(***************************************************************************)
(* What holds whatever PHP code does with the class.                        *)
(***************************************************************************)

\* The inductive invariant: an interpreter only runs while some wrapper lives,
\* a module object is only valid in a running interpreter, a cached client is
\* complete and lives in one, a pending error comes after a client, and what
\* was sent was sent by such a client.
AnyInv ==
    /\ TypeOK
    /\ up => \E o \in Objects : Live(o)
    /\ \A o \in Objects : module[o] = "valid" => up
    /\ client # None => up /\ client.token # Empty /\ client.url # Empty
    /\ pyerr => client # None
    /\ NeverAnonymous

\* A client that make_deep_client hands out has a token and a url.
LEMMA MakeDeepClientComplete ==
    ASSUME AnyInv, NEW c \in Cred, ~MakeDeepClientRaises(c)
    PROVE  /\ MakeDeepClient(c).token # Empty
           /\ MakeDeepClient(c).url # Empty
           /\ MakeDeepClient(c) # None
BY NoneAssumption DEF AnyInv, MakeDeepClientRaises, MakeDeepClient, Cred

\* Nothing is sent by an operation with a quiet outcome.
LEMMA QuietSendsNothing == \A how : Quiet(how).sentAs = None
BY DEF Quiet, Outcome

\* One step of any operation of the class keeps the invariant.
LEMMA AnyStep == AnyInv /\ [Next]_vars => AnyInv'
<1> SUFFICES ASSUME AnyInv, [Next]_vars PROVE AnyInv'
    OBVIOUS
<1>0. TypeOK /\ TypeOK'
    BY TypeStep DEF AnyInv
<1> USE <1>0 DEF AnyInv, NeverAnonymous, Live
<1>1. CASE Respawn
    BY <1>1, QuietSendsNothing DEF Respawn
<1>2. ASSUME NEW o \in Objects, Create(o) PROVE AnyInv'
    <2>1. st'[o] = "created"
        BY <1>2 DEF Create, TypeOK
    <2>2. QED
        BY <1>2, <2>1, QuietSendsNothing DEF Create
<1>3. ASSUME NEW o \in Objects, CreateImportFails(o) PROVE AnyInv'
    BY <1>3 DEF CreateImportFails
<1>4. ASSUME NEW o \in Objects, NEW t \in Tokens \cup {None}, NEW u \in Urls \cup {None},
             Construct(o, t, u)
      PROVE  AnyInv'
    <2>1. st'[o] # "free"
        BY <1>4 DEF Construct, TypeOK
    <2>2. QED
        BY <1>4, <2>1, QuietSendsNothing DEF Construct
<1>5. ASSUME NEW o \in Objects, NEW p \in Objects, Clone(o, p) PROVE AnyInv'
    <2>1. st'[p] # "free"
        BY <1>5 DEF Clone, TypeOK
    <2>2. QED
        BY <1>5, <2>1, QuietSendsNothing DEF Clone
<1>6. ASSUME NEW o \in Objects, Destroy(o) PROVE AnyInv'
    <2>1. \A p \in Objects : module'[p] # "valid"
        BY <1>6 DEF Destroy, FinalizedModules, TypeOK
    <2>2. QED
        BY <1>6, <2>1, QuietSendsNothing DEF Destroy
<1>7. ASSUME NEW o \in Objects, CallTooFew(o) PROVE AnyInv'
    BY <1>7, QuietSendsNothing DEF CallTooFew
<1>8. ASSUME NEW o \in Objects, CallUnconvertible(o) PROVE AnyInv'
    <2>1. pyerr' => pyerr
        BY <1>8, Zenon DEF CallUnconvertible
    <2>2. QED
        BY <1>8, <2>1, QuietSendsNothing DEF CallUnconvertible
<1>9. ASSUME NEW o \in Objects, CallDangling(o) PROVE AnyInv'
    BY <1>9, QuietSendsNothing DEF CallDangling
<1>10. ASSUME NEW o \in Objects, NEW m \in Methods, CallRaises(o, m) PROVE AnyInv'
    BY <1>10, QuietSendsNothing DEF CallRaises
<1>11. ASSUME NEW o \in Objects, NEW m \in Methods, CallEscapes(o, m) PROVE AnyInv'
    <2>1. /\ MakeDeepClient(cred[o]).token # Empty
          /\ MakeDeepClient(cred[o]).url # Empty
          /\ MakeDeepClient(cred[o]) # None
        BY <1>11, MakeDeepClientComplete DEF CallEscapes, Sendable, TypeOK
    <2>2. QED
        BY <1>11, <2>1 DEF CallEscapes, Sendable, CanCall, Outcome
<1>12. ASSUME NEW o \in Objects, NEW m \in Methods, NEW k \in Kinds, CallAnswers(o, m, k)
       PROVE  AnyInv'
    <2>1. /\ MakeDeepClient(cred[o]).token # Empty
          /\ MakeDeepClient(cred[o]).url # Empty
          /\ MakeDeepClient(cred[o]) # None
        BY <1>12, MakeDeepClientComplete DEF CallAnswers, Sendable, TypeOK
    <2>2. QED
        BY <1>12, <2>1 DEF CallAnswers, Sendable, CanCall, Outcome
<1>13. CASE UNCHANGED vars
    BY <1>13 DEF vars
<1>14. QED
    BY <1>1, <1>2, <1>3, <1>4, <1>5, <1>6, <1>7, <1>8, <1>9, <1>10, <1>11, <1>12, <1>13
       DEF Next, Call

\* A fresh process satisfies the invariant.
LEMMA AnyInit == Init => AnyInv
BY TypeInit, QuietSendsNothing DEF Init, AnyInv, NeverAnonymous

\* The invariant holds under every use PHP code can make of the class.
LEMMA AnyInvariant == Spec => []AnyInv
BY AnyInit, AnyStep, PTL DEF Spec

\* Whatever PHP code does with the class, make_deep_client never lets a request
\* out with an empty token or an empty url.
THEOREM AnyUseSendsCredentials == Spec => []NeverAnonymous
<1>1. AnyInv => NeverAnonymous
    BY DEF AnyInv
<1>2. QED
    BY <1>1, AnyInvariant, PTL

\* A Python error left pending was left by a request, sent by the cached client
\* of the interpreter that still runs: none is carried over to the next one.
THEOREM PendingErrorIsOfThisInterpreter == Spec => []PendingErrorHasOrigin
<1>1. AnyInv => PendingErrorHasOrigin
    BY DEF AnyInv, PendingErrorHasOrigin
<1>2. QED
    BY <1>1, AnyInvariant, PTL

\* When the destructor of the last wrapper has run, neither the interpreter nor
\* its client nor a pending error is left for the next request.
THEOREM LastWrapperTakesAll == Spec => []NothingOutlivesWrappers
<1>1. AnyInv => NothingOutlivesWrappers
    BY DEF AnyInv, NothingOutlivesWrappers
<1>2. QED
    BY <1>1, AnyInvariant, PTL

\* The cached client is dropped with its interpreter and never swapped.
THEOREM ClientSticks == Spec => ClientSticksToInterpreter
<1>1. AnyInv /\ [Next]_vars
      => [client # None /\ client' # client => ~up' /\ client' = None]_vars
    <2> SUFFICES ASSUME AnyInv, Next, client # None, client' # client
                 PROVE  ~up' /\ client' = None
        BY DEF vars
    <2>1. up
        BY DEF AnyInv
    <2>2. CASE Respawn
        BY <2>2 DEF Respawn
    <2>3. ASSUME NEW o \in Objects, Create(o) PROVE FALSE
        BY <2>1, <2>3 DEF Create
    <2>4. ASSUME NEW o \in Objects, Destroy(o) PROVE ~up' /\ client' = None
        BY <2>4 DEF Destroy
    <2>5. ASSUME NEW o \in Objects, Call(o) PROVE FALSE
        BY <2>5 DEF Call, CallTooFew, CallUnconvertible, CallDangling, CallRaises,
                    CallEscapes, CallAnswers, MakeDeepClient
    <2>6. ASSUME NEW o \in Objects,
                 \/ CreateImportFails(o)
                 \/ \E t \in Tokens \cup {None}, u \in Urls \cup {None} : Construct(o, t, u)
                 \/ \E p \in Objects : Clone(o, p)
          PROVE  FALSE
        BY <2>6 DEF CreateImportFails, Construct, Clone
    <2>7. QED
        BY <2>2, <2>3, <2>4, <2>5, <2>6 DEF Next
<1>2. Init => AnyInv
    BY AnyInit
<1>3. QED
    BY <1>1, <1>2, AnyStep, PTL DEF Spec, ClientSticksToInterpreter

-----------------------------------------------------------------------------
(***************************************************************************)
(* What holds as long as PHP code keeps to one wrapper at a time.           *)
(***************************************************************************)

\* The inductive invariant.  The last two parts of SoleState carry the argument: as
\* long as a wrapper is not constructed its credentials are blank, so that no
\* client can be made for it; once there is a client, it is the wrapper's own.
SoleState ==
    /\ \A o, p \in Objects : Live(o) /\ Live(p) => o = p
    /\ \A o \in Objects : Live(o) => up /\ module[o] = "valid"
    /\ outcome.sentAs # None => outcome.sentAs = outcome.own
    /\ \A o \in Objects : st[o] = "created" => cred[o] = Blank
    /\ client # None => \A o \in Objects : Live(o) => st[o] = "ready" /\ cred[o] = client

SoleInv == AnyInv /\ (sole => SoleState)

\* A request can only be sent for a constructed wrapper, by the client made of
\* that wrapper's own credentials.
LEMMA SoleSends ==
    ASSUME AnyInv, SoleState, NEW o \in Objects, NEW m \in Methods, Sendable(o, m)
    PROVE  st[o] = "ready" /\ MakeDeepClient(cred[o]) = cred[o]
<1>1. Live(o) /\ ~MakeDeepClientRaises(cred[o])
    BY DEF Sendable, CanCall
<1>2. CASE client # None
    BY <1>1, <1>2 DEF SoleState, MakeDeepClient
<1>3. CASE client = None
    <2>1. cred[o] # Blank
        BY <1>1, <1>3 DEF MakeDeepClientRaises, Blank
    <2>2. st[o] = "ready"
        BY <1>1, <2>1 DEF SoleState, AnyInv, TypeOK, Live
    <2>3. QED
        BY <1>3, <2>2 DEF MakeDeepClient
<1>4. QED
    BY <1>2, <1>3

\* A step after which PHP code still counts as disciplined ends in such a state.
LEMMA SoleStep == SoleInv /\ [Next]_vars => SoleInv'
<1> SUFFICES ASSUME SoleInv, [Next]_vars, sole' PROVE SoleState'
    BY AnyStep DEF SoleInv
<1>0. AnyInv /\ AnyInv'
    BY AnyStep DEF SoleInv
<1>a. TypeOK /\ TypeOK'
    BY <1>0 DEF AnyInv
<1>b. sole => SoleState
    BY DEF SoleInv
<1> USE <1>0, <1>a
<1>1. CASE Respawn
    BY <1>1, QuietSendsNothing DEF Respawn, SoleState, Live
<1>2. ASSUME NEW o \in Objects, Create(o) PROVE SoleState'
    <2>1. sole /\ \A p \in Objects : ~Live(p)
        BY <1>2 DEF Create, NoneBut, Live
    <2>2. ~up /\ client = None
        BY <2>1 DEF AnyInv
    <2>3. \A p \in Objects : st'[p] = IF p = o THEN "created" ELSE "free"
        BY <1>2, <2>1 DEF Create, TypeOK, Live
    <2>4. module'[o] = "valid" /\ cred'[o] = Blank
        BY <1>2 DEF Create, TypeOK
    <2>5. QED
        BY <1>2, <2>2, <2>3, <2>4, QuietSendsNothing DEF Create, SoleState, Live
<1>3. ASSUME NEW o \in Objects, CreateImportFails(o) PROVE SoleState'
    BY <1>3, <1>b DEF CreateImportFails, SoleState, Live
<1>4. ASSUME NEW o \in Objects, NEW t \in Tokens \cup {None}, NEW u \in Urls \cup {None},
             Construct(o, t, u)
      PROVE  SoleState'
    <2>1. sole /\ st[o] = "created"
        BY <1>4 DEF Construct
    <2>2. SoleState
        BY <2>1, <1>b
    <2>3. client = None
        BY <2>1, <2>2 DEF SoleState, Live
    <2>4. \A p \in Objects : p # o => st[p] = "free"
        BY <2>1, <2>2 DEF SoleState, Live
    <2>5. \A p \in Objects : p # o => st'[p] = "free"
        BY <1>4, <2>4 DEF Construct, TypeOK
    <2>6. st'[o] = "created" => cred'[o] = cred[o]
        BY <1>4 DEF Construct, TypeOK
    <2>7. QED
        BY <1>4, <2>1, <2>2, <2>3, <2>5, <2>6, QuietSendsNothing
           DEF Construct, SoleState, Live
<1>5. ASSUME NEW o \in Objects, NEW p \in Objects, Clone(o, p) PROVE SoleState'
    BY <1>5 DEF Clone
<1>6. ASSUME NEW o \in Objects, Destroy(o) PROVE SoleState'
    <2>1. NoneBut(o)
        BY <1>6, <1>b DEF Destroy, NoneBut, SoleState
    <2>2. \A p \in Objects : st'[p] = "free"
        BY <1>6, <2>1 DEF Destroy, NoneBut, Live, TypeOK
    <2>3. client' = None /\ outcome'.sentAs = None
        BY <1>6, QuietSendsNothing DEF Destroy
    <2>4. QED
        BY <2>2, <2>3 DEF SoleState, Live
<1>7. ASSUME NEW o \in Objects, Call(o) PROVE SoleState'
    <2>1. sole /\ SoleState
        BY <1>7, <1>b DEF Call, CallTooFew, CallUnconvertible, CallDangling, CallRaises,
                          CallEscapes, CallAnswers
    <2>2. CASE CallTooFew(o)
        BY <2>1, <2>2, QuietSendsNothing DEF CallTooFew, SoleState, Live
    <2>3. CASE CallUnconvertible(o)
        BY <2>1, <2>3, QuietSendsNothing DEF CallUnconvertible, SoleState, Live
    <2>4. CASE CallDangling(o)
        BY <2>1, <2>4 DEF CallDangling, SoleState
    <2>5. ASSUME NEW m \in Methods, CallRaises(o, m) PROVE SoleState'
        BY <2>1, <2>5, QuietSendsNothing DEF CallRaises, SoleState, Live
    <2>6. ASSUME NEW m \in Methods, CallEscapes(o, m) PROVE SoleState'
        <3>1. st[o] = "ready" /\ MakeDeepClient(cred[o]) = cred[o]
            BY <2>1, <2>6, SoleSends DEF CallEscapes
        <3>2. QED
            BY <2>1, <2>6, <3>1 DEF CallEscapes, Outcome, SoleState, Live
    <2>7. ASSUME NEW m \in Methods, NEW k \in Kinds, CallAnswers(o, m, k) PROVE SoleState'
        <3>1. st[o] = "ready" /\ MakeDeepClient(cred[o]) = cred[o]
            BY <2>1, <2>7, SoleSends DEF CallAnswers
        <3>2. QED
            BY <2>1, <2>7, <3>1 DEF CallAnswers, Outcome, SoleState, Live
    <2>8. QED
        BY <1>7, <2>2, <2>3, <2>4, <2>5, <2>6, <2>7 DEF Call
<1>8. CASE UNCHANGED vars
    BY <1>8, <1>b DEF vars, SoleState, Live
<1>9. QED
    BY <1>1, <1>2, <1>3, <1>4, <1>5, <1>6, <1>7, <1>8 DEF Next

\* The invariant holds: a fresh process has no wrapper at all.
LEMMA SoleInvariant == Spec => []SoleInv
<1>1. Init => SoleInv
    BY AnyInit, QuietSendsNothing DEF Init, SoleInv, SoleState, Live
<1>2. QED
    BY <1>1, SoleStep, PTL DEF Spec

\* As long as PHP code keeps to one wrapper at a time, and again as soon as it
\* starts afresh with none, a living wrapper's module object is one of the
\* running interpreter: no call goes through a dangling pointer.
THEOREM SoleUseIsValid == Spec => []SoleModuleValid
<1>1. SoleInv => SoleModuleValid
    BY DEF SoleInv, SoleState, SoleModuleValid
<1>2. QED
    BY <1>1, SoleInvariant, PTL

\* Under the same discipline every request acts as the wrapper it was sent for,
\* although the client is cached for the whole interpreter.
THEOREM SoleUseActsAsOwner == Spec => []SoleActsAsOwner
<1>1. SoleInv => SoleActsAsOwner
    BY DEF SoleInv, SoleState, SoleActsAsOwner
<1>2. QED
    BY <1>1, SoleInvariant, PTL
=============================================================================
