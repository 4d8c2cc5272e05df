------------------------ MODULE RequestHandlerProofs ------------------------
(***************************************************************************)
(* Proofs about RequestHandler, for any number of printed segments, output  *)
(* buffers, error handlers and steps of code that runs after the handler,    *)
(* whatever fails around it.                                                 *)
(***************************************************************************)
EXTENDS RequestHandler, SequenceTheorems, TLAPS

-----------------------------------------------------------------------------
(***************************************************************************)
(* The inductive invariant.                                                 *)
(***************************************************************************)

\* Before execute has installed its buffer and its error handler
Early == {"idle", "start", "route", "decode", "create", "construct", "arguments", "execute"}

\* While the handler code runs, or just after it has returned
Inside == {"eval", "leave"}

\* The request shutdown
Ending == {"shutdown", "flush"}

\* What the place in index.php says about the state.
Control ==
    /\ pc \in Early => /\ buffers = <<>> /\ handlers = 0
                       /\ ~raised /\ ~tampered /\ printed = <<>> /\ late = 0
    /\ pc = "idle" => req = NoReq /\ causes = {}
    /\ pc \in Inside \cup {"return"} => ~raised
    /\ pc \in {"catch", "outer"} => raised
    /\ pc = "emit" => reply # NoReply /\ reply.type # "none"
    /\ pc \notin Ending \cup {"emit"} => reply = NoReply

\* What is known of the exception in flight, and why there may be no reply: a
\* text that is not UTF-8 is only thrown by the handler code, and what execute's
\* own error handler throws is never the logger's.
Excuses ==
    /\ pc = "catch" /\ exc.class = "ErrorException" => exc.of = "code"
    /\ ~exc.utf8 => "binary" \in causes
    /\ pc \in Ending /\ reply = NoReply => causes \cap Silencers # {}

\* As long as the handler code neither raised nor tampered, execute's buffer holds
\* what was printed, and the notices of a failing log between it, and is gone with
\* the error handler after the return; only a request that is cut off leaves it.
Unspoilt ==
    ~raised /\ ~tampered =>
        /\ pc \in Inside => /\ Len(buffers) = 1 /\ handlers = 1
                           /\ ("log" \notin causes => buffers = <<printed>>)
        /\ pc \notin Inside /\ ~(pc \in Ending /\ reply = NoReply)
           => buffers = <<>> /\ handlers = 0

\* The text under "resolved", from the end of execute to the reply
Outcome ==
    ~tampered =>
        /\ pc \in {"return", "resolve"} =>
              IF raised THEN result \in {ErrorText, <<"bin">>}
                        ELSE ("log" \notin causes => result = printed)
        /\ reply.kind = "resolved" =>
              IF raised THEN reply.text = ErrorText
                        ELSE ("log" \notin causes => reply.text = printed)

\* Text without a document, and text that ends in its only one
NoJson(t) == \A i \in 1..Len(t) : t[i] # "json"
JsonLast(t) == t # <<>> /\ \A i \in 1..Len(t) : t[i] = "json" <=> i = Len(t)

\* Where the document is: nowhere until Slim echoes it, then at the end of the
\* active buffer, and at the end of the body once the buffers are flushed, as long as
\* no late code and no callback touched it; the buffers are not discarded then.
Document ==
    /\ pc \notin Ending => NoJson(body) /\ \A k \in 1..Len(buffers) : NoJson(buffers[k])
    /\ pc \in Ending /\ reply # NoReply => "memory" \notin causes
    /\ pc \notin Ending => "memory" \notin causes
    /\ pc \in Ending /\ reply # NoReply /\ causes \cap {"late", "callback"} = {} =>
          IF buffers = <<>>
          THEN JsonLast(body)
          ELSE /\ NoJson(body)
               /\ \A k \in 1..Len(buffers) :
                     IF k = Len(buffers) THEN JsonLast(buffers[k]) ELSE NoJson(buffers[k])

\* Nothing but the document reaches nginx from a request that nothing spoils.
Pure ==
    ~raised /\ ~tampered /\ req.body # "bare" /\ causes = {} =>
        /\ pc \notin Ending => body = <<>>
        /\ pc \in Ending /\ reply # NoReply => body = <<"json">>

\* What was said of the last answer still holds.
Answers == EnvelopeIsLast /\ CleanReply /\ ResolvedIsWhatWasPrinted /\ SilenceHasACause

RequestInv ==
    /\ TypeOK /\ Control /\ Excuses /\ Unspoilt /\ Outcome /\ Document /\ Pure /\ Answers

-----------------------------------------------------------------------------
(***************************************************************************)
(* Text, and PHP's output layer.                                            *)
(***************************************************************************)

\* The texts that the steps write or put under a reply are texts.
LEMMA TextsType ==
    /\ <<>> \in Texts /\ ErrorText \in Texts /\ ErrorText \o ErrorText \in Texts
    /\ NoBuffer \in Texts
    /\ \A seg \in Segments : <<seg>> \in Texts
    /\ \A e : getMessage(e) \in Texts
<1>1. <<>> \in Texts /\ NoBuffer \in Texts
    BY DEF Texts, NoBuffer
<1>2. \A seg \in Segments : <<seg>> \in Texts
    BY DEF Texts
<1>3. ErrorText \in Texts /\ <<"bin">> \in Texts /\ <<"log">> \in Texts
    BY <1>2 DEF ErrorText, Segments
<1>4. ErrorText \o ErrorText \in Texts
    BY <1>3, ConcatProperties DEF Texts
<1>5. ASSUME NEW e PROVE getMessage(e) \in Texts
    BY <1>3, Zenon DEF getMessage
<1>6. QED
    BY <1>1, <1>2, <1>3, <1>4, <1>5

\* Texts can be put behind each other.
LEMMA TextConcat ==
    ASSUME NEW s \in Texts, NEW t \in Texts
    PROVE  /\ s \o t \in Texts
           /\ Len(s \o t) = Len(s) + Len(t) /\ Len(s) \in Nat /\ Len(t) \in Nat
           /\ \A i \in 1..Len(s) + Len(t) :
                 (s \o t)[i] = IF i <= Len(s) THEN s[i] ELSE t[i - Len(s)]
BY ConcatProperties DEF Texts

\* No document comes out of texts that have none; one that ends a text still does
\* when text without one is put before it.
LEMMA NoJsonConcat ==
    ASSUME NEW s \in Texts, NEW t \in Texts, NoJson(s)
    PROVE  (NoJson(t) => NoJson(s \o t)) /\ (JsonLast(t) => JsonLast(s \o t))
<1>a. /\ Len(s \o t) = Len(s) + Len(t) /\ Len(s) \in Nat /\ Len(t) \in Nat
      /\ \A i \in 1..Len(s) + Len(t) :
            (s \o t)[i] = IF i <= Len(s) THEN s[i] ELSE t[i - Len(s)]
    BY TextConcat
<1>b. \A i \in 1..Len(s) + Len(t) :
         IF i <= Len(s) THEN i \in 1..Len(s) ELSE i - Len(s) \in 1..Len(t)
    BY <1>a
<1>1. ASSUME NoJson(t) PROVE NoJson(s \o t)
    BY <1>1, <1>a, <1>b DEF NoJson
<1>2. ASSUME JsonLast(t) PROVE JsonLast(s \o t)
    <2>1. Len(t) > 0 /\ Len(t) \in Nat /\ Len(s) \in Nat /\ Len(s \o t) = Len(s) + Len(t)
        BY <1>2, <1>a DEF JsonLast, Texts
    <2>2. s \o t # <<>>
        BY <2>1
    <2>3. ASSUME NEW i \in 1..Len(s \o t) PROVE (s \o t)[i] = "json" <=> i = Len(s \o t)
        <3>1. CASE i <= Len(s)
            BY <1>a, <1>b, <2>1, <2>3, <3>1 DEF NoJson
        <3>2. CASE i > Len(s)
            <4>1. (s \o t)[i] = t[i - Len(s)] /\ i - Len(s) \in 1..Len(t)
                BY <1>a, <1>b, <2>1, <2>3, <3>2
            <4>2. QED
                BY <1>2, <2>1, <4>1 DEF JsonLast
        <3>3. QED
            BY <2>1, <3>1, <3>2
    <2>4. QED
        BY <2>2, <2>3 DEF JsonLast
<1>3. QED
    BY <1>1, <1>2

\* What the output layer holds.
OutputType ==
    /\ buffers \in Seq(Texts)
    /\ callbacks \subseteq 1..MaxBuffers
    /\ body \in Texts
    /\ headers \in {"unsent", "text/html", "application/json"}

\* A write goes to the end of the active buffer, or of the body.
LEMMA WriteIs ==
    ASSUME OutputType, NEW t \in Texts, Write(t)
    PROVE  /\ OutputType'
           /\ \/ buffers = <<>> /\ buffers' = <<>> /\ body' = body \o t
              \/ /\ buffers # <<>> /\ body' = body
                 /\ Len(buffers') = Len(buffers)
                 /\ \A k \in 1..Len(buffers) :
                       buffers'[k] = IF k = Len(buffers) THEN buffers[k] \o t ELSE buffers[k]
<1>1. CASE buffers = <<>>
    BY <1>1, TextConcat DEF Write, OutputType
<1>2. CASE buffers # <<>>
    <2> DEFINE n == Len(buffers)
               e == buffers[n] \o t
    <2>1. n \in 1..Len(buffers) /\ buffers[n] \in Texts
        BY <1>2 DEF OutputType
    <2>2. e \in Texts
        BY <2>1, TextConcat
    <2>3. buffers' = [buffers EXCEPT ![n] = e] /\ UNCHANGED <<callbacks, headers, body>>
        BY <1>2 DEF Write
    <2> HIDE DEF e
    <2>4. /\ buffers' \in Seq(Texts)
          /\ Len(buffers') = n
          /\ \A k \in 1..n : buffers'[k] = IF k = n THEN e ELSE buffers[k]
        BY <2>1, <2>2, <2>3, ExceptSeq DEF OutputType
    <2>5. QED
        BY <1>2, <2>3, <2>4 DEF OutputType, e
<1>3. QED
    BY <1>1, <1>2

\* The buffers below the active one
LEMMA BelowIs ==
    ASSUME OutputType, buffers # <<>>
    PROVE  /\ Below \in Seq(Texts) /\ Len(buffers) \in Nat \ {0}
           /\ Len(Below) = Len(buffers) - 1
           /\ \A k \in 1..(Len(buffers) - 1) : Below[k] = buffers[k]
           /\ Active \in Texts
<1> DEFINE n == Len(buffers) - 1
<1>1. buffers \in Seq(Texts) /\ Len(buffers) \in Nat \ {0}
    BY DEF OutputType
<1>2. n \in Nat /\ \A i \in 1..n : buffers[i] \in Texts
    BY <1>1
<1>3. Active \in Texts
    BY <1>1 DEF Active
<1>4. Below = SubSeq(buffers, 1, n)
    BY DEF Below
<1> HIDE DEF n
<1>5. /\ SubSeq(buffers, 1, n) \in Seq(Texts)
      /\ Len(SubSeq(buffers, 1, n)) = n
      /\ \A k \in 1..n : SubSeq(buffers, 1, n)[k] = buffers[k]
    BY <1>2
<1>6. QED
    BY <1>1, <1>3, <1>4, <1>5 DEF n

\* What a flush passes on is a text: without a callback, what the buffer holds.
LEMMA FlushedIs ==
    ASSUME OutputType, buffers # <<>>, NEW t \in Flushed
    PROVE  /\ t \in Texts
           /\ t \in {Active, <<>>, <<"out">>}
           /\ Len(buffers) \notin callbacks => t = Active
BY BelowIs, TextsType DEF Flushed, Segments

\* Ending the active buffer and dropping what it holds
LEMMA EndCleanIs ==
    ASSUME OutputType, buffers # <<>>, EndClean
    PROVE  OutputType' /\ buffers' = Below /\ body' = body
BY BelowIs DEF EndClean, OutputType

\* Ending the active buffer puts a text behind the next one, or the body.
LEMMA EndFlushIs ==
    ASSUME OutputType, buffers # <<>>, NEW t \in Texts, EndFlush(t)
    PROVE  /\ OutputType'
           /\ \/ Len(buffers) = 1 /\ buffers' = <<>> /\ body' = body \o t
              \/ /\ Len(buffers) > 1 /\ body' = body
                 /\ Len(buffers') = Len(buffers) - 1
                 /\ \A k \in 1..Len(buffers') :
                       buffers'[k] = IF k = Len(buffers') THEN buffers[k] \o t ELSE buffers[k]
<1>a. /\ Below \in Seq(Texts) /\ Len(buffers) \in Nat \ {0}
      /\ Len(Below) = Len(buffers) - 1
      /\ \A k \in 1..(Len(buffers) - 1) : Below[k] = buffers[k]
    BY BelowIs
<1>b. callbacks' \subseteq 1..MaxBuffers
    BY DEF EndFlush, OutputType
<1>1. CASE Len(buffers) = 1
    <2>1. body \o t \in Texts
        BY TextConcat DEF OutputType
    <2>2. /\ buffers' = <<>> /\ body' = body \o t
          /\ headers' \in {headers, "text/html"}
        BY <1>1 DEF EndFlush
    <2>3. QED
        BY <1>b, <1>1, <2>1, <2>2 DEF OutputType
<1>2. CASE Len(buffers) # 1
    <2> DEFINE n == Len(Below)
               e == Below[n] \o t
    <2>1. n \in 1..Len(Below) /\ Below[n] \in Texts
        BY <1>2, <1>a
    <2>2. e \in Texts
        BY <2>1, TextConcat
    <2>3. buffers' = [Below EXCEPT ![n] = e] /\ UNCHANGED <<headers, body>>
        BY <1>2 DEF EndFlush
    <2> HIDE DEF e
    <2>4. /\ buffers' \in Seq(Texts)
          /\ Len(buffers') = n
          /\ \A k \in 1..n : buffers'[k] = IF k = n THEN e ELSE Below[k]
        BY <1>a, <2>1, <2>2, <2>3, ExceptSeq
    <2>5. QED
        <3>1. OutputType'
            BY <1>b, <2>3, <2>4 DEF OutputType
        <3>2. Len(buffers) > 1 /\ Len(buffers') = Len(buffers) - 1
            BY <1>2, <1>a, <2>4
        <3>3. e = buffers[n] \o t
            BY <1>a, <2>1 DEF e
        <3>4. \A k \in 1..n : buffers'[k] = IF k = n THEN e ELSE buffers[k]
            BY <1>a, <2>4
        <3>5. QED
            BY <2>3, <2>4, <3>1, <3>2, <3>3, <3>4
<1>3. QED
    BY <1>1, <1>2

\* Slim's emitter puts the document at the end of the active buffer, or of the body.
LEMMA EmitIs ==
    ASSUME OutputType, Emit
    PROVE  /\ buffers' \in Seq(Texts) /\ body' \in Texts /\ callbacks' = callbacks
           /\ \/ buffers = <<>> /\ buffers' = <<>> /\ body' = body \o <<"json">>
              \/ /\ buffers # <<>> /\ body' = body
                 /\ Len(buffers') = Len(buffers)
                 /\ \A k \in 1..Len(buffers) :
                       buffers'[k] = IF k = Len(buffers)
                                     THEN buffers[k] \o <<"json">> ELSE buffers[k]
<1>a. <<"json">> \in Texts
    BY TextsType DEF Segments
<1>b. \A s \in Texts : Append(s, "json") = s \o <<"json">> /\ s \o <<"json">> \in Texts
    <2>1. ASSUME NEW s \in Texts PROVE Append(s, "json") = s \o <<"json">>
        BY AppendIsConcat DEF Texts, Segments
    <2>2. QED
        BY <1>a, <2>1, TextConcat
<1>1. CASE buffers = <<>>
    BY <1>1, <1>b DEF Emit, OutputType
<1>2. CASE buffers # <<>>
    <2> DEFINE n == Len(buffers)
               e == buffers[n] \o <<"json">>
    <2>1. n \in 1..Len(buffers) /\ buffers[n] \in Texts
        BY <1>2 DEF OutputType
    <2>2. e \in Texts /\ Append(buffers[n], "json") = e
        BY <2>1, <1>b
    <2>3. buffers' = [buffers EXCEPT ![n] = e] /\ UNCHANGED <<body, callbacks>>
        BY <1>2, <2>1, <2>2 DEF Emit
    <2> HIDE DEF e
    <2>4. /\ buffers' \in Seq(Texts)
          /\ Len(buffers') = n
          /\ \A k \in 1..n : buffers'[k] = IF k = n THEN e ELSE buffers[k]
        BY <2>1, <2>2, <2>3, ExceptSeq DEF OutputType
    <2>5. QED
        BY <1>2, <2>3, <2>4 DEF OutputType, e
<1>3. QED
    BY <1>1, <1>2

\* Text without a document is written, or nothing.
Says == UNCHANGED output \/ \E t \in Texts : NoJson(t) /\ Write(t)

\* The output layer keeps its type.
LEMMA SaysType == ASSUME OutputType, Says PROVE OutputType'
<1>1. CASE UNCHANGED output
    BY <1>1 DEF output, OutputType
<1>2. ASSUME NEW t \in Texts, Write(t) PROVE OutputType'
    BY <1>2, WriteIs
<1>3. QED
    BY <1>1, <1>2 DEF Says

\* No text that PHP, index.php or the handler code writes is a document.
LEMMA WordsAreNoJson ==
    /\ NoJson(<<>>) /\ NoJson(ErrorText) /\ NoJson(ErrorText \o ErrorText)
    /\ NoJson(<<"out">>) /\ NoJson(<<"bin">>) /\ NoJson(<<"diag">>)
<1>1. NoJson(<<>>) /\ NoJson(<<"out">>) /\ NoJson(<<"bin">>) /\ NoJson(<<"diag">>)
    BY DEF NoJson
<1>2. NoJson(ErrorText)
    BY <1>1 DEF ErrorText
<1>3. NoJson(ErrorText \o ErrorText)
    BY <1>2, TextsType, NoJsonConcat
<1>4. QED
    BY <1>1, <1>2, <1>3

\* What $logger->info() does to the state, before a text that may be empty.
LEMMA PutSays == ASSUME NEW t \in {<<>>, ErrorText}, Put(t) \/ Put(ErrorText \o t) PROVE Says
<1>1. CASE t = <<>>
    <2>1. ErrorText \o <<>> = ErrorText
        BY TextsType, ConcatEmptySeq DEF Texts
    <2>2. UNCHANGED output \/ Write(ErrorText)
        BY <1>1, <2>1 DEF Put
    <2>3. QED
        BY <2>2, TextsType, WordsAreNoJson DEF Says
<1>2. CASE t = ErrorText
    <2>1. UNCHANGED output \/ Write(ErrorText) \/ Write(ErrorText \o ErrorText)
        BY <1>2 DEF Put
    <2>2. QED
        BY <2>1, TextsType, WordsAreNoJson DEF Says
<1>3. QED
    BY <1>1, <1>2

\* A record is written, or fails as a notice that PHP displays when no error handler
\* is installed.
LEMMA LogsIs ==
    ASSUME NEW t \in {<<>>, ErrorText}, Logs(t)
    PROVE  /\ Says
           /\ log' = "open"
           /\ causes' \in {causes, causes \cup {"log"}}
           /\ t = <<>> => \/ UNCHANGED output
                          \/ handlers = 0 /\ "log" \in causes'
BY PutSays DEF Logs, Put

\* A record fails and the failure is thrown, which is remembered as a cause.
LEMMA LogRaisesIs ==
    ASSUME NEW class, NEW t \in {<<>>, ErrorText}, LogRaises(class, t)
    PROVE  /\ Says
           /\ class \in Classes
           /\ exc' = LogExc(class)
           /\ log' \in {log, "open"}
           /\ causes' = causes \cup {"log"}
<1>1. CASE log' = log /\ Put(t) /\ class = "Exception"
    BY <1>1, PutSays DEF LogRaises, Classes
<1>2. CASE log' = "open" /\ class = "ErrorException" /\ (Put(t) \/ Put(ErrorText \o t))
    BY <1>2, PutSays DEF LogRaises, Classes
<1>3. QED
    BY <1>1, <1>2 DEF LogRaises

-----------------------------------------------------------------------------
(***************************************************************************)
(* Typing.                                                                  *)
(***************************************************************************)

\* Everything but the output layer and the answer.
PlainType ==
    /\ pc \in Labels
    /\ req \in [method : Methods, path : Paths, body : Bodies] \cup {NoReq}
    /\ handlers \in 0..MaxHandlers
    /\ exc \in [class : Classes \cup {"none"}, utf8 : BOOLEAN, of : {"code", "log"}]
    /\ result \in Texts
    /\ reply \in [kind : {"none", "plain", "resolved", "rejected"}, text : Texts,
                  type : {"none", "application/json", "text/html"}]
    /\ printed \in Texts
    /\ tampered \in BOOLEAN
    /\ raised \in BOOLEAN
    /\ causes \subseteq Causes
    /\ late \in 0..MaxLate
    /\ log \in {"closed", "open"}
    /\ process \in {"running", "dead"}

\* The type invariant in these parts
LEMMA TypeIs == TypeOK <=> PlainType /\ OutputType /\ answer.how \in {"none", "emitted", "cut", "lost"}
BY DEF TypeOK, PlainType, OutputType

\* The exceptions and replies the steps build
LEMMA RecordTypes ==
    /\ \A class \in Classes, utf8 \in BOOLEAN, of \in {"code", "log"} :
          [class |-> class, utf8 |-> utf8, of |-> of]
              \in [class : Classes \cup {"none"}, utf8 : BOOLEAN, of : {"code", "log"}]
    /\ \A class \in Classes \cup {"none"} :
          [NoExc EXCEPT !.class = class]
              \in [class : Classes \cup {"none"}, utf8 : BOOLEAN, of : {"code", "log"}]
    /\ NoExc \in [class : Classes \cup {"none"}, utf8 : BOOLEAN, of : {"code", "log"}]
    /\ \A class \in Classes :
          LogExc(class) \in [class : Classes \cup {"none"}, utf8 : BOOLEAN, of : {"code", "log"}]
    /\ NoReply \in [kind : {"none", "plain", "resolved", "rejected"}, text : Texts,
                     type : {"none", "application/json", "text/html"}]
    /\ \A kind \in {"plain", "resolved", "rejected"}, text \in Texts,
          type \in {"application/json", "text/html"} :
             [kind |-> kind, text |-> text, type |-> type]
                 \in [kind : {"none", "plain", "resolved", "rejected"}, text : Texts,
                      type : {"none", "application/json", "text/html"}]
<1>1. NoExc \in [class : Classes \cup {"none"}, utf8 : BOOLEAN, of : {"code", "log"}]
    BY DEF NoExc
<1>2. ASSUME NEW class \in Classes
      PROVE  LogExc(class) \in [class : Classes \cup {"none"}, utf8 : BOOLEAN, of : {"code", "log"}]
    BY DEF LogExc
<1>3. ASSUME NEW class \in Classes \cup {"none"}
      PROVE  [NoExc EXCEPT !.class = class]
                 \in [class : Classes \cup {"none"}, utf8 : BOOLEAN, of : {"code", "log"}]
    BY DEF NoExc
<1>4. NoReply \in [kind : {"none", "plain", "resolved", "rejected"}, text : Texts,
                   type : {"none", "application/json", "text/html"}]
    BY TextsType DEF NoReply
<1>5. QED
    BY <1>1, <1>2, <1>3, <1>4

\* A reply that can be encoded goes to Slim; otherwise the TypeError leaves the
\* handler.
LEMMA RespondType ==
    ASSUME PlainType, NEW kind \in {"resolved", "rejected"}, NEW text \in Texts,
           Respond(kind, text)
    PROVE  /\ pc' \in Labels /\ result' = <<>>
           /\ exc' \in [class : Classes \cup {"none"}, utf8 : BOOLEAN, of : {"code", "log"}]
           /\ reply' \in [kind : {"none", "plain", "resolved", "rejected"}, text : Texts,
                          type : {"none", "application/json", "text/html"}]
<1>1. CASE Encodable(text)
    BY <1>1, RecordTypes DEF Respond, Goto, Labels
<1>2. CASE ~Encodable(text)
    <2>1. /\ exc' = [NoExc EXCEPT !.class = "Error"] /\ pc' = "errorHandler" /\ reply' = reply
          /\ result' = <<>>
        BY <1>2 DEF Respond, Goto
    <2>2. QED
        BY <2>1, RecordTypes DEF PlainType, Labels, Classes
<1>3. QED
    BY <1>1, <1>2

\* The end of a request, or of the process
LEMMA ClearType ==
    ASSUME Clear, pc' \in Labels,
           req' \in [method : Methods, path : Paths, body : Bodies] \cup {NoReq},
           process' \in {"running", "dead"}
    PROVE  OutputType' /\ PlainType'
<1>1. OutputType'
    BY TextsType DEF Clear, OutputType
<1>2. handlers' \in 0..MaxHandlers /\ late' \in 0..MaxLate
    BY BoundsAssumption DEF Clear
<1>3. QED
    BY <1>1, <1>2, TextsType, RecordTypes DEF Clear, PlainType

\* Where handler code runs, and what a step of code that runs late leaves of it
LEMMA UserCodeIs ==
    ASSUME PlainType, UserCode
    PROVE  /\ pc \in {"eval", "return", "shutdown"}
           /\ Left \in 0..MaxLate
           /\ Blamed \subseteq Causes
           /\ Blamed \in {causes, causes \cup {"late"}}
           /\ IF pc = "eval" THEN Blamed = causes ELSE "late" \in Blamed
BY BoundsAssumption DEF UserCode, Left, Blamed, PlainType, Causes

\* What execute's error handler does to the state, whether its exception is caught
\* by the handler code or not.
LEMMA ErrorHandlerIs ==
    ASSUME errorHandler
    PROVE  /\ UserCode /\ pc # "shutdown" /\ handlers > 0
           /\ Says
           /\ UNCHANGED output \/ "log" \in causes'
           /\ causes' \in {Blamed, Blamed \cup {"log"}}
           /\ late' = Left
           /\ log' \in {log, "open"}
           /\ \/ UNCHANGED <<exc, raised, pc>>
              \/ /\ raised' = TRUE /\ pc' = "catch"
                 /\ exc' \in {[NoExc EXCEPT !.class = "ErrorException"], LogExc("Exception")}
           /\ UNCHANGED <<req, handlers, result, reply, printed, tampered, answer, process>>
<1> DEFINE E == {[NoExc EXCEPT !.class = "ErrorException"], LogExc("Exception")}
<1>1. PICK e \in E :
          /\ \/ log' = "open" /\ UNCHANGED output /\ causes' = Blamed
             \/ log' = "open" /\ Write(ErrorText) /\ causes' = Blamed \cup {"log"}
             \/ UNCHANGED <<log, output>> /\ causes' = Blamed \cup {"log"}
          /\ \/ exc' = e /\ raised' = TRUE /\ pc' = "catch"
             \/ UNCHANGED <<exc, raised, pc>>
    BY Zenon DEF errorHandler, Goto
<1>2. Says
    BY <1>1, TextsType, WordsAreNoJson DEF Says
<1>3. causes' \in {Blamed, Blamed \cup {"log"}} /\ log' \in {log, "open"}
      /\ (UNCHANGED output \/ "log" \in causes')
    BY <1>1
<1>4. QED
    BY <1>1, <1>2, <1>3 DEF errorHandler

\* Ending a buffer, one way or the other
Ends == buffers # <<>> /\ (EndClean \/ \E text \in Flushed : EndFlush(text))

\* The output layer keeps its type.
LEMMA EndsType == ASSUME OutputType, Ends PROVE OutputType'
<1>1. CASE EndClean
    BY <1>1, EndCleanIs DEF Ends
<1>2. ASSUME NEW text \in Flushed, EndFlush(text) PROVE OutputType'
    BY <1>2, FlushedIs, EndFlushIs DEF Ends
<1>3. QED
    BY <1>1, <1>2 DEF Ends

\* Every step keeps the types: execute finds no error handler installed.
LEMMA TypeStep == ASSUME TypeOK, Control, [Next]_vars PROVE TypeOK'
<1>a. PlainType /\ OutputType /\ answer.how \in {"none", "emitted", "cut", "lost"}
    BY TypeIs
<1>b. SUFFICES PlainType' /\ OutputType' /\ answer'.how \in {"none", "emitted", "cut", "lost"}
    BY DEF TypeOK, PlainType, OutputType
<1>c. UNCHANGED output => OutputType'
    BY <1>a DEF output, OutputType
<1>d. ASSUME NEW r \in Requests, Receive(r)
      PROVE  PlainType' /\ OutputType' /\ answer'.how \in {"none", "emitted", "cut", "lost"}
    <2>1. r[1] \in Methods /\ r[2] \in Paths /\ r[3] \in Bodies
        BY RequestsAssumption
    <2>2. req' \in [method : Methods, path : Paths, body : Bodies]
        BY <1>d, <2>1 DEF Receive
    <2>3. QED
        BY <1>a, <1>c, <1>d, <2>2 DEF Receive, Goto, history, PlainType, Labels, NoAnswer
<1>e. ASSUME UNCHANGED output \/ Write(ErrorText) PROVE OutputType'
    BY <1>a, <1>c, <1>e, WriteIs, TextsType
<1>f. CASE Prologue
    <2>1. OutputType'
        BY <1>e, <1>f DEF Prologue
    <2>2. causes' \subseteq Causes /\ pc' \in Labels
        BY <1>a, <1>f DEF Prologue, Goto, PlainType, Causes, Silencers, Labels
    <2>3. QED
        BY <1>a, <1>f, <2>1, <2>2 DEF Prologue, PlainType
<1>g. CASE OutOfMemory
    <2>1. OutputType'
        BY <1>e, <1>g DEF OutOfMemory
    <2>2. QED
        BY <1>a, <1>g, <2>1, TextsType, RecordTypes
           DEF OutOfMemory, Goto, PlainType, Causes, Silencers, Labels
<1>1. CASE PlainRoute \/ ExecutorRoute \/ Decode \/ CreateClient \/ ConstructClient \/ CatchNothing
           \/ Return \/ UserReturn
    BY <1>a, <1>c, <1>1, RecordTypes, TextsType
       DEF PlainRoute, ExecutorRoute, Decode, CreateClient, ConstructClient, CatchNothing,
           Return, UserReturn, Goto, history, PlainType, Labels
<1>2. CASE NoRoute \/ NoClass
    BY <1>a, <1>c, <1>2, RecordTypes DEF NoRoute, NoClass, Goto, history, PlainType, Labels, Classes
<1>3. CASE DecodeFails
    <2>1. CASE Logs(<<>>) /\ pc' = "emit" /\ exc' = exc
               /\ reply' = [kind |-> "rejected", text |-> ErrorText, type |-> "application/json"]
        BY <1>a, <1>3, <2>1, LogsIs, SaysType, RecordTypes, TextsType
           DEF DecodeFails, PlainType, Labels, Causes, Silencers
    <2>2. ASSUME NEW class \in Classes, LogRaises(class, <<>>), pc' = "errorHandler", reply' = reply
          PROVE  PlainType' /\ OutputType' /\ answer'.how \in {"none", "emitted", "cut", "lost"}
        BY <1>a, <1>3, <2>2, LogRaisesIs, SaysType, RecordTypes
           DEF DecodeFails, PlainType, Labels, Causes, Silencers
    <2>3. QED
        BY <1>3, <2>1, <2>2 DEF DecodeFails, Goto
<1>4. CASE EvalArguments
    <2>1. OutputType'
        BY <1>a, <1>c, <1>4, WriteIs, TextsType DEF EvalArguments
    <2>2. QED
        BY <1>a, <1>4, <2>1 DEF EvalArguments, Goto, history, PlainType, Labels
<1>5. CASE Execute
    <2>1. handlers' = 1 /\ buffers' = Append(buffers, <<>>)
        BY <1>5 DEF Execute, At, Control, Early
    <2>2. OutputType'
        BY <1>a, <1>5, <2>1, TextsType DEF Execute, OutputType
    <2>3. handlers' \in 0..MaxHandlers
        BY <2>1, BoundsAssumption
    <2>4. QED
        BY <1>a, <1>5, <2>2, <2>3 DEF Execute, Goto, history, PlainType, Labels
<1>6. CASE Leave
    <2>1. handlers' \in 0..MaxHandlers
        BY <1>a, <1>6, BoundsAssumption DEF Leave, PlainType
    <2>2. result' \in Texts /\ OutputType'
        BY <1>a, <1>c, <1>6, BelowIs, EndCleanIs, TextsType DEF Leave
    <2>3. QED
        BY <1>a, <1>6, <2>1, <2>2 DEF Leave, Goto, history, PlainType, Labels
<1>7. CASE CatchErrorException
    <2>1. CASE Logs(<<>>) /\ result' = getMessage(exc) /\ exc' = NoExc /\ pc' = "resolve"
        BY <1>a, <1>7, <2>1, LogsIs, SaysType, RecordTypes, TextsType
           DEF CatchErrorException, PlainType, Labels, Causes, Silencers
    <2>2. ASSUME NEW class \in Classes, LogRaises(class, <<>>), pc' = "outer", result' = result
          PROVE  PlainType' /\ OutputType' /\ answer'.how \in {"none", "emitted", "cut", "lost"}
        BY <1>a, <1>7, <2>2, LogRaisesIs, SaysType, RecordTypes
           DEF CatchErrorException, PlainType, Labels, Causes, Silencers
    <2>3. QED
        BY <1>7, <2>1, <2>2 DEF CatchErrorException, Goto
<1>8. CASE CatchException
    <2>1. CASE Logs(<<>>) /\ Respond("rejected", getMessage(exc))
        BY <1>a, <1>8, <2>1, LogsIs, SaysType, RespondType, TextsType
           DEF CatchException, PlainType, Causes, Silencers
    <2>2. ASSUME NEW class \in Classes, LogRaises(class, <<>>), pc' = "errorHandler",
                 reply' = reply, result' = result
          PROVE  PlainType' /\ OutputType' /\ answer'.how \in {"none", "emitted", "cut", "lost"}
        BY <1>a, <1>8, <2>2, LogRaisesIs, SaysType, RecordTypes
           DEF CatchException, PlainType, Labels, Causes, Silencers
    <2>3. QED
        BY <1>8, <2>1, <2>2 DEF CatchException, Goto
<1>9. CASE Resolve
    BY <1>a, <1>c, <1>9, RespondType, TextsType DEF Resolve, history, PlainType
<1>10. CASE ErrorHandler
    <2>1. CASE /\ Logs(<<>>) /\ exc' = NoExc /\ pc' = "emit"
               /\ reply' = [kind |-> "rejected", text |-> getMessage(exc), type |-> "text/html"]
        BY <1>a, <1>10, <2>1, LogsIs, SaysType, RecordTypes, TextsType
           DEF ErrorHandler, PlainType, Labels, Causes, Silencers
    <2>2. CASE Logs(ErrorText) /\ exc' = NoExc /\ pc' = "shutdown" /\ reply' = reply
        BY <1>a, <1>10, <2>2, LogsIs, SaysType, RecordTypes
           DEF ErrorHandler, PlainType, Labels, Causes, Silencers
    <2>3. ASSUME NEW class \in Classes, LogRaises(class, ErrorText), pc' = "shutdown", reply' = reply
          PROVE  PlainType' /\ OutputType' /\ answer'.how \in {"none", "emitted", "cut", "lost"}
        BY <1>a, <1>10, <2>3, LogRaisesIs, SaysType, RecordTypes
           DEF ErrorHandler, PlainType, Labels, Causes, Silencers
    <2>4. QED
        BY <1>10, <2>1, <2>2, <2>3 DEF ErrorHandler, Goto
<1>11. CASE Emit
    <2>1. headers' \in {"unsent", "text/html", "application/json"}
        BY <1>a, <1>11 DEF Emit, At, Control, PlainType, OutputType
    <2>2. buffers' \in Seq(Texts) /\ body' \in Texts /\ callbacks' = callbacks
        BY <1>a, <1>11, EmitIs
    <2>3. QED
        BY <1>a, <1>11, <2>1, <2>2 DEF Emit, Goto, history, PlainType, OutputType, Labels
<1>12. CASE ShutdownFunctions \/ FlushBuffer
    <2>1. CASE ShutdownFunctions
        BY <1>a, <1>c, <2>1, BoundsAssumption DEF ShutdownFunctions, Goto, PlainType, Labels
    <2>2. CASE FlushBuffer
        <3>1. Ends
            BY <2>2 DEF FlushBuffer, Ends
        <3>2. causes' \subseteq Causes
            BY <1>a, <2>2 DEF FlushBuffer, PlainType, Causes
        <3>3. QED
            BY <1>a, <2>2, <3>1, <3>2, EndsType DEF FlushBuffer, PlainType
    <2>3. QED
        BY <1>12, <2>1, <2>2
<1>13. CASE Finish
    <2>1. pc' \in Labels /\ req' = NoReq /\ process' = process /\ Clear
        BY <1>13 DEF Finish, Goto, Labels
    <2>2. PlainType' /\ OutputType'
        BY <1>a, <2>1, ClearType DEF PlainType
    <2>3. QED
        BY <1>13, <2>2 DEF Finish
<1>14. CASE Respawn
    <2>1. pc' \in Labels /\ req' = NoReq /\ process' = "running" /\ Clear
        BY <1>14 DEF Respawn, Goto, Labels
    <2>2. PlainType' /\ OutputType'
        BY <2>1, ClearType
    <2>3. QED
        BY <1>14, <2>2 DEF Respawn, NoAnswer
<1>15. ASSUME NEW seg \in {"out", "bin", "diag"}, UserPrint(seg)
       PROVE  PlainType' /\ OutputType' /\ answer'.how \in {"none", "emitted", "cut", "lost"}
    <2>1. printed' \in Texts
        BY <1>a, <1>15 DEF UserPrint, PlainType, Texts, Segments
    <2>2. OutputType'
        BY <1>a, <1>15, WriteIs, TextsType DEF UserPrint, Segments
    <2>3. causes' \subseteq Causes /\ late' \in 0..MaxLate
        BY <1>a, <1>15, UserCodeIs DEF UserPrint
    <2>4. QED
        BY <1>a, <1>15, <2>1, <2>2, <2>3 DEF UserPrint, PlainType
<1>16. CASE UserBufferStart
    <2>1. Len(buffers) \in Nat /\ Len(buffers) + 1 \in 1..MaxBuffers
        BY <1>a, <1>16, BoundsAssumption DEF UserBufferStart, OutputType
    <2>2. callbacks' \subseteq 1..MaxBuffers
        BY <1>a, <1>16, <2>1 DEF UserBufferStart, OutputType
    <2>3. OutputType'
        BY <1>a, <1>16, <2>2, TextsType DEF UserBufferStart, OutputType
    <2>4. causes' \subseteq Causes /\ late' \in 0..MaxLate
        BY <1>a, <1>16, UserCodeIs DEF UserBufferStart
    <2>5. QED
        BY <1>a, <1>16, <2>3, <2>4 DEF UserBufferStart, PlainType
<1>17. CASE UserBufferEnd \/ UserWork
    <2>1. OutputType'
        BY <1>a, <1>c, <1>17, EndsType DEF UserBufferEnd, UserWork, Ends
    <2>2. causes' \subseteq Causes /\ late' \in 0..MaxLate
        BY <1>a, <1>17, UserCodeIs DEF UserBufferEnd, UserWork
    <2>3. QED
        BY <1>a, <1>17, <2>1, <2>2 DEF UserBufferEnd, UserWork, PlainType
<1>18. CASE UserHandlers \/ UserLeavesCode
    <2>1. handlers' \in 0..MaxHandlers
        BY <1>a, <1>18, BoundsAssumption DEF UserHandlers, UserLeavesCode, PlainType
    <2>2. late' \in 0..MaxLate /\ causes' \subseteq Causes
        <3>1. CASE UserHandlers
            BY <1>a, <3>1, UserCodeIs DEF UserHandlers
        <3>2. CASE UserLeavesCode
            BY <1>a, <3>2, BoundsAssumption DEF UserLeavesCode, PlainType
        <3>3. QED
            BY <1>18, <3>1, <3>2
    <2>3. QED
        BY <1>a, <1>c, <1>18, <2>1, <2>2 DEF UserHandlers, UserLeavesCode, PlainType
<1>19. CASE errorHandler
    <2>1. OutputType'
        BY <1>a, <1>19, ErrorHandlerIs, SaysType
    <2>2. causes' \subseteq Causes /\ late' \in 0..MaxLate
        BY <1>a, <1>19, ErrorHandlerIs, UserCodeIs DEF Causes, Silencers
    <2>3. /\ exc' \in [class : Classes \cup {"none"}, utf8 : BOOLEAN, of : {"code", "log"}]
          /\ raised' \in BOOLEAN /\ pc' \in Labels
        <3>1. CASE UNCHANGED <<exc, raised, pc>>
            BY <1>a, <3>1 DEF PlainType
        <3>2. CASE /\ raised' = TRUE /\ pc' = "catch"
                   /\ \/ exc' = [NoExc EXCEPT !.class = "ErrorException"]
                      \/ exc' = LogExc("Exception")
            BY <3>2, RecordTypes DEF Classes, Labels
        <3>3. QED
            BY <1>19, <3>1, <3>2, ErrorHandlerIs, Zenon
    <2>4. QED
        BY <1>a, <1>19, <2>1, <2>2, <2>3, ErrorHandlerIs DEF PlainType
<1>20. ASSUME NEW class \in Classes, NEW utf8 \in BOOLEAN, UserThrow(class, utf8)
       PROVE  PlainType' /\ OutputType' /\ answer'.how \in {"none", "emitted", "cut", "lost"}
    <2>1. causes' \subseteq Causes /\ late' \in 0..MaxLate
        BY <1>a, <1>20, UserCodeIs DEF UserThrow, Causes, Silencers
    <2>2. QED
        BY <1>a, <1>c, <1>20, <2>1, RecordTypes DEF UserThrow, Goto, PlainType, Labels
<1>21. CASE UserExit
    <2>1. OutputType'
        BY <1>e, <1>21 DEF UserExit
    <2>2. causes' \subseteq Causes /\ late' \in 0..MaxLate
        BY <1>a, <1>21, UserCodeIs DEF UserExit, Causes, Silencers
    <2>3. QED
        BY <1>a, <1>21, <2>1, <2>2, RecordTypes DEF UserExit, Goto, PlainType, Labels
<1>22. CASE Die
    <2>1. pc' \in Labels /\ req' = req /\ process' = "dead" /\ Clear
        BY <1>22 DEF Die, Goto, Labels
    <2>2. PlainType' /\ OutputType'
        BY <1>a, <2>1, ClearType DEF PlainType
    <2>3. QED
        BY <1>a, <1>22, <2>2 DEF Die
<1>23. CASE UNCHANGED vars
    BY <1>a, <1>23 DEF vars, PlainType, OutputType
<1>24. QED
    BY <1>d, <1>f, <1>g, <1>1, <1>2, <1>3, <1>4, <1>5, <1>6, <1>7, <1>8, <1>9, <1>10, <1>11,
       <1>12, <1>13, <1>14, <1>15, <1>16, <1>17, <1>18, <1>19, <1>20, <1>21, <1>22, <1>23
       DEF Next, SystemStep, UserStep, UserWarning, Utf8, Printable

-----------------------------------------------------------------------------
(***************************************************************************)
(* Control, and the reasons for silence.                                    *)
(***************************************************************************)

\* With no buffer, a write opens none.
LEMMA SaysBuffers ==
    ASSUME OutputType, Says, buffers = <<>>
    PROVE  buffers' = <<>>
<1>1. CASE UNCHANGED output
    BY <1>1 DEF output
<1>2. ASSUME NEW t \in Texts, Write(t) PROVE buffers' = <<>>
    BY <1>2, WriteIs
<1>3. QED
    BY <1>1, <1>2 DEF Says

\* Nothing is installed before execute, and a reply is only built on the way to
\* Slim's emitter.
LEMMA ControlStep == ASSUME TypeOK, Control, [Next]_vars PROVE Control'
<1>a. OutputType
    BY TypeIs
<1>1. ASSUME NEW r \in Requests, Receive(r)
      PROVE  Control'
    BY <1>1 DEF Receive, At, Goto, output, history, Control, Early, Inside, Ending
<1>2. CASE PlainRoute
    BY <1>2 DEF PlainRoute, At, Goto, output, history, Control, Early, Inside, Ending, NoReply
<1>3. CASE ExecutorRoute \/ NoRoute \/ Decode \/ CreateClient \/ NoClass \/ ConstructClient
    BY <1>3 DEF ExecutorRoute, NoRoute, Decode, CreateClient, NoClass, ConstructClient, At, Goto,
                output, history, Control, Early, Inside, Ending
<1>b. CASE Prologue
    <2>1. buffers' = <<>>
        BY <1>a, <1>b, WriteIs, TextsType DEF Prologue, At, output, Control, Early
    <2>2. QED
        BY <1>b, <2>1 DEF Prologue, At, Goto, Control, Early, Inside, Ending
<1>4. CASE DecodeFails
    BY <1>4 DEF DecodeFails, At, Goto, Control, Early, Inside, Ending, NoReply
<1>5. CASE EvalArguments
    <2>1. buffers' = <<>>
        BY <1>a, <1>5, WriteIs, TextsType DEF EvalArguments, At, output, Control, Early
    <2>2. QED
        BY <1>5, <2>1 DEF EvalArguments, At, Goto, history, Control, Early, Inside, Ending
<1>6. CASE Execute \/ Leave \/ Return
    BY <1>6 DEF Execute, Leave, Return, At, Goto, history, Control, Early, Inside, Ending
<1>7. CASE CatchErrorException \/ CatchNothing
    BY <1>7 DEF CatchErrorException, CatchNothing, At, Goto, output, history, Control, Early, Inside,
                Ending
<1>8. CASE CatchException \/ Resolve
    BY <1>8 DEF CatchException, Resolve, Respond, At, Goto, output, history, Control, Early, Inside,
                Ending, NoReply
<1>9. CASE ErrorHandler
    BY <1>9 DEF ErrorHandler, At, Goto, Control, Early, Inside, Ending, NoReply
<1>10. CASE Emit \/ OutOfMemory \/ ShutdownFunctions \/ FlushBuffer
    BY <1>10 DEF Emit, OutOfMemory, ShutdownFunctions, FlushBuffer, At, Goto, history, Control,
                 Early, Inside, Ending
<1>11. CASE Finish \/ Respawn \/ Die
    BY <1>11 DEF Finish, Respawn, Die, Clear, Goto, Control, Early, Inside, Ending
<1>12. ASSUME NEW seg, UserPrint(seg) PROVE Control'
    BY <1>12 DEF UserPrint, UserCode, Control, Early, Inside, Ending
<1>13. CASE UserWork \/ UserBufferStart \/ UserBufferEnd \/ UserHandlers \/ UserLeavesCode
    BY <1>13 DEF UserWork, UserBufferStart, UserBufferEnd, UserHandlers, UserLeavesCode, UserCode,
                 At, Control, Early, Inside, Ending
<1>14. CASE errorHandler
    <2>1. pc \in {"eval", "return"} /\ UNCHANGED <<reply, tampered, req>>
        BY <1>14, ErrorHandlerIs DEF UserCode
    <2>2. UNCHANGED <<pc, raised>> \/ (raised' = TRUE /\ pc' = "catch")
        BY <1>14, ErrorHandlerIs, Zenon
    <2>3. QED
        BY <2>1, <2>2 DEF Control, Early, Inside, Ending
<1>15. ASSUME NEW class, NEW utf8, UserThrow(class, utf8) PROVE Control'
    BY <1>15 DEF UserThrow, UserCode, Goto, Control, Early, Inside, Ending
<1>16. CASE UserReturn \/ UserExit
    BY <1>16 DEF UserReturn, UserExit, UserCode, At, Goto, history, Control, Early, Inside, Ending
<1>17. CASE UNCHANGED vars
    BY <1>17 DEF vars, Control
<1>18. QED
    BY <1>b, <1>1, <1>2, <1>3, <1>4, <1>5, <1>6, <1>7, <1>8, <1>9, <1>10, <1>11, <1>12, <1>13, <1>14,
       <1>15, <1>16, <1>17 DEF Next, SystemStep, UserStep, UserWarning, Utf8, Printable

\* Only the handler code throws what is not UTF-8, and a request that reaches its
\* end without a reply has a reason.
LEMMA ExcusesStep == ASSUME TypeOK, Control, Excuses, [Next]_vars PROVE Excuses'
<1>a. NoExc.utf8 /\ \A class : LogExc(class).utf8
    BY DEF NoExc, LogExc
<1>b. \A class : [NoExc EXCEPT !.class = class].utf8 /\ [NoExc EXCEPT !.class = class].of = "code"
    BY DEF NoExc
<1>c. PlainType
    BY TypeIs
<1>1. ASSUME NEW r \in Requests, Receive(r)
      PROVE  Excuses'
    BY <1>1 DEF Receive, At, Goto, history, Excuses, Ending
<1>d. CASE Prologue
    BY <1>d DEF Prologue, Goto, Excuses, Ending, Silencers
<1>e. CASE OutOfMemory
    BY <1>a, <1>e DEF OutOfMemory, Goto, Excuses, Silencers
<1>2. CASE PlainRoute \/ ExecutorRoute \/ NoRoute \/ Decode \/ CreateClient \/ ConstructClient
           \/ NoClass \/ EvalArguments \/ Execute \/ Leave \/ Return \/ CatchNothing \/ UserReturn
    BY <1>b, <1>2 DEF PlainRoute, ExecutorRoute, NoRoute, Decode, CreateClient, ConstructClient,
                NoClass, EvalArguments, Execute, Leave, Return, CatchNothing, UserReturn, Goto,
                history, Excuses, Ending
<1>3. CASE DecodeFails
    BY <1>a, <1>3, LogsIs, LogRaisesIs DEF DecodeFails, Goto, Excuses, Ending
<1>4. CASE CatchErrorException
    BY <1>a, <1>4, LogsIs, LogRaisesIs DEF CatchErrorException, Goto, Excuses, Ending
<1>5. CASE CatchException
    <2>1. CASE Logs(<<>>) /\ Respond("rejected", getMessage(exc))
        <3>1. exc'.utf8 /\ pc' \in {"emit", "errorHandler"}
            BY <1>a, <1>b, <2>1 DEF Respond, Goto
        <3>2. QED
            BY <3>1 DEF Excuses, Ending
    <2>2. CASE (\E class \in Classes : LogRaises(class, <<>>)) /\ pc' = "errorHandler"
        BY <1>a, <2>2, LogRaisesIs DEF Excuses, Ending
    <2>3. QED
        BY <1>5, <2>1, <2>2 DEF CatchException, Goto
<1>6. CASE Resolve
    BY <1>a, <1>b, <1>6 DEF Resolve, Respond, Goto, Excuses, Ending
<1>7. CASE ErrorHandler
    <2>1. CASE Logs(<<>>) /\ exc' = NoExc /\ pc' = "emit"
        BY <1>a, <2>1 DEF Excuses, Ending
    <2>2. CASE ~exc.utf8 /\ Logs(ErrorText) /\ exc' = NoExc /\ pc' = "shutdown"
        BY <1>a, <2>2, LogsIs DEF Excuses, Ending, Silencers
    <2>3. CASE (\E class \in Classes : LogRaises(class, ErrorText)) /\ pc' = "shutdown"
        BY <1>a, <2>3, LogRaisesIs DEF Excuses, Ending, Silencers
    <2>4. QED
        BY <1>7, <2>1, <2>2, <2>3 DEF ErrorHandler, Goto
<1>8. CASE Emit \/ ShutdownFunctions \/ FlushBuffer
    BY <1>8 DEF Emit, ShutdownFunctions, FlushBuffer, At, Goto, history, Control, Excuses, Ending
<1>9. CASE Finish \/ Respawn \/ Die
    BY <1>a, <1>9 DEF Finish, Respawn, Die, Clear, Goto, Excuses, Ending
<1>f. ASSUME UserCode, causes' = Blamed, UNCHANGED <<pc, exc, reply>> PROVE Excuses'
    <2>1. causes \subseteq causes'
        BY <1>c, <1>f, UserCodeIs
    <2>2. QED
        BY <1>f, <2>1 DEF Excuses
<1>10. ASSUME NEW seg, UserPrint(seg) PROVE Excuses'
    BY <1>f, <1>10 DEF UserPrint
<1>11. CASE UserWork \/ UserBufferStart \/ UserBufferEnd \/ UserHandlers
    BY <1>f, <1>11 DEF UserWork, UserBufferStart, UserBufferEnd, UserHandlers
<1>12. CASE errorHandler
    <2>1. causes \subseteq causes' /\ UNCHANGED reply
        BY <1>c, <1>12, ErrorHandlerIs, UserCodeIs
    <2>2. CASE UNCHANGED <<exc, pc>>
        BY <2>1, <2>2 DEF Excuses
    <2>3. CASE pc' = "catch" /\ exc' = [NoExc EXCEPT !.class = "ErrorException"]
        BY <1>b, <2>3 DEF Excuses, Ending
    <2>4. CASE pc' = "catch" /\ exc' = LogExc("Exception")
        BY <1>a, <2>4 DEF Excuses, Ending, LogExc
    <2>5. QED
        BY <1>12, <2>2, <2>3, <2>4, ErrorHandlerIs
<1>13. ASSUME NEW class \in Classes, NEW utf8 \in BOOLEAN, UserThrow(class, utf8) PROVE Excuses'
    BY <1>13 DEF UserThrow, Goto, Excuses, Ending
<1>14. CASE UserExit
    BY <1>a, <1>14 DEF UserExit, Goto, Excuses, Silencers
<1>15. CASE UserLeavesCode \/ UNCHANGED vars
    BY <1>15 DEF UserLeavesCode, vars, Excuses
<1>16. QED
    BY <1>d, <1>e, <1>1, <1>2, <1>3, <1>4, <1>5, <1>6, <1>7, <1>8, <1>9, <1>10, <1>11, <1>12, <1>13, <1>14,
       <1>15 DEF Next, SystemStep, UserStep, UserWarning, Utf8, Printable

-----------------------------------------------------------------------------
(***************************************************************************)
(* execute's buffer and error handler, and the result.                      *)
(***************************************************************************)

\* A handler that neither raises nor tampers prints into execute's buffer, which
\* ob_get_clean() takes away again.
LEMMA UnspoiltStep ==
    ASSUME TypeOK, Control, Unspoilt, [Next]_vars, Control'
    PROVE  Unspoilt'
<1>a. OutputType
    BY TypeIs
<1>1. ASSUME NEW r \in Requests, Receive(r)
      PROVE  Unspoilt'
    BY <1>1 DEF Receive, Goto, Control, Unspoilt, Early, Inside, Ending
<1>2. CASE ExecutorRoute \/ Decode \/ CreateClient \/ ConstructClient \/ EvalArguments
           \/ Finish \/ Respawn \/ Die
    BY <1>2 DEF ExecutorRoute, Decode, CreateClient, ConstructClient, EvalArguments, Finish, Respawn,
                Die, Clear, Goto, Control, Unspoilt, Early, Inside, Ending
<1>3. CASE PlainRoute \/ NoRoute \/ NoClass
    BY <1>3 DEF PlainRoute, NoRoute, NoClass, At, Goto, output, history, Control, Unspoilt, Early,
                Inside, Ending
<1>b. CASE Prologue \/ OutOfMemory
    BY <1>b DEF Prologue, OutOfMemory, At, Goto, Control, Unspoilt, Early, Inside, Ending
<1>4. CASE DecodeFails
    <2>1. Says
        BY <1>4, LogsIs, LogRaisesIs DEF DecodeFails
    <2>2. buffers' = <<>>
        BY <1>a, <1>4, <2>1, SaysBuffers DEF DecodeFails, At, Control, Early
    <2>3. QED
        BY <1>4, <2>2 DEF DecodeFails, At, Goto, Control, Unspoilt, Early, Inside, Ending
<1>5. CASE Execute
    <2>1. buffers = <<>> /\ handlers = 0 /\ printed = <<>>
        BY <1>5 DEF Execute, At, Control, Early
    <2>2. buffers' = <<<<>>>> /\ handlers' = 1 /\ printed' = <<>>
        BY <1>5, <2>1 DEF Execute, history
    <2>3. QED
        BY <1>5, <2>2 DEF Execute, Goto, Unspoilt, Inside
<1>6. CASE Leave
    <2>1. SUFFICES ASSUME ~raised, ~tampered PROVE buffers' = <<>> /\ handlers' = 0
        BY <1>6 DEF Leave, Goto, history, Unspoilt, Inside
    <2>2. Len(buffers) = 1 /\ handlers = 1
        BY <1>6, <2>1 DEF Leave, At, Unspoilt, Inside
    <2>3. Below = <<>>
        <3>1. buffers # <<>> /\ Len(Below) = 0 /\ Below \in Seq(Texts)
            BY <1>a, <2>2, BelowIs
        <3>2. QED
            BY <3>1
    <2>4. QED
        BY <1>6, <2>2, <2>3 DEF Leave, EndClean
<1>7. CASE CatchErrorException \/ CatchException \/ CatchNothing
    <2>1. raised /\ raised' = raised
        BY <1>7 DEF CatchErrorException, CatchException, CatchNothing, At, history, Control
    <2>2. QED
        BY <2>1 DEF Unspoilt
<1>8. CASE Return \/ Resolve
    BY <1>8 DEF Return, Resolve, Respond, At, Goto, output, history, Unspoilt, Inside, Ending
<1>9. CASE ErrorHandler
    <2>1. SUFFICES ASSUME ~raised, ~tampered PROVE buffers' = <<>> /\ handlers' = 0
        BY <1>9 DEF ErrorHandler, Goto, Unspoilt, Inside
    <2>2. buffers = <<>> /\ handlers = 0
        BY <1>9, <2>1 DEF ErrorHandler, At, Unspoilt, Inside, Ending
    <2>3. Says
        BY <1>9, LogsIs, LogRaisesIs DEF ErrorHandler
    <2>4. QED
        BY <1>a, <1>9, <2>2, <2>3, SaysBuffers DEF ErrorHandler
<1>10. CASE Emit
    BY <1>10 DEF Emit, At, Goto, history, Control, Unspoilt, Inside, Ending
<1>11. CASE ShutdownFunctions \/ FlushBuffer
    BY <1>11 DEF ShutdownFunctions, FlushBuffer, At, Goto, output, Unspoilt, Inside, Ending
<1>c. ASSUME Says, Len(buffers) = 1 PROVE Len(buffers') = 1
    <2>1. CASE UNCHANGED output
        BY <1>c, <2>1 DEF output
    <2>2. ASSUME NEW t \in Texts, Write(t) PROVE Len(buffers') = 1
        BY <1>a, <1>c, <2>2, WriteIs
    <2>3. QED
        BY <1>c, <2>1, <2>2 DEF Says
<1>12. ASSUME NEW seg \in {"out", "bin", "diag"}, UserPrint(seg) PROVE Unspoilt'
    <2>a. UserCode /\ Write(<<seg>>) /\ causes' = Blamed
          /\ UNCHANGED <<pc, handlers, reply, tampered, raised>>
        BY <1>12 DEF UserPrint
    <2>b. Says
        BY <2>a, TextsType, WordsAreNoJson DEF Says, Segments
    <2>1. CASE pc = "eval"
        <3>1. SUFFICES ASSUME ~raised, ~tampered
                       PROVE  /\ Len(buffers') = 1 /\ handlers' = 1
                              /\ "log" \notin causes => buffers' = <<printed'>>
            BY <2>a, <2>1 DEF Blamed, Unspoilt, Inside
        <3>2. Len(buffers) = 1 /\ handlers = 1 /\ ("log" \notin causes => buffers = <<printed>>)
            BY <2>1, <3>1 DEF Unspoilt, Inside
        <3>3. ASSUME "log" \notin causes PROVE buffers' = <<printed'>>
            <4>1. buffers = <<printed>> /\ printed \in Texts
                BY <3>2, <3>3 DEF TypeOK
            <4>2. printed' = printed \o <<seg>>
                BY <1>12, <2>1, <4>1, AppendIsConcat DEF UserPrint, Texts, Segments
            <4>3. buffers' = [buffers EXCEPT ![1] = printed \o <<seg>>]
                BY <2>a, <4>1 DEF Write
            <4>4. buffers' = <<printed \o <<seg>>>>
                BY <4>1, <4>3
            <4>5. QED
                BY <4>2, <4>4
        <3>4. QED
            BY <1>c, <2>a, <2>b, <3>2, <3>3
    <2>2. CASE pc # "eval"
        <3>1. pc \in {"return", "shutdown"}
            BY <2>a, <2>2 DEF UserCode
        <3>2. QED
            BY <1>a, <2>a, <2>b, <3>1, SaysBuffers DEF Unspoilt, Inside, Ending
    <2>3. QED
        BY <2>1, <2>2
<1>13. CASE UserBufferStart \/ UserBufferEnd \/ UserHandlers
    BY <1>13 DEF UserBufferStart, UserBufferEnd, UserHandlers, Unspoilt
<1>d. CASE UserWork \/ UserLeavesCode
    <2>1. "log" \notin causes' => "log" \notin causes
        BY <1>d DEF UserWork, UserLeavesCode, Blamed
    <2>2. UNCHANGED <<pc, buffers, handlers, reply, printed, tampered, raised>>
        BY <1>d DEF UserWork, UserLeavesCode, output
    <2>3. QED
        BY <2>1, <2>2 DEF Unspoilt
<1>14. CASE errorHandler
    <2>1. SUFFICES ASSUME ~raised, ~tampered, UNCHANGED <<pc, raised>> PROVE Unspoilt'
        BY <1>14, ErrorHandlerIs DEF Unspoilt
    <2>2. pc = "eval"
        BY <1>14, <2>1, ErrorHandlerIs DEF UserCode, Unspoilt, Inside, Ending
    <2>3. Len(buffers) = 1 /\ handlers = 1 /\ ("log" \notin causes => buffers = <<printed>>)
        BY <2>1, <2>2 DEF Unspoilt, Inside
    <2>4. Len(buffers') = 1 /\ handlers' = 1
        BY <1>c, <1>14, <2>3, ErrorHandlerIs
    <2>5. "log" \notin causes' => buffers' = <<printed'>>
        BY <1>14, <2>2, <2>3, ErrorHandlerIs DEF Blamed, output
    <2>6. QED
        BY <2>1, <2>2, <2>4, <2>5 DEF Unspoilt, Inside
<1>15. ASSUME NEW class, NEW utf8, UserThrow(class, utf8) PROVE Unspoilt'
    BY <1>15 DEF UserThrow, Unspoilt
<1>16. CASE UserReturn
    BY <1>16 DEF UserReturn, At, Goto, output, history, Unspoilt, Inside, Ending
<1>17. CASE UserExit
    BY <1>17 DEF UserExit, UserCode, Goto, Control, Unspoilt, Inside, Ending
<1>18. CASE UNCHANGED vars
    BY <1>18 DEF vars, Unspoilt
<1>19. QED
    BY <1>b, <1>d, <1>1, <1>2, <1>3, <1>4, <1>5, <1>6, <1>7, <1>8, <1>9, <1>10, <1>11, <1>12, <1>13, <1>14,
       <1>15, <1>16, <1>17, <1>18 DEF Next, SystemStep, UserStep, UserWarning, Utf8, Printable

\* The result of a handler is what it printed, or the text of its own error; only
\* text that can be encoded becomes the reply.
LEMMA OutcomeStep ==
    ASSUME TypeOK, Control, Excuses, Unspoilt, Outcome, [Next]_vars, Control'
    PROVE  Outcome'
<1>a. NoReply.kind = "none"
    BY DEF NoReply
<1>b. pc' \notin {"return", "resolve", "emit"} \cup Ending => Outcome'
    BY <1>a DEF Control, Outcome
<1>c. ASSUME UNCHANGED <<result, reply, printed, tampered, raised>>, causes \subseteq causes',
             pc' \in {"return", "resolve"} => pc \in {"return", "resolve"}
      PROVE  Outcome'
    BY <1>c DEF Outcome
<1>d. PlainType
    BY TypeIs
<1>1. ASSUME NEW r \in Requests, Receive(r)
      PROVE  Outcome'
    BY <1>b, <1>1 DEF Receive, Goto, Ending
<1>2. CASE ExecutorRoute \/ NoRoute \/ Decode \/ CreateClient \/ NoClass \/ ConstructClient
           \/ EvalArguments \/ Execute \/ CatchNothing \/ UserReturn \/ Finish \/ Respawn \/ Die
    BY <1>b, <1>2 DEF ExecutorRoute, NoRoute, Decode, CreateClient, NoClass, ConstructClient,
                EvalArguments, Execute, CatchNothing, UserReturn, Finish, Respawn, Die, Goto, Ending
<1>e. CASE Prologue
    BY <1>c, <1>e DEF Prologue, Goto
<1>f. CASE OutOfMemory
    BY <1>a, <1>f DEF OutOfMemory, Goto, Outcome
<1>3. CASE PlainRoute
    BY <1>3 DEF PlainRoute, Goto, Outcome
<1>4. CASE DecodeFails
    BY <1>b, <1>4 DEF DecodeFails, Goto, Outcome, Ending
<1>5. CASE Leave
    <2>1. SUFFICES ASSUME ~tampered, "log" \notin causes PROVE ~raised' /\ result' = printed'
        <3>1. /\ UNCHANGED <<reply, printed, tampered, raised, causes>> /\ pc' = "return"
              /\ ~raised /\ reply = NoReply
            BY <1>5 DEF Leave, At, Goto, history, Control, Inside, Ending
        <3>2. QED
            BY <1>a, <2>1, <3>1 DEF Outcome
    <2>2. ~raised
        BY <1>5 DEF Leave, At, Control, Inside
    <2>3. buffers = <<printed>> /\ buffers # <<>>
        BY <1>5, <2>1, <2>2 DEF Leave, At, Unspoilt, Inside
    <2>4. QED
        BY <1>5, <2>2, <2>3 DEF Leave, Active, history
<1>6. CASE CatchErrorException
    <2>1. CASE result' = getMessage(exc) /\ pc' = "resolve"
        <3>1. raised' /\ reply' = NoReply
            BY <1>6 DEF CatchErrorException, At, Control, Ending
        <3>2. result' \in {ErrorText, <<"bin">>}
            BY <1>6, <2>1, Zenon DEF CatchErrorException, At, Excuses, getMessage
        <3>3. QED
            BY <1>a, <2>1, <3>1, <3>2 DEF Outcome
    <2>2. CASE pc' = "outer"
        BY <1>b, <2>2 DEF Ending
    <2>3. QED
        BY <1>6, <2>1, <2>2 DEF CatchErrorException, Goto
<1>7. CASE CatchException
    BY <1>b, <1>7 DEF CatchException, Respond, Goto, Outcome, Ending
<1>8. CASE Resolve
    <2>1. CASE Encodable(result)
        <3>1. result # <<"bin">>
            BY <2>1 DEF Encodable
        <3>2. /\ pc' = "emit"
              /\ reply' = [kind |-> "resolved", text |-> result, type |-> "application/json"]
            BY <1>8, <2>1 DEF Resolve, Respond, Goto
        <3>3. QED
            BY <1>8, <3>1, <3>2 DEF Resolve, At, history, Outcome
    <2>2. CASE ~Encodable(result)
        BY <1>b, <1>8, <2>2 DEF Resolve, Respond, Goto, Ending
    <2>3. QED
        BY <2>1, <2>2
<1>9. CASE ErrorHandler
    BY <1>a, <1>9 DEF ErrorHandler, At, Goto, Control, Outcome, Ending
<1>10. CASE Return \/ Emit \/ ShutdownFunctions \/ FlushBuffer \/ UserLeavesCode
    BY <1>c, <1>10 DEF Return, Emit, ShutdownFunctions, FlushBuffer, UserLeavesCode, At, Goto, history
<1>11. ASSUME NEW seg, UserPrint(seg) PROVE Outcome'
    <2>1. CASE pc = "eval"
        BY <1>b, <1>11, <2>1 DEF UserPrint, Ending
    <2>2. CASE pc # "eval"
        <3>1. causes \subseteq causes'
            BY <1>d, <1>11, UserCodeIs DEF UserPrint
        <3>2. QED
            BY <1>c, <1>11, <2>2, <3>1 DEF UserPrint
    <2>3. QED
        BY <2>1, <2>2
<1>12. CASE UserBufferStart \/ UserBufferEnd \/ UserHandlers
    BY <1>12 DEF UserBufferStart, UserBufferEnd, UserHandlers, Outcome
<1>13. CASE errorHandler
    <2>1. causes \subseteq causes'
        BY <1>d, <1>13, ErrorHandlerIs, UserCodeIs
    <2>2. CASE UNCHANGED <<exc, raised, pc>>
        BY <1>c, <1>13, <2>1, <2>2, ErrorHandlerIs
    <2>3. CASE pc' = "catch"
        BY <1>b, <2>3 DEF Ending
    <2>4. QED
        BY <1>13, <2>2, <2>3, ErrorHandlerIs
<1>14. ASSUME NEW class, NEW utf8, UserThrow(class, utf8) PROVE Outcome'
    BY <1>b, <1>14 DEF UserThrow, Goto, Ending
<1>15. CASE UserExit \/ UserWork
    <2>1. causes \subseteq causes'
        BY <1>d, <1>15, UserCodeIs DEF UserExit, UserWork
    <2>2. QED
        BY <1>c, <1>15, <2>1 DEF UserExit, UserWork, Goto
<1>16. CASE UNCHANGED vars
    BY <1>16 DEF vars, Outcome
<1>17. QED
    BY <1>e, <1>f, <1>1, <1>2, <1>3, <1>4, <1>5, <1>6, <1>7, <1>8, <1>9, <1>10, <1>11, <1>12, <1>13, <1>14,
       <1>15, <1>16 DEF Next, SystemStep, UserStep, UserWarning, Utf8, Printable

-----------------------------------------------------------------------------
(***************************************************************************)
(* Where the document is.                                                   *)
(***************************************************************************)

\* No document has been echoed.
NoDocument == NoJson(body) /\ \A k \in 1..Len(buffers) : NoJson(buffers[k])

\* Writing text without a document brings none.
LEMMA SaysNoDocument == ASSUME OutputType, Says, NoDocument PROVE NoDocument'
<1>1. CASE UNCHANGED output
    BY <1>1 DEF output, NoDocument
<1>2. ASSUME NEW t \in Texts, NoJson(t), Write(t) PROVE NoDocument'
    <2>1. \A k \in 1..Len(buffers) : buffers[k] \in Texts
        BY DEF OutputType
    <2>2. CASE buffers = <<>> /\ buffers' = <<>> /\ body' = body \o t
        BY <1>2, <2>2, NoJsonConcat DEF NoDocument, OutputType
    <2>3. CASE /\ body' = body
               /\ Len(buffers') = Len(buffers)
               /\ \A k \in 1..Len(buffers) :
                     buffers'[k] = IF k = Len(buffers) THEN buffers[k] \o t ELSE buffers[k]
        <3>1. ASSUME NEW k \in 1..Len(buffers) PROVE NoJson(buffers'[k])
            <4>1. NoJson(buffers[k]) /\ NoJson(buffers[k] \o t)
                BY <1>2, <2>1, NoJsonConcat DEF NoDocument
            <4>2. buffers'[k] = buffers[k] \/ buffers'[k] = buffers[k] \o t
                BY <2>3
            <4>3. QED
                BY <4>1, <4>2
        <3>2. QED
            BY <2>3, <3>1 DEF NoDocument
    <2>4. QED
        BY <1>2, <2>2, <2>3, WriteIs
<1>3. QED
    BY <1>1, <1>2 DEF Says

\* Neither does opening a buffer, or dropping or passing on the active one.
LEMMA BuffersNoDocument ==
    ASSUME OutputType, NoDocument,
           \/ buffers' = Append(buffers, <<>>) /\ body' = body
           \/ Ends
    PROVE  NoDocument'
<1>a. buffers \in Seq(Texts) /\ Len(buffers) \in Nat /\ \A k \in 1..Len(buffers) : buffers[k] \in Texts
    BY DEF OutputType
<1>1. CASE buffers' = Append(buffers, <<>>) /\ body' = body
    <2>1. /\ Len(buffers') = Len(buffers) + 1
          /\ \A k \in 1..Len(buffers) : buffers'[k] = buffers[k]
          /\ buffers'[Len(buffers) + 1] = <<>>
        BY <1>a, <1>1, TextsType, AppendProperties
    <2>2. ASSUME NEW k \in 1..Len(buffers') PROVE NoJson(buffers'[k])
        <3>1. k \in 1..Len(buffers) \/ k = Len(buffers) + 1
            BY <1>a, <2>1
        <3>2. QED
            BY <2>1, <3>1, WordsAreNoJson DEF NoDocument
    <2>3. QED
        BY <1>1, <2>2 DEF NoDocument
<1>2. ASSUME buffers # <<>>, EndClean PROVE NoDocument'
    BY <1>a, <1>2, BelowIs, EndCleanIs DEF NoDocument
<1>3. ASSUME buffers # <<>>, NEW t \in Flushed, EndFlush(t) PROVE NoDocument'
    <2>a. t \in Texts /\ NoJson(t)
        <3>1. Active \in Texts /\ NoJson(Active)
            BY <1>a, <1>3, BelowIs DEF NoDocument, Active
        <3>2. t \in Texts /\ t \in {Active, <<>>, <<"out">>}
            BY <1>3, FlushedIs
        <3>3. QED
            BY <3>1, <3>2, WordsAreNoJson
    <2>1. CASE Len(buffers) = 1 /\ buffers' = <<>> /\ body' = body \o t
        BY <2>a, <2>1, NoJsonConcat DEF NoDocument, OutputType
    <2>2. CASE /\ Len(buffers) > 1 /\ body' = body
               /\ Len(buffers') = Len(buffers) - 1
               /\ \A k \in 1..Len(buffers') :
                     buffers'[k] = IF k = Len(buffers') THEN buffers[k] \o t ELSE buffers[k]
        <3>1. ASSUME NEW k \in 1..Len(buffers') PROVE NoJson(buffers'[k])
            <4>1. k \in 1..Len(buffers)
                BY <1>a, <2>2
            <4>2. NoJson(buffers[k]) /\ NoJson(buffers[k] \o t)
                BY <1>a, <2>a, <4>1, NoJsonConcat DEF NoDocument
            <4>3. buffers'[k] = buffers[k] \/ buffers'[k] = buffers[k] \o t
                BY <2>2
            <4>4. QED
                BY <4>2, <4>3
        <3>2. QED
            BY <2>2, <3>1 DEF NoDocument
    <2>3. QED
        BY <1>3, <2>a, <2>1, <2>2, EndFlushIs
<1>4. QED
    BY <1>1, <1>2, <1>3 DEF Ends

\* The document ends the active buffer, or the body when there is no buffer.
OneDocument ==
    IF buffers = <<>>
    THEN JsonLast(body)
    ELSE /\ NoJson(body)
         /\ \A k \in 1..Len(buffers) :
               IF k = Len(buffers) THEN JsonLast(buffers[k]) ELSE NoJson(buffers[k])

\* Slim's emitter puts it there.
LEMMA EmitDocument == ASSUME OutputType, NoDocument, Emit PROVE OneDocument'
<1>a. <<"json">> \in Texts /\ JsonLast(<<"json">>)
    BY TextsType DEF Segments, JsonLast
<1>b. Len(buffers) \in Nat /\ \A k \in 1..Len(buffers) : buffers[k] \in Texts
    BY DEF OutputType
<1>1. CASE buffers = <<>> /\ buffers' = <<>> /\ body' = body \o <<"json">>
    BY <1>a, <1>1, NoJsonConcat DEF NoDocument, OneDocument, OutputType
<1>2. CASE /\ buffers # <<>> /\ body' = body
           /\ Len(buffers') = Len(buffers)
           /\ \A k \in 1..Len(buffers) :
                 buffers'[k] = IF k = Len(buffers) THEN buffers[k] \o <<"json">> ELSE buffers[k]
    <2>1. buffers' # <<>>
        BY <1>2 DEF OutputType
    <2>2. ASSUME NEW k \in 1..Len(buffers)
          PROVE  IF k = Len(buffers) THEN JsonLast(buffers'[k]) ELSE NoJson(buffers'[k])
        <3>1. NoJson(buffers[k]) /\ JsonLast(buffers[k] \o <<"json">>)
            BY <1>a, <1>b, NoJsonConcat DEF NoDocument
        <3>2. QED
            BY <1>2, <3>1
    <2>3. QED
        BY <1>2, <2>1, <2>2 DEF NoDocument, OneDocument
<1>3. QED
    BY <1>1, <1>2, EmitIs

\* The request shutdown passes it on, always behind what the lower buffers hold.
LEMMA FlushDocument ==
    ASSUME OutputType, OneDocument, buffers # <<>>, EndFlush(Active)
    PROVE  OneDocument'
<1>a. Len(buffers) \in Nat \ {0} /\ \A k \in 1..Len(buffers) : buffers[k] \in Texts
    BY BelowIs DEF OutputType
<1>b. Active = buffers[Len(buffers)] /\ Active \in Texts
    BY BelowIs DEF Active
<1>1. CASE Len(buffers) = 1 /\ buffers' = <<>> /\ body' = body \o Active
    <2>1. JsonLast(Active) /\ NoJson(body) /\ body \in Texts
        BY <1>a, <1>b, <1>1 DEF OneDocument, OutputType
    <2>2. QED
        BY <1>b, <1>1, <2>1, NoJsonConcat DEF OneDocument
<1>2. CASE /\ Len(buffers) > 1 /\ body' = body
           /\ Len(buffers') = Len(buffers) - 1
           /\ \A k \in 1..Len(buffers') :
                 buffers'[k] = IF k = Len(buffers') THEN buffers[k] \o Active ELSE buffers[k]
    <2>1. buffers' # <<>> /\ NoJson(body')
        BY <1>a, <1>2 DEF OneDocument
    <2>2. ASSUME NEW k \in 1..Len(buffers')
          PROVE  IF k = Len(buffers') THEN JsonLast(buffers'[k]) ELSE NoJson(buffers'[k])
        <3>1. k \in 1..Len(buffers) /\ k # Len(buffers) /\ Len(buffers) \in 1..Len(buffers)
            BY <1>a, <1>2
        <3>2. NoJson(buffers[k]) /\ JsonLast(Active)
            BY <1>b, <3>1 DEF OneDocument
        <3>3. JsonLast(buffers[k] \o Active)
            BY <1>a, <1>b, <3>1, <3>2, NoJsonConcat
        <3>4. QED
            BY <1>2, <3>2, <3>3
    <2>3. QED
        BY <2>1, <2>2 DEF OneDocument
<1>3. QED
    BY <1>b, <1>1, <1>2, EndFlushIs

\* The document is echoed once, and stays the last thing.
LEMMA DocumentStep ==
    ASSUME TypeOK, Control, Document, [Next]_vars, Control'
    PROVE  Document'
<1>a. OutputType /\ PlainType
    BY TypeIs
<1>b. pc \notin Ending => NoDocument /\ "memory" \notin causes
    BY DEF Document, NoDocument
<1>c. pc' \notin Ending /\ NoDocument' /\ "memory" \notin causes' => Document'
    BY DEF Document, NoDocument
<1>d. pc' \in Ending /\ reply' = NoReply => Document'
    BY DEF Document
<1>e. UNCHANGED output /\ NoDocument => NoDocument'
    BY DEF output, NoDocument
<1>f. Says /\ NoDocument => NoDocument'
    BY <1>a, SaysNoDocument
<1>g. ASSUME pc' \in Ending, pc \in Ending, reply' = reply, "late" \in causes',
             causes' \in {causes, causes \cup {"late"}}
      PROVE  Document'
    BY <1>g DEF Document
<1>1. ASSUME NEW r \in Requests, Receive(r)
      PROVE  Document'
    BY <1>b, <1>c, <1>e, <1>1 DEF Receive, At, Goto, history, Ending
<1>2. CASE PlainRoute \/ ExecutorRoute \/ NoRoute \/ Decode \/ CreateClient \/ NoClass
           \/ ConstructClient \/ Return \/ CatchNothing \/ UserReturn \/ UserLeavesCode
    BY <1>b, <1>c, <1>e, <1>2 DEF PlainRoute, ExecutorRoute, NoRoute, Decode, CreateClient, NoClass,
       ConstructClient, Return, CatchNothing, UserReturn, UserLeavesCode, At, Goto,
       history, Ending
<1>3. CASE Prologue
    <2>1. CASE pc' = "shutdown"
        BY <1>d, <1>3, <2>1 DEF Prologue, At, Control, Ending
    <2>2. CASE pc' = "route"
        <3>1. Says
            BY <1>3, TextsType, WordsAreNoJson DEF Prologue, Says
        <3>2. "memory" \notin causes'
            BY <1>b, <1>3, <2>2 DEF Prologue, At, Goto, Ending
        <3>3. QED
            BY <1>b, <1>c, <1>f, <1>3, <2>2, <3>1, <3>2 DEF Prologue, At, Ending
    <2>3. QED
        BY <1>3, <2>1, <2>2 DEF Prologue, Goto
<1>4. CASE DecodeFails \/ CatchErrorException \/ CatchException
    <2>1. Says /\ causes' \in {causes, causes \cup {"log"}}
        BY <1>4, LogsIs, LogRaisesIs DEF DecodeFails, CatchErrorException, CatchException
    <2>2. pc \notin Ending /\ pc' \notin Ending
        BY <1>4 DEF DecodeFails, CatchErrorException, CatchException, Respond, At, Goto, Ending
    <2>3. QED
        BY <1>b, <1>c, <1>f, <2>1, <2>2
<1>5. CASE EvalArguments
    <2>1. Says
        BY <1>5, TextsType, WordsAreNoJson DEF EvalArguments, Says
    <2>2. QED
        BY <1>b, <1>c, <1>f, <1>5, <2>1 DEF EvalArguments, At, Goto, history, Ending
<1>6. CASE Execute
    BY <1>a, <1>b, <1>c, <1>6, BuffersNoDocument DEF Execute, At, Goto, history, Ending
<1>7. CASE Leave
    <2>1. NoDocument'
        BY <1>a, <1>b, <1>e, <1>7, BuffersNoDocument DEF Leave, At, Ends, Ending
    <2>2. QED
        BY <1>b, <1>c, <1>7, <2>1 DEF Leave, At, Goto, history, Ending
<1>8. CASE Resolve
    BY <1>b, <1>c, <1>e, <1>8 DEF Resolve, Respond, At, Goto, history, Ending
<1>9. CASE ErrorHandler
    <2>1. Says /\ causes' \in {causes, causes \cup {"log"}}
        BY <1>9, LogsIs, LogRaisesIs DEF ErrorHandler
    <2>2. CASE pc' = "emit"
        BY <1>b, <1>c, <1>f, <1>9, <2>1, <2>2 DEF ErrorHandler, At, Ending
    <2>3. CASE pc' = "shutdown" /\ reply' = reply
        BY <1>d, <1>9, <2>3 DEF ErrorHandler, At, Control, Ending
    <2>4. QED
        BY <1>9, <2>2, <2>3 DEF ErrorHandler, Goto
<1>10. CASE Emit
    <2>1. OneDocument'
        BY <1>a, <1>b, <1>10, EmitDocument DEF Emit, At, Ending
    <2>2. "memory" \notin causes'
        BY <1>b, <1>10 DEF Emit, At, history, Ending
    <2>3. QED
        BY <1>10, <2>1, <2>2 DEF Emit, Goto, Document, OneDocument, Ending
<1>11. CASE OutOfMemory
    BY <1>d, <1>11 DEF OutOfMemory, Goto, Ending
<1>12. CASE ShutdownFunctions
    BY <1>12 DEF ShutdownFunctions, At, Goto, output, Document, Ending
<1>13. CASE FlushBuffer
    <2>1. CASE reply = NoReply
        BY <1>d, <1>13, <2>1 DEF FlushBuffer, At, Ending
    <2>2. CASE reply # NoReply /\ Len(buffers) \in callbacks
        <3>1. /\ pc \in Ending /\ pc' = pc /\ reply' = reply
              /\ causes' = causes \cup {"callback"}
            BY <1>13, <2>2 DEF FlushBuffer, At, Ending
        <3>2. QED
            BY <2>2, <3>1 DEF Document
    <2>3. CASE reply # NoReply /\ Len(buffers) \notin callbacks
        <3>1. pc \in Ending /\ pc' = pc /\ reply' = reply /\ causes' = causes
            BY <1>13, <2>3 DEF FlushBuffer, At, Ending
        <3>2. "memory" \notin causes
            BY <2>3, <3>1 DEF Document
        <3>3. PICK t \in Flushed : EndFlush(t)
            BY <1>13, <3>2 DEF FlushBuffer
        <3>4. buffers # <<>> /\ EndFlush(Active)
            BY <1>a, <1>13, <2>3, <3>3, FlushedIs DEF FlushBuffer
        <3>5. OneDocument => OneDocument'
            BY <1>a, <3>4, FlushDocument
        <3>6. QED
            BY <2>3, <3>1, <3>2, <3>5 DEF Document, OneDocument
    <2>4. QED
        BY <2>1, <2>2, <2>3
<1>14. CASE Finish \/ Respawn \/ Die
    <2>1. pc' \in {"idle", "dead"} /\ NoDocument' /\ causes' = {}
        BY <1>14, WordsAreNoJson DEF Finish, Respawn, Die, Clear, Goto, NoDocument
    <2>2. QED
        BY <1>c, <2>1 DEF Ending
<1>15. ASSUME UserCode, causes' = Blamed, UNCHANGED <<pc, reply>>, NoDocument => NoDocument'
       PROVE  Document'
    <2>1. CASE pc \in Ending
        <3>1. "late" \in causes' /\ causes' \in {causes, causes \cup {"late"}}
            BY <1>a, <1>15, <2>1, UserCodeIs DEF Ending
        <3>2. QED
            BY <1>g, <1>15, <2>1, <3>1
    <2>2. CASE pc \notin Ending
        <3>1. "memory" \notin causes'
            BY <1>a, <1>b, <1>15, <2>2, UserCodeIs
        <3>2. QED
            BY <1>b, <1>c, <1>15, <2>2, <3>1
    <2>3. QED
        BY <2>1, <2>2
<1>16. ASSUME NEW seg \in {"out", "bin", "diag"}, UserPrint(seg) PROVE Document'
    <2>1. <<seg>> \in Texts /\ NoJson(<<seg>>)
        BY TextsType, WordsAreNoJson DEF Segments
    <2>2. Says
        BY <1>16, <2>1 DEF UserPrint, Says
    <2>3. QED
        BY <1>f, <1>15, <1>16, <2>2 DEF UserPrint
<1>17. CASE UserBufferStart \/ UserBufferEnd \/ UserHandlers \/ UserWork
    <2>1. NoDocument => NoDocument'
        BY <1>a, <1>e, <1>17, BuffersNoDocument
           DEF UserBufferStart, UserBufferEnd, UserHandlers, UserWork, Ends
    <2>2. QED
        BY <1>15, <1>17, <2>1 DEF UserBufferStart, UserBufferEnd, UserHandlers, UserWork
<1>18. CASE errorHandler
    <2>1. pc \notin Ending /\ pc' \notin Ending
        BY <1>18, ErrorHandlerIs DEF UserCode, Ending
    <2>2. "memory" \notin causes'
        BY <1>a, <1>b, <1>18, <2>1, ErrorHandlerIs, UserCodeIs
    <2>3. QED
        BY <1>b, <1>c, <1>f, <1>18, <2>1, <2>2, ErrorHandlerIs
<1>19. ASSUME NEW class, NEW utf8, UserThrow(class, utf8) PROVE Document'
    <2>1. pc \notin Ending /\ pc' \notin Ending
        BY <1>19 DEF UserThrow, UserCode, Goto, Ending
    <2>2. "memory" \notin causes'
        BY <1>a, <1>b, <1>19, <2>1, UserCodeIs DEF UserThrow
    <2>3. QED
        BY <1>b, <1>c, <1>e, <1>19, <2>1, <2>2 DEF UserThrow
<1>20. CASE UserExit
    <2>1. pc \in {"eval", "return"}
        BY <1>20 DEF UserExit, UserCode
    <2>2. QED
        BY <1>d, <1>20, <2>1 DEF UserExit, Goto, Control, Ending
<1>21. CASE UNCHANGED vars
    BY <1>21 DEF vars, Document
<1>22. QED
    BY <1>1, <1>2, <1>3, <1>4, <1>5, <1>6, <1>7, <1>8, <1>9, <1>10, <1>11, <1>12, <1>13, <1>14,
       <1>16, <1>17, <1>18, <1>19, <1>20, <1>21 DEF Next, SystemStep, UserStep, UserWarning, Utf8, Printable

-----------------------------------------------------------------------------
(***************************************************************************)
(* What reaches nginx, and the answer.                                      *)
(***************************************************************************)

\* A request that nothing spoils sends nothing before its document: what the
\* handler prints stays in execute's buffer.
LEMMA PureStep ==
    ASSUME TypeOK, Control, Unspoilt, Pure, [Next]_vars, Control'
    PROVE  Pure'
<1>a. OutputType
    BY TypeIs
<1>b. pc' \in Ending /\ reply' = NoReply => Pure'
    BY DEF Pure
<1>c. causes' # {} => Pure'
    BY DEF Pure
<1>1. ASSUME NEW r \in Requests, Receive(r)
      PROVE  Pure'
    <2>1. body = <<>>
        BY <1>1 DEF Receive, At, Control, Early, NoReq, Pure, Ending
    <2>2. QED
        BY <1>1, <2>1 DEF Receive, Goto, output, Pure, Ending
<1>d. CASE Prologue
    BY <1>c, <1>d DEF Prologue, At, Goto, output, Pure, Ending
<1>2. CASE PlainRoute \/ ExecutorRoute \/ NoRoute \/ Decode \/ CreateClient \/ NoClass
           \/ ConstructClient \/ UserReturn \/ Execute \/ Leave \/ Return
    BY <1>2 DEF PlainRoute, ExecutorRoute, NoRoute, Decode, CreateClient, NoClass, ConstructClient,
                UserReturn, Execute, Leave, EndClean, Return, At, Goto, output, history, Pure, Ending
<1>3. CASE DecodeFails
    <2>1. CASE Logs(<<>>) /\ pc' = "emit"
        <3>1. UNCHANGED output \/ "log" \in causes'
            BY <2>1, LogsIs
        <3>2. causes \subseteq causes'
            BY <2>1, LogsIs
        <3>3. QED
            BY <1>3, <2>1, <3>1, <3>2 DEF DecodeFails, At, output, Pure, Ending
    <2>2. CASE (\E class \in Classes : LogRaises(class, <<>>)) /\ pc' = "errorHandler"
        BY <2>2, LogRaisesIs DEF Pure
    <2>3. QED
        BY <1>3, <2>1, <2>2 DEF DecodeFails, Goto
<1>4. CASE EvalArguments
    BY <1>4 DEF EvalArguments, At, Goto, output, history, Pure, Ending
<1>5. CASE CatchErrorException \/ CatchException \/ CatchNothing
    <2>1. raised'
        BY <1>5 DEF CatchErrorException, CatchException, CatchNothing, At, history, Control
    <2>2. QED
        BY <2>1 DEF Pure
<1>6. CASE Resolve
    BY <1>6 DEF Resolve, Respond, At, Goto, output, history, Pure, Ending
<1>7. CASE ErrorHandler
    <2>1. CASE Logs(<<>>) /\ pc' = "emit"
        <3>1. UNCHANGED output \/ "log" \in causes'
            BY <2>1, LogsIs
        <3>2. causes \subseteq causes'
            BY <2>1, LogsIs
        <3>3. QED
            BY <1>7, <2>1, <3>1, <3>2 DEF ErrorHandler, At, output, Pure, Ending
    <2>2. CASE pc' = "shutdown" /\ reply' = reply
        BY <1>b, <1>7, <2>2 DEF ErrorHandler, At, Control, Ending
    <2>3. QED
        BY <1>7, <2>1, <2>2 DEF ErrorHandler, Goto
<1>8. CASE Emit
    <2>1. SUFFICES ASSUME ~raised, ~tampered, req.body # "bare", causes = {}
                   PROVE  body' = <<"json">>
        BY <1>8 DEF Emit, Goto, history, Pure, Ending
    <2>2. body = <<>> /\ buffers = <<>>
        BY <1>8, <2>1 DEF Emit, At, Pure, Unspoilt, Inside, Ending
    <2>3. QED
        BY <1>8, <2>2 DEF Emit
<1>9. CASE FlushBuffer \/ ShutdownFunctions
    <2>1. pc \in Ending /\ pc' \in Ending /\ reply' = reply
        BY <1>9 DEF FlushBuffer, ShutdownFunctions, At, Goto, Ending
    <2>2. CASE reply = NoReply
        BY <1>b, <2>1, <2>2
    <2>3. CASE reply # NoReply
        <3>1. causes \subseteq causes' /\ UNCHANGED <<req, raised, tampered>>
            BY <1>9 DEF FlushBuffer, ShutdownFunctions
        <3>2. ~raised /\ ~tampered => UNCHANGED body
            BY <1>9, <2>1, <2>3 DEF FlushBuffer, ShutdownFunctions, output, Unspoilt, Inside, Ending
        <3>3. QED
            BY <2>1, <2>3, <3>1, <3>2 DEF Pure
    <2>4. QED
        BY <2>2, <2>3
<1>10. CASE Finish \/ Respawn \/ Die
    BY <1>10 DEF Finish, Respawn, Die, Clear, Goto, Pure, Ending
<1>e. ASSUME UserCode, causes' = Blamed, UNCHANGED <<pc, req, reply, tampered, raised>>,
             pc = "eval" /\ ~raised /\ ~tampered /\ causes = {} => body' = body
      PROVE  Pure'
    <2>1. CASE pc = "eval"
        BY <1>e, <2>1 DEF Blamed, Pure, Ending
    <2>2. CASE pc # "eval"
        BY <1>c, <1>e, <2>2 DEF Blamed
    <2>3. QED
        BY <2>1, <2>2
<1>11. ASSUME NEW seg \in {"out", "bin", "diag"}, UserPrint(seg) PROVE Pure'
    <2>1. ASSUME pc = "eval", ~raised, ~tampered, causes = {} PROVE body' = body
        <3>1. buffers = <<printed>>
            BY <2>1 DEF Unspoilt, Inside
        <3>2. QED
            BY <1>11, <3>1 DEF UserPrint, Write
    <2>2. QED
        BY <1>e, <1>11, <2>1 DEF UserPrint
<1>12. CASE UserBufferStart \/ UserBufferEnd \/ UserHandlers
    BY <1>12 DEF UserBufferStart, UserBufferEnd, UserHandlers, Pure
<1>f. CASE UserWork
    BY <1>e, <1>f DEF UserWork, output
<1>g. CASE UserLeavesCode
    BY <1>g DEF UserLeavesCode, output, Pure
<1>13. CASE errorHandler
    <2>1. SUFFICES ASSUME causes' = {}, UNCHANGED <<raised, pc>> PROVE Pure'
        BY <1>c, <1>13, ErrorHandlerIs DEF Pure
    <2>2. UNCHANGED output /\ causes' = Blamed
        BY <1>13, <2>1, ErrorHandlerIs
    <2>3. QED
        BY <1>e, <1>13, <2>1, <2>2, ErrorHandlerIs DEF output
<1>14. ASSUME NEW class, NEW utf8, UserThrow(class, utf8) PROVE Pure'
    BY <1>14 DEF UserThrow, Pure
<1>15. CASE UserExit \/ OutOfMemory
    BY <1>c, <1>15 DEF UserExit, OutOfMemory
<1>16. CASE UNCHANGED vars
    BY <1>16 DEF vars, Pure
<1>17. QED
    BY <1>d, <1>f, <1>g, <1>1, <1>2, <1>3, <1>4, <1>5, <1>6, <1>7, <1>8, <1>9, <1>10, <1>11, <1>12, <1>13, <1>14,
       <1>15, <1>16 DEF Next, SystemStep, UserStep, UserWarning, Utf8, Printable

\* The answer is written when the request ends, from a state of which all the
\* parts above speak, and only changes with the next request.
LEMMA AnswersStep ==
    ASSUME TypeOK, Control, Excuses, Outcome, Document, Pure, Answers, [Next]_vars
    PROVE  Answers'
<1>a. \A r : LET a == [NoAnswer EXCEPT !.how = "lost", !.req = r]
             IN  a.how = "lost" /\ a.kind = "none"
    BY DEF NoAnswer
<1>b. UNCHANGED answer => Answers'
    BY DEF Answers, EnvelopeIsLast, CleanReply, ResolvedIsWhatWasPrinted, SilenceHasACause
<1>1. ASSUME NEW r \in Requests, Receive(r)
      PROVE  Answers'
    BY <1>1 DEF Receive, NoAnswer, Answers, EnvelopeIsLast, CleanReply, ResolvedIsWhatWasPrinted,
                SilenceHasACause
<1>2. CASE Respawn
    <2>1. answer'.how = "lost" /\ answer'.kind = "none"
        BY <1>a, <1>2 DEF Respawn
    <2>2. QED
        BY <2>1 DEF Answers, EnvelopeIsLast, CleanReply, ResolvedIsWhatWasPrinted, SilenceHasACause
<1>3. CASE Finish
    <2>1. /\ answer'.how = (IF reply = NoReply THEN "cut" ELSE "emitted")
          /\ answer'.req = req /\ answer'.body = body /\ answer'.kind = reply.kind
          /\ answer'.text = reply.text /\ answer'.printed = printed
          /\ answer'.tampered = tampered /\ answer'.raised = raised /\ answer'.causes = causes
        BY <1>3 DEF Finish
    <2>2. pc \in Ending /\ buffers = <<>>
        BY <1>3 DEF Finish, At, Ending
    <2>3. EnvelopeIsLast'
        BY <2>1, <2>2 DEF Document, JsonLast, EnvelopeIsLast
    <2>4. CleanReply'
        BY <2>1, <2>2 DEF Pure, CleanReply
    <2>5. ResolvedIsWhatWasPrinted'
        BY <2>1 DEF Outcome, ResolvedIsWhatWasPrinted
    <2>6. SilenceHasACause'
        BY <2>1, <2>2 DEF Excuses, SilenceHasACause
    <2>7. QED
        BY <2>3, <2>4, <2>5, <2>6 DEF Answers
<1>4. CASE Prologue \/ PlainRoute \/ ExecutorRoute \/ NoRoute \/ DecodeFails \/ Decode
           \/ CreateClient \/ NoClass \/ ConstructClient \/ EvalArguments \/ Execute \/ Leave
           \/ Return \/ CatchErrorException \/ CatchException \/ CatchNothing \/ Resolve
           \/ ErrorHandler \/ Emit \/ ShutdownFunctions \/ FlushBuffer
    BY <1>b, <1>4 DEF Prologue, PlainRoute, ExecutorRoute, NoRoute, DecodeFails, Decode,
       CreateClient, NoClass, ConstructClient, EvalArguments, Execute, Leave, Return,
       CatchErrorException, CatchException, CatchNothing, Resolve, ErrorHandler, Emit,
       ShutdownFunctions, FlushBuffer
<1>5. CASE UserStep
    BY <1>b, <1>5 DEF UserStep, UserWork, UserPrint, UserBufferStart, UserBufferEnd, UserHandlers,
       UserLeavesCode, UserWarning, errorHandler, UserThrow, UserReturn, UserExit
<1>6. CASE OutOfMemory \/ Die \/ UNCHANGED vars
    BY <1>b, <1>6 DEF OutOfMemory, Die, vars
<1>7. QED
    BY <1>1, <1>2, <1>3, <1>4, <1>5, <1>6 DEF Next, SystemStep

-----------------------------------------------------------------------------
(***************************************************************************)
(* The theorems.                                                            *)
(***************************************************************************)

\* The invariant holds of a fresh worker.
LEMMA RequestInit == ASSUME Init PROVE RequestInv
<1>1. TypeOK
    <2>1. handlers \in 0..MaxHandlers /\ late \in 0..MaxLate
        BY BoundsAssumption DEF Init
    <2>2. PlainType
        BY <2>1, TextsType, RecordTypes DEF Init, PlainType, Labels
    <2>3. OutputType
        BY TextsType DEF Init, OutputType
    <2>4. answer.how \in {"none", "emitted", "cut", "lost"}
        BY DEF Init, NoAnswer
    <2>5. QED
        BY <2>2, <2>3, <2>4, TypeIs
<1>2. Control /\ Excuses /\ Unspoilt
    BY DEF Init, Control, Excuses, Unspoilt, Early, Inside, Ending, NoExc
<1>3. Outcome /\ Document /\ Pure
    BY DEF Init, Outcome, Document, Pure, Ending, NoJson, NoReply
<1>4. Answers
    BY DEF Init, NoAnswer, Answers, EnvelopeIsLast, CleanReply, ResolvedIsWhatWasPrinted,
           SilenceHasACause
<1>5. QED
    BY <1>1, <1>2, <1>3, <1>4 DEF RequestInv

\* Every step of index.php, of PHP and of the handler code keeps the invariant.
LEMMA RequestInvariant == Spec => []RequestInv
<1>1. ASSUME RequestInv, [Next]_vars PROVE RequestInv'
    <2>1. TypeOK' /\ Control' /\ Excuses'
        BY <1>1, TypeStep, ControlStep, ExcusesStep DEF RequestInv
    <2>2. Unspoilt' /\ Outcome' /\ Document' /\ Pure'
        BY <1>1, <2>1, UnspoiltStep, OutcomeStep, DocumentStep, PureStep DEF RequestInv
    <2>3. Answers'
        BY <1>1, AnswersStep DEF RequestInv
    <2>4. QED
        BY <2>1, <2>2, <2>3 DEF RequestInv
<1>2. QED
    BY <1>1, RequestInit, PTL DEF Spec

\* The state of a request keeps its types: in particular execute never exceeds the
\* depth of the stack of error handlers, because it finds none installed.
THEOREM RequestTypes == Spec => []TypeOK
<1>1. RequestInv => TypeOK
    BY DEF RequestInv
<1>2. QED
    BY <1>1, RequestInvariant, PTL

\* However many buffers the handler code leaves open, a reply that Slim emits reaches
\* nginx once, and last, unless a buffer that is flushed at the end has a callback or
\* code that the handler left behind ran after it.
THEOREM EnvelopeComesLast == Spec => []EnvelopeIsLast
<1>1. RequestInv => EnvelopeIsLast
    BY DEF RequestInv, Answers
<1>2. QED
    BY <1>1, RequestInvariant, PTL

\* A handler that returns normally, leaves buffers and error handlers alone and leaves
\* no code behind that runs gets one document and nothing else, where the extension,
\* the log and the memory do not fail.
THEOREM CleanHandlersGetOneDocument == Spec => []CleanReply
<1>1. RequestInv => CleanReply
    BY DEF RequestInv, Answers
<1>2. QED
    BY <1>1, RequestInvariant, PTL

\* All that a handler prints, in order, is what it resolves to, also when it caught the
\* exceptions of errorHandler, as long as the log could be written; a handler that
\* raised resolves to the text of its own error.
THEOREM HandlersResolveToTheirOutput == Spec => []ResolvedIsWhatWasPrinted
<1>1. RequestInv => ResolvedIsWhatWasPrinted
    BY DEF RequestInv, Answers
<1>2. QED
    BY <1>1, RequestInvariant, PTL

\* A request that ends without a document has a reason.
THEOREM NoSilenceWithoutACause == Spec => []SilenceHasACause
<1>1. RequestInv => SilenceHasACause
    BY DEF RequestInv, Answers
<1>2. QED
    BY <1>1, RequestInvariant, PTL

\* execute's buffer and error handler only outlive it after a throw, or when the
\* handler code changed them itself.
THEOREM ExecuteCleansUp == Spec => []LeftoversOnlyAfterThrow
<1>1. RequestInv => LeftoversOnlyAfterThrow
    BY DEF RequestInv, Control, Unspoilt, LeftoversOnlyAfterThrow, Inside, Ending
<1>2. QED
    BY <1>1, RequestInvariant, PTL
=============================================================================
