----------------------------- MODULE HttpParser -----------------------------
(***************************************************************************)
(* JsonHttpParser: the callbacks that fill an HttpRequest while llhttp     *)
(* runs over a buffer, and the validators that follow.                     *)
(*                                                                         *)
(* A client sends messages; the buffer the server reads holds one or more  *)
(* of them, up to a cut: the buffer's end or what had arrived.  llhttp is  *)
(* external: for a buffer it calls back in the order of the text, with the *)
(* part of a token that is there if the buffer ends inside it, and stops   *)
(* with an error at text that is no HTTP, or a pause, which is an error to *)
(* parseRequest, after a message that asks for another protocol.           *)
(*                                                                         *)
(* A message's headers are those before its body, `lead' of them, and the  *)
(* trailers after a body in chunks.  A body is a sequence of bytes; if it  *)
(* is not in chunks, one of the headers, in either spelling, has its       *)
(* length.  What follows a message depends on what llhttp makes of its     *)
(* headers: the `connection' is kept alive, closed or upgraded.            *)
(***************************************************************************)
EXTENDS Naturals, Sequences, FiniteSets

CONSTANTS
    Messages,   \* bound: the messages clients may send
    MaxTogether \* bound: messages in one buffer

\* llhttp compares header names without case, the validators with case.
ContentLength == "Content-Length"
LowerLength == "content-length"
ContentType == "Content-Type"
Json == "application/json"

\* std::stoll of the lengths that occur.
Number == [digit \in {"0", "1", "2", "3"} |->
              CHOOSE n \in 0 .. 3 : digit = <<"0", "1", "2", "3">>[n + 1]]

\* The value of the first header of a name is `value'.
HasFirst(m, field, value) ==
    \E i \in DOMAIN m.headers :
        /\ m.headers[i] = <<field, value>>
        /\ \A j \in 1 .. i - 1 : m.headers[j][1] # field

Lengths(m) == {i \in DOMAIN m.headers : m.headers[i][1] \in {ContentLength, LowerLength}}

\* A length in the trailers is no length to llhttp: it may be any.
ASSUME MessagesAssumption ==
    \A m \in Messages :
        /\ m.headers \in Seq(STRING \X STRING) /\ m.lead \in 0 .. Len(m.headers)
        /\ m.chunks \in Seq(Seq(STRING) \ {<<>>})
        /\ m.connection \in {"keep-alive", "close", "upgrade"}
        /\ Cardinality(Lengths(m)) <= 1
        /\ \A i \in Lengths(m) : m.headers[i][2] \in DOMAIN Number
        /\ IF m.chunked
             THEN \A i \in Lengths(m) : i > m.lead
             ELSE /\ m.lead = Len(m.headers) /\ Len(m.chunks) <= Cardinality(Lengths(m))
                  /\ \A i \in Lengths(m) :
                        Number[m.headers[i][2]] =
                            IF m.chunks = <<>> THEN 0 ELSE Len(m.chunks[1])

VARIABLES
    buffer,     \* the messages of the buffer that is parsed; whether it holds them whole
    events,     \* what llhttp has yet to report of it
    machine,    \* llhttp's own state: "start", or "inside" a text
    state,      \* HttpRequestParsingState
    outcome     \* "idle", "parsing", or what parseRequest did: "returned", "threw"

vars == <<buffer, events, machine, state, outcome>>

-----------------------------------------------------------------------------
(* llhttp *)

Event(kind, arg) == [kind |-> kind, arg |-> arg]

HeaderEvents(header) == <<Event("field", header[1]), Event("value", header[2]),
                          Event("complete", "")>>

\* f(1) \o f(2) \o ... \o f(n)
Concat(f) == LET upTo[i \in 0 .. Len(f)] == IF i = 0 THEN <<>> ELSE upTo[i - 1] \o f[i]
             IN  upTo[Len(f)]

HeadersEvents(headers) == Concat([i \in DOMAIN headers |-> HeaderEvents(headers[i])])

\* HPE_PAUSED_UPGRADE comes at once with the end of a body that has a length; the end
\* of any other message is text of its own.
PauseAtOnce == Event("error", "pause")
Pause(m) == IF m.connection # "upgrade" THEN <<>>
            ELSE <<IF m.chunked THEN Event("error", "") ELSE PauseAtOnce>>

EventsOf(m) ==
    <<Event("method", m.method), Event("url", m.path), Event("version", m.version)>>
    \o HeadersEvents(SubSeq(m.headers, 1, m.lead))
    \o [i \in DOMAIN m.chunks |-> Event("body", m.chunks[i])]
    \o HeadersEvents(SubSeq(m.headers, m.lead + 1, Len(m.headers)))
    \o Pause(m)

\* Text after a message that closes the connection is an error.
AllEvents(ms) ==
    Concat([i \in DOMAIN ms |->
        IF i > 1 /\ ms[i - 1].connection = "close"
          THEN <<Event("error", "")>>
          ELSE EventsOf(ms[i])])

\* What is reported of a token the buffer ends in.
Partial(event) ==
    IF event.kind = "body"
      THEN {Event("body", SubSeq(event.arg, 1, n)) : n \in 1 .. Len(event.arg) - 1}
    ELSE IF event.kind \in {"method", "url", "version", "field", "value"}
      THEN {Event(event.kind, "part")}
    ELSE {}

\* The pause comes with the token before.
PausesAt(all, n) ==
    n \in 1 .. Len(all) - 1 /\ all[n].kind = "body" /\ all[n + 1] = PauseAtOnce

\* The events of a buffer that ends after n whole tokens, or inside the next, or
\* goes on with text that is no HTTP.
CutAfter(all, n) ==
    LET whole == SubSeq(all, 1, n)
    IN  {Append(whole, Event("error", ""))}
        \union (IF PausesAt(all, n) THEN {} ELSE {whole})
        \union (IF n = Len(all) THEN {} ELSE {Append(whole, e) : e \in Partial(all[n + 1])})

-----------------------------------------------------------------------------
(* The parser *)

NoHeaders == [f \in {} |-> ""]
NoRequest == [method |-> "UNKNOWN", path |-> "", version |-> "", headers |-> NoHeaders,
              body |-> <<>>]
Fresh == [request |-> NoRequest, field |-> "", value |-> ""]

NoBuffer == [messages |-> <<>>, whole |-> TRUE]

Init ==
    /\ buffer = NoBuffer
    /\ events = <<>>
    /\ machine = "start"
    /\ state = Fresh
    /\ outcome = "idle"

\* parseRequest begins.  A machine that was not reset takes the text for the rest
\* of the last one, or reports its last error again.
ParseRequest ==
    /\ outcome = "idle"
    /\ \E k \in 1 .. MaxTogether : \E ms \in [1 .. k -> Messages] :
        LET all == AllEvents(ms)
        IN  \E n \in 0 .. Len(all) : \E es \in CutAfter(all, n) :
            /\ buffer' = [messages |-> ms, whole |-> es = all]
            /\ events' = IF machine = "start" THEN es ELSE <<Event("error", "")>>
    /\ state' = Fresh
    /\ outcome' = "parsing"
    /\ UNCHANGED machine

\* llhttp reports an event; the callback changes the state.
Reports(kind) ==
    /\ outcome = "parsing"
    /\ events # <<>>
    /\ Head(events).kind = kind
    /\ events' = Tail(events)
    /\ machine' = "inside"
    /\ UNCHANGED <<buffer, outcome>>

Assign(part, value) ==
    state' = [state EXCEPT !.request = [@ EXCEPT ![part] = value]]

\* httpMethodFromString
MethodOf(name) == IF name \in {"GET", "POST"} THEN name ELSE "UNKNOWN"

\* Faulty variant: the first path is kept.
OnUrlOnce ==
    /\ Reports("url")
    /\ IF state.request.path # "" THEN UNCHANGED state ELSE Assign("path", Head(events).arg)

OnMethod == Reports("method") /\ Assign("method", MethodOf(Head(events).arg))
OnUrl == Reports("url") /\ Assign("path", Head(events).arg)
OnVersion == Reports("version") /\ Assign("version", Head(events).arg)

\* Only the last piece of a body in chunks, or of the bodies of two messages, stays.
OnBody == Reports("body") /\ Assign("body", Head(events).arg)

OnHeaderField == Reports("field") /\ state' = [state EXCEPT !.field = Head(events).arg]
OnHeaderValue == Reports("value") /\ state' = [state EXCEPT !.value = Head(events).arg]

\* Faulty variant: the last value of a field is kept.
ExtendLast(headers, field, value) ==
    [f \in DOMAIN headers \union {field} |-> IF f = field THEN value ELSE headers[f]]

\* unordered_map::emplace keeps the first value of a field.
Extend(headers, field, value) ==
    [f \in DOMAIN headers \union {field} |->
        IF f \in DOMAIN headers THEN headers[f] ELSE value]

AddHeader == state' =
    [request |-> [state.request EXCEPT !.headers = Extend(@, state.field, state.value)],
     field |-> "", value |-> ""]

\* Faulty variant: empty fields and values are accepted.
OnHeaderValueCompleteAny == Reports("complete") /\ AddHeader

OnHeaderValueComplete ==
    /\ state.field # "" /\ state.value # ""
    /\ Reports("complete")
    /\ AddHeader

\* Faulty variant: parseRequest is left without the reset.
KeepMachine == UNCHANGED machine

\* rechargeParserOnExit: llhttp_reset and llhttp_init.
Recharge == machine' = "start"

Leave(how) ==
    /\ outcome = "parsing"
    /\ outcome' = how
    /\ events' = <<>>
    /\ Recharge
    /\ UNCHANGED <<buffer, state>>

\* llhttp finds an error, or onHeaderValueComplete_ reports one; or there is no text.
ThrowParsing ==
    /\ \/ events # <<>> /\ Head(events).kind = "error"
       \/ /\ events # <<>> /\ Head(events).kind = "complete"
          /\ state.field = "" \/ state.value = ""
       \/ events = <<>> /\ machine = "start"
    /\ Leave("threw")

\* Faulty variant: a body that is too short is not noticed.
ValidRequestAnyLength(r) ==
    /\ r.path # "" /\ r.version # "" /\ DOMAIN r.headers # {}
    /\ r.method # "GET" => r.body # <<>>
    /\ r.method = "POST" =>
        /\ {ContentLength, ContentType} \subseteq DOMAIN r.headers
        /\ r.headers[ContentType] = Json

\* validators_
ValidRequest(r) ==
    /\ r.path # "" /\ r.version # "" /\ DOMAIN r.headers # {}
    /\ r.method # "GET" => r.body # <<>>
    /\ r.method = "POST" =>
        /\ {ContentLength, ContentType} \subseteq DOMAIN r.headers
        /\ Number[r.headers[ContentLength]] = Len(r.body)
        /\ r.headers[ContentType] = Json

Finished == events = <<>> /\ machine # "start"
Return == Finished /\ ValidRequest(state.request) /\ Leave("returned")
ThrowValidation == Finished /\ ~ValidRequest(state.request) /\ Leave("threw")

\* The caller is done with the outcome; the parser stays.
NextBuffer ==
    /\ outcome \in {"returned", "threw"}
    /\ outcome' = "idle"
    /\ buffer' = NoBuffer
    /\ state' = Fresh
    /\ UNCHANGED <<events, machine>>

Next ==
    \/ ParseRequest \/ NextBuffer
    \/ OnMethod \/ OnUrl \/ OnVersion \/ OnBody
    \/ OnHeaderField \/ OnHeaderValue \/ OnHeaderValueComplete
    \/ ThrowParsing \/ ThrowValidation \/ Return

Spec == Init /\ [][Next]_vars

-----------------------------------------------------------------------------
(* Properties *)

Texts == {"", "part"} \union UNION {{m.path, m.version} : m \in Messages}

TypeOK ==
    /\ outcome \in {"idle", "parsing", "returned", "threw"}
    /\ buffer.messages \in Seq(Messages) /\ (outcome # "idle" => buffer.messages # <<>>)
    /\ machine \in {"start", "inside"}
    /\ DOMAIN state = DOMAIN Fresh /\ DOMAIN state.request = DOMAIN NoRequest
    /\ outcome # "parsing" => machine = "start" /\ events = <<>>
    /\ state.request.method \in {"GET", "POST", "UNKNOWN"}
    /\ {state.request.path, state.request.version} \subseteq Texts
    /\ \A f \in DOMAIN state.request.headers : f # "" /\ state.request.headers[f] # ""

Returned == outcome = "returned"
Lone == Len(buffer.messages) = 1

LastPiece(m) == IF m.chunks = <<>> THEN <<>> ELSE m.chunks[Len(m.chunks)]

\* The first bytes of a body, or of one of its chunks.
IsPiece(m, body) ==
    \/ body = <<>>
    \/ \E i \in DOMAIN m.chunks : \E n \in 1 .. Len(m.chunks[i]) :
            body = SubSeq(m.chunks[i], 1, n)

\* The request of a buffer with one message is that message: its line is whole, and
\* each header is the first of its name.  The body is nothing, or the first bytes of
\* the message's body or of one of its chunks.  It is the whole body or the whole last
\* chunk if the message is whole, or the request a POST; chunks before are lost.
LoneRequestIsItsMessage ==
    Returned /\ Lone =>
        LET m == buffer.messages[1]
            r == state.request
        IN  /\ r.method = MethodOf(m.method) /\ r.path = m.path /\ r.version = m.version
            /\ \A f \in DOMAIN r.headers : HasFirst(m, f, r.headers[f])
            /\ IsPiece(m, r.body)
            /\ buffer.whole \/ r.method = "POST" => r.body = LastPiece(m)

\* A POST that is accepted from a buffer with one message arrived whole: what the
\* buffer's end, or the network, has cut off is never missing from a stored event.  Not
\* so if it is in chunks, with a trailer that has the length of the last one.
AcceptedPostIsWhole ==
    Returned /\ Lone /\ state.request.method = "POST" =>
        buffer.whole \/ buffer.messages[1].chunked

\* A message of the form the server asks for.  (llhttp may refuse the length in a
\* trailer; it pauses after a message that upgrades the connection.)
WellFormed(m) ==
    /\ m.connection # "upgrade" /\ (m.chunked => Lengths(m) = {})
    /\ m.path # "" /\ m.version # "" /\ m.headers # <<>>
    /\ \A i \in DOMAIN m.headers : m.headers[i][1] # "" /\ m.headers[i][2] # ""
    /\ m.method \in {"GET", "POST"}
    /\ m.method = "POST" =>
        /\ ~m.chunked /\ m.chunks # <<>>
        /\ HasFirst(m, ContentType, Json)
        /\ \E i \in Lengths(m) : m.headers[i][1] = ContentLength

\* A well-formed message that arrives whole and alone is accepted, whatever this
\* parser was given before.
WellFormedIsAccepted ==
    outcome = "threw" /\ Lone /\ buffer.whole => ~WellFormed(buffer.messages[1])

\* Of messages that arrive whole in one buffer the line of the last is returned;
\* the others are not answered.  (Headers and body may be those of the others.)
LastOfManyIsReturned ==
    Returned /\ buffer.whole =>
        LET m == buffer.messages[Len(buffer.messages)]
        IN  /\ state.request.method = MethodOf(m.method)
            /\ state.request.path = m.path /\ state.request.version = m.version

-----------------------------------------------------------------------------
(* The inductive invariant of the proofs *)

\* What the request takes from an event.
Told(event) == IF event.kind = "method" THEN MethodOf(event.arg) ELSE event.arg

\* After k events x is what the last one of a kind told, or still `first'.
IsLatest(x, first, kind, es, k) ==
    \/ x = first /\ \A i \in 1 .. k : es[i].kind # kind
    \/ \E i \in 1 .. k :
        /\ es[i].kind = kind /\ x = Told(es[i])
        /\ \A j \in i + 1 .. k : es[j].kind # kind

LineIsRead(es, k) ==
    /\ IsLatest(state.request.method, "UNKNOWN", "method", es, k)
    /\ IsLatest(state.request.path, "", "url", es, k)
    /\ IsLatest(state.request.version, "", "version", es, k)
    /\ IsLatest(state.request.body, <<>>, "body", es, k)

\* Event i completes a header, named by the event two before it.
Completes(es, i, field) == es[i].kind = "complete" /\ es[i - 2].arg = field

\* After k events the headers are those that are complete, the first of each name.
HeadersAreRead(es, k) ==
    LET headers == state.request.headers
    IN  /\ k > 0 /\ es[k].kind = "field" => state.field = es[k].arg
        /\ k > 0 /\ es[k].kind = "value" =>
                state.value = es[k].arg /\ state.field = es[k - 1].arg
        /\ \A f \in DOMAIN headers : \E i \in 1 .. k :
                /\ Completes(es, i, f) /\ headers[f] = es[i - 1].arg
                /\ \A j \in 1 .. i - 1 : ~Completes(es, j, f)
        /\ \A i \in 1 .. k : es[i].kind = "complete" => es[i - 2].arg \in DOMAIN headers

\* The parser has read k of the events es without an error.
HasRead(es, k) ==
    /\ events = SubSeq(es, k + 1, Len(es))
    /\ machine = IF k = 0 THEN "start" ELSE "inside"
    /\ \A i \in 1 .. k : es[i].kind # "error"
    /\ LineIsRead(es, k) /\ HeadersAreRead(es, k)

\* The parser is reading the events of its buffer, and no other's.
BufferIsRead ==
    outcome = "parsing" =>
        LET all == AllEvents(buffer.messages)
        IN  \E n \in 0 .. Len(all) : \E es \in CutAfter(all, n) :
                /\ buffer.whole <=> es = all
                /\ \E k \in 0 .. Len(es) : HasRead(es, k)

IInv ==
    /\ TypeOK /\ BufferIsRead
    /\ LoneRequestIsItsMessage /\ AcceptedPostIsWhole
    /\ WellFormedIsAccepted /\ LastOfManyIsReturned

=============================================================================
