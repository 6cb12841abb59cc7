------------------------------ MODULE HttpServer ------------------------------
(***************************************************************************)
(* agora::net::http::HttpServer and the HttpContext of one connection: how   *)
(* requests are parsed out of the input buffer as their bytes arrive, handed *)
(* to httpCallback_ and answered.                                            *)
(*                                                                         *)
(* What stands between two CRLFs is one symbol: "request" for a request line *)
(* the parser accepts, "header" for a line with a colon, "text" for any      *)
(* other.  A line is named by the place it starts at.                        *)
(***************************************************************************)
EXTENDS Naturals, Sequences, FiniteSets

CONSTANT MaxSymbols  \* bound: what the peer sends

ASSUME MaxSymbolsAssumption == MaxSymbols \in Nat

VARIABLES
    arrived,         \* all the peer has sent on the connection
    taken,           \* how much of it is in inputBuffer_ or has been there
    consumed,        \* how much was retrieved
    state,           \* state_ of the context; nothing enters kExpectBody
    request,         \* request_: its request line and its header lines
    parsing,         \* onMessage is in progress
    conn,            \* of the connection: "up", "shut" after shutdown(), "down"
    calls,           \* history: the requests httpCallback_ was called with
    answers,         \* history: what was answered while the connection was up
    polite           \* the peer waits for the answer before it sends more

peer == <<arrived, polite>>
context == <<state, request>>
vars == <<peer, taken, consumed, context, parsing, conn, calls, answers>>

ParseStates == {"kExpectRequestLine", "kExpectHeaders", "kExpectBody", "kGotAll"}
Content == {"request", "header", "text"}
Symbols == Content \cup {"cr", "lf"}
NoRequest == [line |-> 0, headers |-> {}]
BadRequest == [line |-> 0, headers |-> {0}]

\* onConnection gives a new connection a new context.
Init ==
    /\ arrived = <<>> /\ taken = 0 /\ consumed = 0
    /\ state = "kExpectRequestLine" /\ request = NoRequest
    /\ parsing = FALSE
    /\ conn = "up"
    /\ calls = <<>> /\ answers = <<>>
    /\ polite \in BOOLEAN

-----------------------------------------------------------------------------
(* All at once: what a stream says, for reference *)

LineEnds(s) == {i \in 1 .. Len(s) - 1 : s[i] = "cr" /\ s[i + 1] = "lf"}
LineStarts(s) == {1} \cup {i + 2 : i \in LineEnds(s)}
Least(S) == CHOOSE i \in S : \A j \in S : i <= j
EndOf(s, p) == Least({i \in LineEnds(s) : p <= i})
Whole(s, p) == \E i \in LineEnds(s) : p <= i
Text(s, p) == SubSeq(s, p, EndOf(s, p) - 1)

\* The header section that begins behind p ends with a line without a colon.
HeadersEnd(s, p) ==
    {q \in LineStarts(s) : p < q /\ Whole(s, q) /\ Text(s, q) # <<"header">>}

\* The requests in s from each place on, up to the first line that should be a
\* request line and is not.
MessagesFrom(s) ==
    LET from[p \in 1 .. Len(s) + 1] ==
          CASE ~Whole(s, p) -> <<>>
            [] Whole(s, p) /\ Text(s, p) # <<"request">> -> <<BadRequest>>
            [] Whole(s, p) /\ Text(s, p) = <<"request">> /\ HeadersEnd(s, p) = {} -> <<>>
            [] OTHER ->
                 LET q == Least(HeadersEnd(s, p))
                 IN  <<[line    |-> p,
                        headers |-> {h \in LineStarts(s) : p < h /\ h < q}]>>
                       \o from[EndOf(s, q) + 2]
    IN  from

Messages(s) == MessagesFrom(s)[1]

Unanswered == Len(answers) < Len(Messages(arrived))

-----------------------------------------------------------------------------
(* The peer *)

\* It sends lines, each of one symbol at most; a segment may end anywhere.
Follows(x) ==
    LET last == IF arrived = <<>> THEN "lf" ELSE arrived[Len(arrived)]
    IN  CASE last \in Content -> x = "cr"
          [] last = "cr" -> x = "lf"
          [] last = "lf" -> x \in Content \cup {"cr"}

PeerSends(x) ==
    /\ conn # "down"
    /\ Len(arrived) < MaxSymbols
    /\ Follows(x)
    /\ polite => conn = "up" /\ ~Unanswered
    /\ arrived' = Append(arrived, x)
    /\ UNCHANGED <<polite, taken, consumed, context, parsing, conn, calls,
                   answers>>

\* handleRead finds the end of the stream, or the connection breaks.
Closes ==
    /\ ~parsing
    /\ conn # "down"
    /\ conn' = "down"
    /\ UNCHANGED <<peer, taken, consumed, context, parsing, calls, answers>>

-----------------------------------------------------------------------------
(* onMessage *)

HandleRead ==
    /\ ~parsing
    /\ conn # "down"
    /\ taken < Len(arrived)
    /\ taken' = Len(arrived)
    /\ parsing' = TRUE
    /\ UNCHANGED <<peer, consumed, context, conn, calls, answers>>

\* send() and shutdown() of a connection that is not kConnected do nothing.
Send(answer) ==
    answers' = IF conn = "up" THEN Append(answers, answer) ELSE answers

ShutdownAfter(last) ==
    conn' = IF last /\ conn = "up" THEN "shut" ELSE conn

FindCRAlone ==
    {i \in consumed + 1 .. taken : arrived[i] = "cr"}

\* Where findCRLF may find one in the buffer.
FindCRLF ==
    {i \in consumed + 1 .. taken - 1 : arrived[i] = "cr" /\ arrived[i + 1] = "lf"}

Line == SubSeq(arrived, consumed + 1, Least(FindCRLF) - 1)

\* parseRequest finds a whole line in one of its states.
ParsesLine(st) ==
    /\ parsing
    /\ state = st
    /\ FindCRLF # {}

\* retrieveUntil(crlf + 2)
RetrieveLine == consumed' = Least(FindCRLF) + 1

ProcessRequestLine ==
    /\ ParsesLine("kExpectRequestLine")
    /\ Line = <<"request">>
    /\ request' = [request EXCEPT !.line = consumed + 1]
    /\ state' = "kExpectHeaders"
    /\ RetrieveLine
    /\ UNCHANGED <<peer, taken, parsing, conn, calls, answers>>

\* The line stays in the buffer, and so fails again with the next message.
RefuseRequestLine ==
    /\ ParsesLine("kExpectRequestLine")
    /\ Line # <<"request">>
    /\ Send(BadRequest)
    /\ ShutdownAfter(TRUE)
    /\ parsing' = FALSE
    /\ UNCHANGED <<peer, taken, consumed, context, calls>>

AddHeaderAndStop ==
    /\ ParsesLine("kExpectHeaders")
    /\ Line = <<"header">>
    /\ request' = [request EXCEPT !.headers = @ \cup {consumed + 1}]
    /\ RetrieveLine
    /\ parsing' = FALSE
    /\ UNCHANGED <<peer, taken, state, conn, calls, answers>>

AddHeader ==
    /\ ParsesLine("kExpectHeaders")
    /\ Line = <<"header">>
    /\ request' = [request EXCEPT !.headers = @ \cup {consumed + 1}]
    /\ RetrieveLine
    /\ UNCHANGED <<peer, taken, state, parsing, conn, calls, answers>>

\* Any line without a colon ends the headers.
EndHeaders ==
    /\ ParsesLine("kExpectHeaders")
    /\ Line # <<"header">>
    /\ state' = "kGotAll"
    /\ RetrieveLine
    /\ UNCHANGED <<peer, taken, request, parsing, conn, calls, answers>>

AwaitMore ==
    /\ parsing
    /\ state # "kGotAll" /\ FindCRLF = {}
    /\ parsing' = FALSE
    /\ UNCHANGED <<peer, taken, consumed, context, conn, calls, answers>>

ResetStateOnly ==
    /\ state' = "kExpectRequestLine"
    /\ UNCHANGED request

Reset ==
    /\ state' = "kExpectRequestLine"
    /\ request' = NoRequest

\* httpCallback_ leaves the response closing, as it is made, or not.
Respond ==
    /\ parsing
    /\ state = "kGotAll"
    /\ calls' = Append(calls, request)
    /\ Send(request)
    /\ \E closing \in BOOLEAN :
          /\ ShutdownAfter(closing)
          /\ IF closing THEN UNCHANGED context ELSE Reset
    /\ parsing' = FALSE
    /\ UNCHANGED <<peer, taken, consumed>>

-----------------------------------------------------------------------------

OnMessage ==
    \/ HandleRead \/ ProcessRequestLine \/ RefuseRequestLine
    \/ AddHeader \/ EndHeaders \/ AwaitMore \/ Respond

Next == OnMessage \/ Closes \/ (\E x \in Symbols : PeerSends(x))

Spec == Init /\ [][Next]_vars

\* The loop's thread goes on, and callbacks return.
FairSpec == Spec /\ WF_vars(OnMessage)

-----------------------------------------------------------------------------
(* Properties *)

Requests == [line : Nat, headers : SUBSET Nat]

\* The types of the variables; the parser retrieves what is in the buffer.
TypeOK ==
    /\ arrived \in Seq(Symbols)
    /\ taken \in 0 .. Len(arrived)
    /\ consumed \in 0 .. taken
    /\ state \in ParseStates \ {"kExpectBody"}
    /\ request \in Requests
    /\ {parsing, polite} \subseteq BOOLEAN
    /\ conn \in {"up", "shut", "down"}
    /\ calls \in Seq(Requests)
    /\ answers \in Seq(Requests)

\* However the stream is cut into segments, also between CR and LF, and whatever
\* is kept between messages, the answers are those to the requests of the
\* stream read at once: in order, each with its own headers, none left out and
\* none invented.  And the callback is called once for each, as long as the
\* connection is not shut down, or ever if the peer waits for its answers.
AnsweredInOrder ==
    /\ \E n \in 0 .. Len(Messages(arrived)) :
           answers = SubSeq(Messages(arrived), 1, n)
    /\ polite \/ conn = "up" =>
           \A i, j \in DOMAIN calls : calls[i] = calls[j] => i = j

\* A request is answered once it is there, however it came, for a peer that
\* waits for its answers; what the parser leaves in the buffer behind a request
\* would wait for more input.
RequestIsAnswered == polite /\ Unanswered ~> ~Unanswered \/ conn = "down"

-----------------------------------------------------------------------------
(* The inductive invariant behind AnsweredInOrder *)

\* The streams that begin with the first n symbols of this one.
Streams(n) ==
    {s \in Seq(Symbols) : n <= Len(s) /\ \A i \in 1 .. n : s[i] = arrived[i]}

\* Where the request that is being parsed begins.
Start == IF state = "kExpectRequestLine" THEN consumed + 1 ELSE request.line

ContextFits ==
    conn = "up" =>
        IF state = "kExpectRequestLine"
        THEN request = NoRequest
        ELSE request.line \in 1 .. consumed

\* What was retrieved means the same in every stream that begins with it: the
\* requests answered are its first ones, and what is in the context is the next.
ParsesWhatIsSaid ==
    conn = "up" => \A s \in Streams(consumed) :
        /\ Messages(s) = answers \o MessagesFrom(s)[Start]
        /\ consumed + 1 \in LineStarts(s)
        /\ state = "kExpectHeaders" =>
              /\ Whole(s, request.line) /\ Text(s, request.line) = <<"request">>
              /\ request.headers =
                    {h \in LineStarts(s) : request.line < h /\ h <= consumed}
              /\ \A h \in request.headers : Whole(s, h) /\ Text(s, h) = <<"header">>
        /\ state = "kGotAll" =>
              MessagesFrom(s)[request.line] =
                  <<request>> \o MessagesFrom(s)[consumed + 1]

\* What was answered stays what the stream begins with.
AnswersStand ==
    conn # "up" => \A s \in Streams(taken) :
        \E more \in Seq(Requests) : Messages(s) = answers \o more

\* No two calls are for requests that begin at the same place.
CallsFit ==
    /\ conn = "up" => \A i \in DOMAIN calls : calls[i].line < Start
    /\ polite \/ conn = "up" =>
           \A i, j \in DOMAIN calls : calls[i].line = calls[j].line => i = j

\* A peer that waits has nothing behind a request that is not answered yet, and
\* has sent all it ever will when the connection is shut down.
PeerWaits ==
    polite =>
        /\ conn = "up" => \A n \in 0 .. Len(arrived) - 1 :
               Len(Messages(SubSeq(arrived, 1, n))) <= Len(answers)
        /\ conn # "up" => ~parsing
        /\ conn = "shut" => taken = Len(arrived)

HttpInvariant ==
    /\ TypeOK
    /\ ContextFits
    /\ ParsesWhatIsSaid
    /\ AnswersStand
    /\ CallsFit
    /\ PeerWaits

=============================================================================
