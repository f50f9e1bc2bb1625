---------------------------- MODULE HttpExchange ----------------------------
(***************************************************************************)
(* One exchange over one connection between the HTTP client of             *)
(* src/005_http/http_request.cpp, from its connect on, and a server: the   *)
(* HttpService of http_service.cpp, or another server of the internet.     *)
(* What is modelled is how the two read each other's byte streams, which   *)
(* TCP may cut anywhere and break at any moment.                           *)
(*                                                                         *)
(* A stream is a sequence of tokens: the characters "cr" and "lf", and     *)
(* texts without either.                                                   *)
(*                                                                         *)
(* HttpService::OnHeadersReceived and ProcessRequest are not modelled: no  *)
(* request reaches them (see RequestLineOf).                               *)
(***************************************************************************)
EXTENDS Naturals, SequencesExt

CONSTANTS
  OtherReplies,  \* what other servers answer: sequences of tokens
  Tokens,        \* the texts of those answers, and of what comes of them
  HeaderTexts,   \* those that have a colon: what is in front of it and behind it
  None

Breaks == {"cr", "lf"}

\* An answer begins with its status line, "invalid" if the client cannot take it.
\* No text stands right behind a "cr": the one character taken off with it would
\* be a part of the text.
ASSUME HttpExchangeAssumption ==
  /\ Tokens \cap Breaks = {}
  /\ \A t \in DOMAIN HeaderTexts :
       t \in Tokens /\ {HeaderTexts[t].name, HeaderTexts[t].value} \subseteq Seq(Tokens)
  /\ OtherReplies \subseteq Seq(Tokens \cup Breaks)
  /\ \A reply \in OtherReplies :
       /\ reply # <<>> => reply[1] \in Tokens
       /\ \A i \in 2..Len(reply) : reply[i - 1] = "cr" => reply[i] \in Breaks

VARIABLES
  server,       \* whom the client has connected to; it never changes
  line,         \* the request line; it never changes
  client,       \* the operation the client has outstanding, or how it ended
  service,      \* the same of the server
  to_service,   \* bytes sent by the client and not yet read
  to_client,    \* bytes sent by the server and not yet read
  request_buf,  \* m_request of the service
  message_buf,  \* m_message_buf of the client's HttpMessage
  client_fin,   \* has the client shut its sending side down
  server_fin,   \* has the server
  broken,       \* was the connection reset
  sent,         \* all the bytes of the server's answer (history)
  status,       \* m_status_code of the client's HttpMessage
  headers,      \* its m_headers, a function
  loop,         \* OnHeadersReceived's header, header_name and response_stream.good()
  reported      \* what m_callback was given, or None

vars == <<server, line, client, service, to_service, to_client, request_buf,
          message_buf, client_fin, server_fin, broken, sent, status, headers, loop, reported>>

client_vars  == <<client, message_buf, client_fin, status, headers, loop, reported>>
service_vars == <<service, request_buf, server_fin, sent>>
-----------------------------------------------------------------------------
\* Request lines as words; "long" does not fit into the 4096 bytes of m_request.
Words == [get  |-> <<"GET", "/test", "HTTP/1.1">>,
          post |-> <<"POST", "/test", "HTTP/1.1">>,
          long |-> <<"GET", "/test...", "HTTP/1.1">>]

Lines == DOMAIN Words
StatusTexts == {"431", "501", "505"}
Texts == Lines \cup StatusTexts \cup Tokens \cup {"host"}

TypeOK ==
  /\ server \in {"HttpService", "other"}
  /\ line \in Lines
  /\ client \in {"write", "sent", "status", "headers", "parsing", "body", "finished",
                "crashed"}
  /\ service \in {"request_line", "write", "deleted", "leaked"}
  /\ {to_service, to_client, request_buf, message_buf, sent} \subseteq Seq(Texts \cup Breaks)
  /\ {loop.header, loop.name} \subseteq Seq(Texts \cup Breaks)
  /\ {client_fin, server_fin, broken, loop.good} \subseteq BOOLEAN
  /\ status \in Texts \cup {None}
  /\ DOMAIN headers \subseteq Seq(Texts \cup Breaks)
  /\ reported = None \/ reported.status \in Texts

\* The locals of OnHeadersReceived as it is entered.
LoopStart == [header |-> <<>>, name |-> <<>>, good |-> TRUE]

Init ==
  /\ server \in {"HttpService", "other"}
  /\ line \in Lines
  /\ client = "write"
  /\ service = "request_line"
  /\ to_service = <<>>
  /\ to_client = <<>>
  /\ request_buf = <<>>
  /\ message_buf = <<>>
  /\ client_fin = FALSE
  /\ server_fin = FALSE
  /\ broken = FALSE
  /\ sent = <<>>
  /\ status = None
  /\ headers = <<>>
  /\ loop = LoopStart
  /\ reported = None

\* async_read_until is done when its buffer holds the delimiter.
Line      == <<"cr", "lf">>
BlankLine == <<"cr", "lf", "cr", "lf">>

Holds(buf, delimiter) == delimiter \in SubSeqs(buf)

From(buf, i) == SubSeq(buf, i, Len(buf))

\* Where getline() stops: at the first "cr", or behind the end of the buffer.
EndOfLine(buf) ==
  CHOOSE i \in 1..Len(buf) + 1 :
    /\ i <= Len(buf) => buf[i] = "cr"
    /\ \A j \in 1..i - 1 : buf[j] # "cr"

\* Mutant: getline() without get().
AfterReturn(buf) == From(buf, EndOfLine(buf) + 1)

\* Mutant: an empty line ends the loop before its "lf" is taken.
AfterFullLine(buf) == From(buf, EndOfLine(buf) + IF EndOfLine(buf) = 1 THEN 1 ELSE 2)

\* getline() takes the "cr" off as well, and get() one character more.
AfterLine(buf) == From(buf, EndOfLine(buf) + 2)
-----------------------------------------------------------------------------
(***************************************************************************)
(* The client.                                                             *)
(***************************************************************************)

\* OnConnectionEstablished's request line and one header, written whole.
WriteRequest ==
  /\ client = "write"
  /\ ~broken
  /\ to_service' = <<line, "cr", "lf", "host">> \o BlankLine
  /\ client' = "sent"
  /\ UNCHANGED <<server, line, to_client, message_buf, client_fin, broken, status,
                 headers, loop, reported, service_vars>>

\* OnRequestSent: shutdown() throws on a connection that was reset.
OnRequestSent ==
  /\ client = "sent"
  /\ client' = IF broken THEN "crashed" ELSE "status"
  /\ client_fin' = ~broken
  /\ UNCHANGED <<server, line, to_service, to_client, message_buf, broken, status,
                 headers, loop, reported, service_vars>>

\* What the client's present read waits for; the body's ends with the stream.
Awaited ==
  \/ client = "status" /\ Holds(message_buf, Line)
  \/ client = "headers" /\ Holds(message_buf, BlankLine)

ClientReceives ==
  /\ client \in {"status", "headers", "body"}
  /\ ~Awaited
  /\ ~broken
  /\ \E n \in 1..Len(to_client) :
       /\ message_buf' = message_buf \o SubSeq(to_client, 1, n)
       /\ to_client' = From(to_client, n + 1)
  /\ UNCHANGED <<server, line, client, to_service, client_fin, broken, status,
                 headers, loop, reported, service_vars>>

\* Mutant: the code is taken from behind the status line.
StatusBehind(buf) == buf[2]

StatusOf(buf) == buf[1]

OnStatusLineReceived ==
  /\ client = "status"
  /\ Awaited
  /\ StatusOf(message_buf) # "invalid"
  /\ status' = StatusOf(message_buf)
  /\ message_buf' = AfterLine(message_buf)
  /\ client' = "headers"
  /\ UNCHANGED <<server, line, to_service, to_client, client_fin, broken, headers,
                 loop, reported, service_vars>>

\* The version is not HTTP/1.1, or the code no number: OnFinish does not call
\* back, and what is left in the buffer plays no part any more.
OnInvalidStatusLine ==
  /\ client = "status"
  /\ Awaited
  /\ StatusOf(message_buf) = "invalid"
  /\ client' = "finished"
  /\ UNCHANGED <<server, line, to_service, to_client, message_buf, client_fin, broken,
                 status, headers, loop, reported, service_vars>>

OnHeadersReceived ==
  /\ client = "headers"
  /\ Awaited
  /\ loop' = LoopStart
  /\ client' = "parsing"
  /\ UNCHANGED <<server, line, to_service, to_client, message_buf, client_fin, broken, status,
                 headers, reported, service_vars>>

\* Mutant: a name keeps the value of its first line.
InsertHeader(name, value, map) == map @@ (name :> value)

\* AddHeader: m_headers[name] = value.
AddHeader(name, value, map) ==
  [n \in DOMAIN map \cup {name} |-> IF n = name THEN value ELSE map[n]]

\* The first text of a line that has a colon has the line's first one.
Colons(header) == {i \in DOMAIN header : header[i] \in DOMAIN HeaderTexts}

\* A line without a colon goes by the name of the line before it ...
HeaderName(header, before) ==
  IF Colons(header) = {} THEN before
  ELSE LET i == Min(Colons(header))
       IN  SubSeq(header, 1, i - 1) \o HeaderTexts[header[i]].name

\* ... and has no value.
HeaderValue(header) ==
  IF Colons(header) = {} THEN <<>>
  ELSE LET i == Min(Colons(header))
       IN  HeaderTexts[header[i]].value \o From(header, i + 1)

\* What getline() leaves in header: a stream that is not good is not read, and
\* header stays what it was.
NextHeader == IF loop.good THEN SubSeq(message_buf, 1, EndOfLine(message_buf) - 1) ELSE loop.header

\* One round of the loop over the header lines, and the read of the body after
\* the last one.  Only an empty header ends the loop: the stream is never tested,
\* and once getline() or get() has met the end of the buffer, a header that is
\* not empty stays for ever, and the round is one that changes nothing.
HeaderRound ==
  /\ client = "parsing"
  /\ LET header == NextHeader
         name   == HeaderName(header, loop.name)
     IN  IF header = <<>> THEN client' = "body" /\ UNCHANGED <<headers, loop>>
         ELSE /\ headers' = AddHeader(name, HeaderValue(header), headers)
              /\ loop' = [header |-> header, name |-> name,
                          good |-> loop.good /\ EndOfLine(message_buf) < Len(message_buf)]
              /\ UNCHANGED client
  /\ message_buf' = IF loop.good THEN AfterLine(message_buf) ELSE message_buf
  /\ UNCHANGED <<server, line, to_service, to_client, client_fin, broken, status, reported,
                 service_vars>>

AtEof == server_fin /\ to_client = <<>> /\ ~broken

\* Mutant: the end of the stream is an error.
OnResponseBodyReceivedFails ==
  /\ client = "body"
  /\ AtEof
  /\ client' = "finished"
  /\ UNCHANGED <<server, line, to_service, to_client, message_buf, client_fin, broken,
                 status, headers, loop, reported, service_vars>>

\* OnResponseBodyReceived takes the end of the stream for the end of the body,
\* and OnFinish calls back.
OnResponseBodyReceived ==
  /\ client = "body"
  /\ AtEof
  /\ reported' = [status |-> status, headers |-> headers, body |-> message_buf]
  /\ client' = "finished"
  /\ UNCHANGED <<server, line, to_service, to_client, message_buf, client_fin, broken,
                 status, headers, loop, service_vars>>

\* OnError, and OnFinish without a callback.
OnError ==
  /\ \/ client = "write" /\ broken
     \/ client \in {"status", "headers"} /\ ~Awaited /\ (broken \/ AtEof)
     \/ client = "body" /\ broken
  /\ client' = "finished"
  /\ UNCHANGED <<server, line, to_service, to_client, message_buf, client_fin, broken,
                 status, headers, loop, reported, service_vars>>
-----------------------------------------------------------------------------
(***************************************************************************)
(* HttpService.                                                            *)
(***************************************************************************)

BufferFull == "long" \in ToSet(request_buf)

ServiceReceives ==
  /\ server = "HttpService"
  /\ service = "request_line"
  /\ ~broken
  /\ ~BufferFull
  /\ ~Holds(request_buf, Line)
  /\ \E n \in 1..Len(to_service) :
       /\ request_buf' = request_buf \o SubSeq(to_service, 1, n)
       /\ to_service' = From(to_service, n + 1)
  /\ UNCHANGED <<server, line, service, to_client, server_fin, broken, sent, client_vars>>

\* Both extractions that follow the method's go to m_requested_resource;
\* request_http_version is compared as it was constructed.
RequestLineOf(words) ==
  [method |-> words[1], resource |-> words[3], http_version |-> ""]

\* The text http_status_table has for the code: that of 413 begins with 431.
StatusText(code) == IF code = "413" THEN "431" ELSE code

\* 200 stands for going on to the headers; it does not come up.
ResponseCode(r) ==
  IF r.method # "GET" THEN "501" ELSE IF r.http_version # "HTTP/1.1" THEN "505" ELSE "200"

\* SendResponse: shutdown() throws on a connection that was reset, and the
\* Service is never deleted.  An answer without a resource has no headers.
SendResponse(code) ==
  /\ service' = IF broken THEN "leaked" ELSE "write"
  /\ sent' = IF broken THEN sent ELSE <<StatusText(code)>> \o BlankLine

OnRequestLineReceived ==
  /\ server = "HttpService"
  /\ service = "request_line"
  /\ \/ BufferFull /\ SendResponse("413")
     \/ /\ ~BufferFull
        /\ Holds(request_buf, Line)
        /\ SendResponse(ResponseCode(RequestLineOf(Words[request_buf[1]])))
  /\ UNCHANGED <<server, line, to_service, to_client, request_buf, server_fin, broken,
                 client_vars>>

\* OnErrorWithRes for any error but not_found.
OnServiceError ==
  /\ server = "HttpService"
  /\ service = "request_line"
  /\ ~BufferFull
  /\ ~Holds(request_buf, Line)
  /\ broken
  /\ service' = "deleted"
  /\ UNCHANGED <<server, line, to_service, to_client, request_buf, server_fin, broken, sent,
                 client_vars>>

\* OnResponseSent, when the answer is written or the connection reset: then
\* shutdown() throws, and the Service is never deleted.
OnResponseSent ==
  /\ service = "write"
  /\ service' = IF broken THEN "leaked" ELSE "deleted"
  /\ to_client' = IF broken THEN to_client ELSE sent
  /\ server_fin' = ~broken
  /\ UNCHANGED <<server, line, to_service, request_buf, broken, sent, client_vars>>
-----------------------------------------------------------------------------
(***************************************************************************)
(* The outside world.                                                      *)
(***************************************************************************)

\* Another server reads the request to its end, answers, and closes; it may
\* die in the middle of its answer.
OtherServerAnswers ==
  /\ server = "other"
  /\ service = "request_line"
  /\ client_fin
  /\ \E reply \in OtherReplies : \E answer \in Prefixes(reply) :
       /\ sent' = answer
       /\ to_client' = answer
  /\ server_fin' = TRUE
  /\ to_service' = <<>>
  /\ service' = "deleted"
  /\ UNCHANGED <<server, line, request_buf, broken, client_vars>>

Break ==
  /\ ~broken
  /\ broken' = TRUE
  /\ UNCHANGED <<server, line, to_service, to_client, client_vars, service_vars>>
-----------------------------------------------------------------------------
ClientStep ==
  \/ WriteRequest
  \/ OnRequestSent
  \/ ClientReceives
  \/ OnStatusLineReceived
  \/ OnInvalidStatusLine
  \/ OnHeadersReceived
  \/ HeaderRound
  \/ OnResponseBodyReceived
  \/ OnError

ServiceStep ==
  \/ ServiceReceives
  \/ OnRequestLineReceived
  \/ OnServiceError
  \/ OnResponseSent

Next == ClientStep \/ ServiceStep \/ OtherServerAnswers \/ Break

Spec == Init /\ [][Next]_vars

(***************************************************************************)
(* Both io_services run, and another server answers in the end.            *)
(***************************************************************************)
FairSpec ==
  /\ Spec
  /\ WF_vars(ClientStep)
  /\ WF_vars(ServiceStep)
  /\ WF_vars(OtherServerAnswers)
-----------------------------------------------------------------------------
\* Is an answer what the client's loop takes it for?  Up to its first blank line,
\* "cr" and "lf" come together only, and behind every line.
Regular(answer) ==
  /\ Holds(answer, BlankLine)
  /\ \A i \in 1..IndexFirstSubSeq(BlankLine, answer) :
       /\ answer[i] = "cr" <=> answer[i + 1] = "lf"
       /\ answer[i] \notin Breaks => answer[i + 1] = "cr"

\* What the format says the headers and the body of an answer are: what is between
\* its first line and its first blank one, and what follows that.
Section(answer) == SubSeq(answer, 4, IndexFirstSubSeq(BlankLine, answer) + 1)
BodyOf(answer) == From(answer, IndexFirstSubSeq(BlankLine, answer) + 4)

\* What the callback is given is the code and the body the server has sent,
\* however TCP cut the stream and wherever the handlers' reads ended in it: no
\* header stays in the body and nothing of the body is lost.  An answer that
\* breaks off is reported too, for content-length is not looked at; one with an
\* invalid status line never is.
ReportedAsSent ==
  reported # None =>
    /\ sent[1] # "invalid"
    /\ reported.status = sent[1]
    /\ Regular(sent) => reported.body = BodyOf(sent)

\* Is map what the lines of a section say?  A name that comes twice has the value
\* of its last line, and loses it only to lines without a colon that come right
\* behind.  No other name comes in, but the empty one of a first line without one.
AreHeadersOf(map, section) ==
  LET Places     == {i \in DOMAIN section : section[i] \notin Breaks}
      Named(i)   == section[i] \in DOMAIN HeaderTexts
      Text(i)    == HeaderTexts[section[i]]
      Final(i)   == /\ Named(i)
                    /\ \A j \in Places : j > i /\ Named(j) => Text(j).name # Text(i).name
      Emptied(i) == \E j \in Places : j > i /\ \A k \in Places : i < k /\ k <= j => ~Named(k)
  IN  /\ DOMAIN map = {Text(i).name : i \in {j \in Places : Named(j)}}
                         \cup (IF Emptied(0) THEN {<<>>} ELSE {})
      /\ \A i \in Places :
           Final(i) => map[Text(i).name] = IF Emptied(i) THEN <<>> ELSE Text(i).value

\* The headers reported of a regular answer are its own.
HeadersAsSent ==
  reported # None /\ Regular(sent) => AreHeadersOf(reported.headers, Section(sent))

\* The comment of OnRequestLineReceived: "Only Support GET Method".
GetIsSupported ==
  service = "write" /\ line = "get" => sent[1] # "505"

\* The loop has met the end of its buffer with a header that is not empty: it goes
\* round and round, and with it the client's only thread.
LoopsForEver == client = "parsing" /\ ~loop.good /\ loop.header # <<>>

\* Every exchange ends, for the Service and for the client: its loop runs off the
\* buffer only in an answer that is not regular, wherever TCP cuts it.
ExchangeEnds ==
  <>(/\ client \in {"finished", "crashed"} \/ (LoopsForEver /\ ~Regular(sent))
     /\ server = "HttpService" => service \in {"deleted", "leaked"})

\* A regular answer is reported unless the connection breaks, the status line is
\* invalid or no blank line comes behind it.  It does in none of HttpService's answers.
AnswerIsReported ==
  server_fin ~>
    \/ broken
    \/ reported # None
    \/ ~Holds(From(sent, 4), BlankLine)
    \/ ~Regular(sent)
    \/ sent[1] = "invalid"
=============================================================================
