-------------------------------- MODULE Http --------------------------------
(***************************************************************************)
(* One request and its answer in src/http/http_parser.c, driven the way    *)
(* handle_client and a request handler do: one recv(), http_request_parse, *)
(* the handler's lookups and changes, http_response_serialize.             *)
(*                                                                         *)
(* recv() is called once, so the parser may see any beginning of what the  *)
(* client sent.  Text is abstracted to what the parser tells apart: the    *)
(* words of the request line, and the lines behind it, which are empty or  *)
(* have a colon or not.  The client means the lines up to the first empty  *)
(* one as headers and the lines behind it as the body; the parser has to   *)
(* find out.  A header's value is its line's number, a line that is not    *)
(* empty counts as one word, a body is as long as it has lines, and the    *)
(* text holds no NUL.  The URI and its split at '?' are left out.          *)
(***************************************************************************)
EXTENDS Integers, FiniteSetsExt, SequencesExt

CONSTANTS
    Names,          \* header names, equal names up to case being one
    Methods,        \* methods that http_method_from_string knows
    Versions,       \* versions that http_request_parse knows
    None,           \* no colon in the line, or a name that is NULL
    Blank,          \* the empty line
    MaxLines,       \* bound: lines sent behind the request line
    MaxBody,        \* bound: bytes of a response's body
    MaxAdded,       \* bound: headers the handler adds to the request or the response
    HeaderLengths,  \* bytes of name and value of a header of the response
    MessageLengths  \* bytes of the response's status message

VARIABLES
    stage,          \* "receiving", "handling", "sent", "closed", "crashed"
    sent,           \* what the client sends
    received,       \* what recv() returned of it
    request,        \* http_request_t: [method, version, headers, body_length]
    response,       \* http_response_t: [message, headers, body_length]
    out             \* what http_response_serialize made: [size, whole, length]

vars == <<stage, sent, received, request, response, out>>

Lines == SeqOf(Names \cup {None, Blank}, MaxLines)
Header == [name : Names \cup {None}, value : 0 .. MaxLines]

TypeOK ==
    /\ stage \in {"receiving", "handling", "sent", "closed", "crashed"}
    /\ sent.lines \in Lines
    /\ received.lines \in Lines
    /\ request.method \in Methods \cup {"UNKNOWN"}
    /\ request.version \in Versions \cup {"UNKNOWN"}
    /\ request.headers \in Seq(Header)
    /\ request.body_length \in 0 .. MaxLines
    /\ response.headers \in Seq(HeaderLengths)
    /\ response.body_length \in 0 .. MaxBody
    /\ out.length \in Nat

NoText == [words |-> <<>>, ended |-> FALSE, lines |-> <<>>]

(* http_request_create and http_response_create.  The client's request has  *)
(* its empty line; the version may be missing, and the other lines may be   *)
(* anything.                                                                *)
Init ==
    /\ stage = "receiving"
    /\ sent \in {[words |-> w, ended |-> TRUE, lines |-> l] :
                 w \in {<<m, "uri">> \o v : m \in Methods \cup {"other"},
                                            v \in {<<>>} \cup {<<x>> : x \in Versions}},
                 l \in {k \in Lines : Contains(k, Blank)}}
    /\ received = NoText
    /\ request = [method |-> "UNKNOWN", version |-> "UNKNOWN", headers |-> <<>>, body_length |-> 0]
    /\ response \in [message : MessageLengths, headers : {<<>>}, body_length : {0}]
    /\ out = [size |-> 0, whole |-> TRUE, length |-> 0]

-----------------------------------------------------------------------------
(* What recv() may return: all, some of the lines, or some of the request   *)
(* line.                                                                    *)
Beginnings(t) ==
    {[t EXCEPT !.lines = SubSeq(@, 1, n)] : n \in 0 .. Len(t.lines)}
    \cup {[NoText EXCEPT !.words = SubSeq(t.words, 1, n)] : n \in 0 .. Len(t.words)}

(* The words sscanf finds: it takes line ends for blanks, so the lines      *)
(* behind the request line supply what it lacks.                            *)
WordsOf(t) ==
    LET spoken == SelectSeq(t.lines, LAMBDA l : l # Blank)
    IN  t.words \o [i \in 1 .. Len(spoken) |-> "text"]

(* http_request_parse returns SUCCESS: a line end and three words. *)
IsRequest(t) == t.ended /\ Len(WordsOf(t)) >= 3

(* The lines whose end is followed by an empty line.  The search begins     *)
(* behind the request line's end: when the first line is the empty one      *)
(* itself, another one has to follow, in what the client means as the body. *)
EndLines(lines) == {k \in 1 .. Len(lines) - 1 : lines[k + 1] = Blank}

HeadersEndFound(t) == t.ended /\ EndLines(t.lines) # {}

(* headers_end: the end of this line. *)
HeadersEnd(lines) == Min(EndLines(lines))

(* The lines the parser's loops walk over: up to headers_end, none if the   *)
(* first line ends there and is empty.                                      *)
LinesBefore(lines) ==
    IF HeadersEnd(lines) = 1 /\ lines[1] = Blank
    THEN <<>>
    ELSE SubSeq(lines, 1, HeadersEnd(lines))

(* What is behind the two line ends. *)
BodyLength(lines) == Len(lines) - HeadersEnd(lines) - 1

(* The header that each line stands for. *)
HeaderLines(lines) == [i \in 1 .. Len(lines) |-> [name |-> lines[i], value |-> i]]

(* One line of the parser's loop: without a colon it fills no place. *)
FillIn(headers, line) == IF line.name \in {None, Blank} THEN headers ELSE Append(headers, line)

HeadersLeftInPlace(lines) ==
    [i \in 1 .. Len(lines) |-> IF lines[i] \in {None, Blank}
                               THEN [name |-> None, value |-> 0]
                               ELSE [name |-> lines[i], value |-> i]]

(* The array of headers: header_count is the number of lines, so that the   *)
(* places no line filled stay NULL, at the end.                             *)
HeadersOf(lines) ==
    LET filled == FoldLeft(FillIn, <<>>, HeaderLines(lines))
    IN  filled \o [i \in 1 .. Len(lines) - Len(filled) |-> [name |-> None, value |-> 0]]

(* http_method_from_string, and its like for the version. *)
Known(word, words) == IF word \in words THEN word ELSE "UNKNOWN"

ParseWithoutEnd(t) ==
    LET w == WordsOf(t)
    IN  [method |-> Known(w[1], Methods), version |-> Known(w[3], Versions),
         headers |-> HeadersOf(IF HeadersEndFound(t) THEN LinesBefore(t.lines) ELSE t.lines),
         body_length |-> IF HeadersEndFound(t) THEN BodyLength(t.lines) ELSE 0]

(* The request http_request_parse fills in. *)
Parse(t) ==
    LET w == WordsOf(t)
    IN  [method |-> Known(w[1], Methods),
         version |-> Known(w[3], Versions),
         headers |-> IF HeadersEndFound(t) THEN HeadersOf(LinesBefore(t.lines)) ELSE <<>>,
         body_length |-> IF HeadersEndFound(t) THEN BodyLength(t.lines) ELSE 0]

(* handle_client: one recv() and the parser.  A request that does not parse *)
(* is not answered.                                                         *)
Receive(t) ==
    /\ stage = "receiving"
    /\ received' = t
    /\ \/ /\ IsRequest(t)
          /\ request' = Parse(t)
          /\ stage' = "handling"
       \/ /\ ~ IsRequest(t)
          /\ stage' = "closed"
          /\ UNCHANGED request
    /\ UNCHANGED <<sent, response, out>>

-----------------------------------------------------------------------------
(* The handler. *)

(* Where http_request_get_header stops: at the name, at a NULL name, which  *)
(* strcasecmp does not survive, or past the end (0).                        *)
StopsAt(name) == SelectInSeq(request.headers, LAMBDA h : h.name \in {name, None})

Crashes(name) == StopsAt(name) # 0 /\ request.headers[StopsAt(name)].name = None

(* http_request_get_header: what it returns is left to the handler. *)
GetHeader(name) ==
    /\ stage = "handling"
    /\ stage' = IF Crashes(name) THEN "crashed" ELSE stage
    /\ UNCHANGED <<sent, received, request, response, out>>

Added == Len(SelectSeq(request.headers, LAMBDA h : h.name # None /\ h.value = 0))

(* http_request_add_header *)
RequestAddHeader(name) ==
    /\ stage = "handling"
    /\ Added < MaxAdded
    /\ request' = [request EXCEPT !.headers = Append(@, [name |-> name, value |-> 0])]
    /\ UNCHANGED <<stage, sent, received, response, out>>

(* http_response_add_header *)
AddHeader(length) ==
    /\ stage = "handling"
    /\ Len(response.headers) < MaxAdded
    /\ response' = [response EXCEPT !.headers = Append(@, length)]
    /\ UNCHANGED <<stage, sent, received, request, out>>

(* http_response_set_body *)
SetBody(length) ==
    /\ stage = "handling"
    /\ response' = [response EXCEPT !.body_length = length]
    /\ UNCHANGED <<stage, sent, received, request, out>>

Sum(lengths) == FoldLeft(LAMBDA n, m : n + m, 0, lengths)

SizeWithoutSeparators == 256 + Sum(response.headers) + response.body_length + 4

(* The size http_response_serialize allocates: ": " and the line end are 4  *)
(* bytes a header.                                                          *)
Size ==
    256 + Sum([i \in 1 .. Len(response.headers) |-> response.headers[i] + 4])
        + response.body_length + 4

(* The lengths of what it writes: "HTTP/1.1 ", three digits, a blank, the   *)
(* message and the line end; the headers; the empty line.                   *)
Written == <<9 + 3 + 1 + response.message + 2>>
           \o [i \in 1 .. Len(response.headers) |-> response.headers[i] + 4]
           \o <<2>>

(* offset after the first n writes *)
Offset(n) == Sum(SubSeq(Written, 1, n))

(* http_response_serialize: snprintf needs room for its NUL as well, the    *)
(* body's memcpy does not.                                                  *)
Serialize ==
    /\ stage = "handling"
    /\ stage' = "sent"
    /\ out' = [size |-> Size,
               whole |-> /\ \A n \in 1 .. Len(Written) : Offset(n) + 1 <= Size
                         /\ Offset(Len(Written)) + response.body_length <= Size,
               length |-> Offset(Len(Written)) + response.body_length]
    /\ UNCHANGED <<sent, received, request, response>>

Next ==
    \/ \E t \in Beginnings(sent) : Receive(t)
    \/ \E name \in Names : GetHeader(name) \/ RequestAddHeader(name)
    \/ \E length \in HeaderLengths : AddHeader(length)
    \/ \E length \in 0 .. MaxBody : SetBody(length)
    \/ Serialize

Spec == Init /\ [][Next]_vars

-----------------------------------------------------------------------------
(* Properties. *)

Parsed == stage \in {"handling", "sent"}

(* The header lines the client sent, before its first empty line. *)
NamedLines ==
    {i \in 1 .. Len(sent.lines) : sent.lines[i] \in Names /\ \A j \in 1 .. i : sent.lines[j] # Blank}
Found == {request.headers[i].value : i \in 1 .. Len(request.headers)} \ {0}

(* However recv() cuts a request that has a header line, the handler sees   *)
(* all the headers it was sent with or none of them, never a line of the    *)
(* body among them, and a body only together with the headers.  Without a   *)
(* header line the body is lost, or its own lines are taken for headers.    *)
AllHeadersOrNone ==
    Parsed /\ sent.lines[1] # Blank =>
        /\ Found \in {{}, NamedLines}
        /\ request.body_length > 0 => Found = NamedLines

(* http_request_get_header finds what was sent: a name among the headers is *)
(* found at its first line, although lines without a colon and headers the  *)
(* handler added are in the array too.                                      *)
SentHeadersAreFound ==
    Parsed /\ Found # {} =>
        \A i \in NamedLines :
            (\A j \in NamedLines : sent.lines[j] = sent.lines[i] => i <= j)
            => /\ ~ Crashes(sent.lines[i])
               /\ request.headers[StopsAt(sent.lines[i])].value = i

(* http_response_serialize allocates what it writes: with a status line of  *)
(* at most 256 bytes nothing is cut off.                                    *)
SerializedWhole == stage = "sent" /\ Written[1] <= 256 => out.whole
=============================================================================
