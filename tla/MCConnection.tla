---------------------------- MODULE MCConnection ----------------------------
(***************************************************************************)
(* Small instances of Connection.  A client message is made from the       *)
(* request it stands for by an encoder written from the format of an HTTP  *)
(* request and not from the parser, so that Delivered compares two         *)
(* independent readings of the same bytes.                                 *)
(***************************************************************************)
EXTENDS Connection, SequencesExt

CRLF == <<"CR", "LF">>

EncodeHeader(h) == h.name \o <<":", "SP">> \o h.value \o CRLF

EncodeHead(r) ==
    r.method \o <<"SP">> \o r.uri \o <<"SP">>
        \o <<"H", "T", "T", "P", "/", "1", ".", IF r.minor = 1 THEN "1" ELSE "0">> \o CRLF
        \o FlattenSeq([i \in DOMAIN r.headers |-> EncodeHeader(r.headers[i])]) \o CRLF

\* Chunks of two symbols and a rest of one, the first with a chunk extension.
EncodeChunks(payload) ==
    CASE Len(payload) = 1 -> <<"1">> \o CRLF \o payload \o CRLF \o <<"0">> \o CRLF \o CRLF
      [] Len(payload) = 3 -> <<"2", ";", "name">> \o CRLF \o SubSeq(payload, 1, 2) \o CRLF
                                \o <<"1">> \o CRLF \o SubSeq(payload, 3, 3) \o CRLF
                                \o <<"0">> \o CRLF \o CRLF

Field(name, value) == [name |-> <<name>>, value |-> value]

Ask(method, minor, headers, payload) ==
    [method |-> <<method>>, uri |-> <<"/", "name">>, minor |-> minor,
     headers |-> headers, payload |-> payload]

Plain(r)   == [text |-> EncodeHead(r) \o r.payload, wellformed |-> TRUE, request |-> r]
Chunked(r) == [text |-> EncodeHead(r) \o EncodeChunks(r.payload),
               wellformed |-> TRUE, request |-> r]

KeepAliveField == Field("Connection", <<"keep-alive">>)
CloseField     == Field("Connection", <<"close">>)
LengthField(d) == Field("Content-Length", <<d>>)
ChunkedField   == Field("Transfer-Encoding", <<"chunked">>)

GetKeepAlive  == Plain(Ask("GET", 1, <<KeepAliveField>>, <<>>))
GetPlain      == Plain(Ask("GET", 1, <<Field("name", <<"H", "SP", ":", "name">>)>>, <<>>))
GetOld        == Plain(Ask("GET", 0, <<>>, <<>>))
HeadKeepAlive == Plain(Ask("HEAD", 1, <<KeepAliveField>>, <<>>))
Unsupported   == Plain(Ask("name", 1, <<KeepAliveField>>, <<>>))
\* The body looks like the end of the headers.
PostLength    == Plain(Ask("POST", 1, <<LengthField("2"), KeepAliveField>>, CRLF))
PostEmpty     == Plain(Ask("POST", 1, <<KeepAliveField, LengthField("0")>>, <<>>))
PostClose     == Plain(Ask("POST", 0, <<CloseField, LengthField("1")>>, <<"name">>))
PostChunked   == Chunked(Ask("PUT", 1, <<KeepAliveField, ChunkedField>>,
                             <<"0", "CR", "LF">>))
\* A chunked body ends the search for a length.
PostBoth      == Chunked(Ask("POST", 1, <<ChunkedField, LengthField("2"), KeepAliveField>>,
                             <<"LF">>))

\* A header value continued on the next line.
Folded ==
    LET r == Ask("GET", 1, <<KeepAliveField, Field("name", <<"name", "name", "H">>)>>, <<>>)
    IN  [text |-> r.method \o <<"SP">> \o r.uri \o <<"SP">>
                    \o <<"H", "T", "T", "P", "/", "1", ".", "1">> \o CRLF
                    \o EncodeHeader(KeepAliveField)
                    \o <<"name", ":", "SP", "name">> \o CRLF
                    \o <<"HT", "SP", "name", "H">> \o CRLF \o CRLF,
         wellformed |-> TRUE, request |-> r]

\* Rejected at its last symbol, after a header was stored.
Truncated ==
    [GetPlain EXCEPT !.text = SubSeq(@, 1, Len(@) - 1) \o <<"H">>, !.wellformed = FALSE]

\* A body until the connection closes, as an HTTP/1.0 client may send it.
PostUntilClose == Plain(Ask("POST", 0, <<CloseField>>, <<"name">>))

\* Inputs that are cut off or continued where a well-formed one would not be: a
\* request line with headers or without, then symbols of every kind.
Piece(text) == [text |-> text, wellformed |-> FALSE, request |-> GetOld.request]

RequestLine == SubSeq(GetOld.text, 1, Len(GetOld.text) - 2)
AnySymbol == {"SP", "CR", "LF", ":", "0", "1", "name"}
ChunkedHead == RequestLine \o EncodeHeader(ChunkedField) \o CRLF
HalfChunk == ChunkedHead \o <<"1">> \o CRLF

MalformedMessages ==
    {Piece(t \o <<x>>) : t \in {RequestLine, ChunkedHead, HalfChunk}, x \in AnySymbol}
        \cup {Piece(PostUntilClose.text), Piece(ChunkedHead \o <<"0">> \o CRLF), Piece(<<"name">> \o CRLF)}

-----------------------------------------------------------------------------
(* Values for the CONSTANTS *)

WellFormedMessages ==
    {GetKeepAlive, GetPlain, PostLength, PostEmpty, PostClose, PostChunked, PostBoth, Folded}

InputMessages == WellFormedMessages \cup MalformedMessages

ReplyMessages == {GetKeepAlive, GetOld, HeadKeepAlive, Unsupported, Truncated}

\* The parser after each symbol of a message that is read alone; the choice from a
\* singleton only makes TLC evaluate each parser before it goes on to the next.
RunAlone(m) ==
    LET run[k \in 0 .. Len(m.text)] ==
            IF k = 0 THEN NewParser
            ELSE CHOOSE q \in {Parse(p, m.text[k]).parser : p \in {run[k - 1]}} : TRUE
    IN  run

\* The well-formed messages of the instances are Readable.
ASSUME MessagesReadable == \A m \in Messages : m.wellformed => ReadAlone(RunAlone(m), m)

Done(effect, blocks)   == [effect |-> effect, blocks |-> blocks, throws |-> FALSE]
Thrown(effect, blocks) == [effect |-> effect, blocks |-> blocks, throws |-> TRUE]

ContentOutcomes == {Done("content", 1)}

AllOutcomes ==
    {Done("none", 0), Done("content", 2), Done("stock", 0), Thrown("content", 2),
     Done("stream", 0), Done("stream", 2), Done("pipe", 1), Thrown("none", 0),
     Thrown("stream", 1), Thrown("pipe", 2)}
=============================================================================
