--------------------------- MODULE MessageParser ---------------------------
(***************************************************************************)
(* The HTTP request parser of lib-http/src/message-parser.cpp: a           *)
(* character driven automaton that is fed whatever bytes have arrived and  *)
(* answers `indeterminate' (wants more), `true' (a complete request was    *)
(* seen) or `false' (malformed).                                           *)
(*                                                                         *)
(* The parser object is a record and every member function is an operator  *)
(* from such a record and the next input symbol to an outcome.             *)
(*                                                                         *)
(* Input is a sequence of SYMBOLS.  The characters the automaton tells     *)
(* apart are symbols of their own.  A word is a run of two or more         *)
(* ordinary characters (not a control, not a tspecial, not all hex         *)
(* digits); the automaton treats each of its characters alike, so a word   *)
(* is consumed in one step, and it counts as one unit of a body's length.  *)
(* The spellings that iequals does not tell apart are one word.            *)
(***************************************************************************)
EXTENDS Integers, Sequences, FiniteSetsExt

CONSTANTS
    OtherWords,   \* words of letters besides the ones the code looks for
    UINT_MAX      \* largest value of an unsigned int

ASSUME OtherWordsAssumption == OtherWords \subseteq STRING
ASSUME UINT_MAXAssumption == UINT_MAX \in Nat \ {0}

-----------------------------------------------------------------------------
(* Input symbols *)

\* Characters for which iscntrl holds.
Controls == {"CR", "LF", "HT", "CTL"}

\* The `case' labels of is_tspecial; "TSP" stands for those never singled out.
is_tspecial == {"SP", "HT", ":", ";", "/", "TSP"}

Digits == {"0", "1", "2"}

DigitValue == [d \in Digits |-> CASE d = "0" -> 0 [] d = "1" -> 1 [] d = "2" -> 2]

Letters == {"H", "T", "P"}

AlphaWords == OtherWords \cup {"POST", "PUT", "Connection", "chunked", "close"}

Words == AlphaWords \cup {"Transfer-Encoding", "Content-Length", "keep-alive"}

Symbols == Controls \cup is_tspecial \cup Digits \cup Letters \cup {"."} \cup Words

Text == Seq(Symbols)

Header == [name : Text, value : Text]

-----------------------------------------------------------------------------
(* The parser object.  m_collect_payload is always true and               *)
(* m_http_version_major always 1, so neither is a field.                   *)

\* The member function m_parser points to; "null" before the first parse().
StateParsers == {"null", "initial_line", "header_lines", "chunk", "content"}

Parser == [ parser          : StateParsers,
            state           : Nat,
            chunk_size      : 0 .. UINT_MAX,
            data            : Text,
            uri             : Text,
            method          : Text,
            parsing_content : BOOLEAN,
            minor           : {0, 1},
            headers         : Seq(Header),
            payload         : Text ]

\* Mutant of Reset: m_method is not cleared.
ResetKeepsMethod(p) ==
    [p EXCEPT !.parser = "null", !.state = 0, !.chunk_size = 0, !.data = <<>>,
              !.uri = <<>>, !.parsing_content = FALSE, !.minor = 0]

\* parser::reset.  It leaves m_headers and m_payload as they are.
Reset(p) ==
    [p EXCEPT !.parser = "null", !.state = 0, !.chunk_size = 0, !.data = <<>>,
              !.uri = <<>>, !.method = <<>>, !.parsing_content = FALSE, !.minor = 0]

\* A newly constructed parser.
NewParser ==
    [ parser |-> "null", state |-> 0, chunk_size |-> 0, data |-> <<>>, uri |-> <<>>,
      method |-> <<>>, parsing_content |-> FALSE, minor |-> 0, headers |-> <<>>,
      payload |-> <<>> ]

\* The three values of a boost::tribool, each with the parser it leaves.
Outcome == [parser : Parser, result : {"indeterminate", "true", "false"}]

Indeterminate(p) == [parser |-> p, result |-> "indeterminate"]
True(p)          == [parser |-> p, result |-> "true"]
False(p)         == [parser |-> p, result |-> "false"]

Goto(p, s) == [p EXCEPT !.state = s]

\* `if (ch == symbol) <q> else result = false'
Expect(p, ch, symbol, q) == IF ch = symbol THEN Indeterminate(q) ELSE False(p)

-----------------------------------------------------------------------------
(* request_parser::parse_initial_line: METHOD URI HTTP/1.0 (or 1.1) *)

HttpSlashOne == <<"H", "T", "T", "P", "/", "1">>

ParseMethod(p, ch) ==
    CASE ch \in Letters \cup AlphaWords ->
            Indeterminate([p EXCEPT !.method = Append(@, ch)])
      [] ch = "SP" -> Indeterminate(Goto(p, 1))
      [] OTHER     -> False(p)

ParseUri(p, ch) ==
    CASE ch = "SP"       -> Indeterminate(Goto(p, 2))
      [] ch \in Controls -> False(p)
      [] OTHER           -> Indeterminate([p EXCEPT !.uri = Append(@, ch)])

ParseMinor(p, ch) ==
    CASE ch = "1" -> Indeterminate([p EXCEPT !.minor = 1, !.state = 10])
      [] ch = "0" -> Indeterminate(Goto(p, 10))
      [] OTHER    -> False(p)

ParseInitialLine(p, ch) ==
    CASE p.state = 0        -> ParseMethod(p, ch)
      [] p.state = 1        -> ParseUri(p, ch)
      [] p.state \in 2 .. 7 ->
            Expect(p, ch, HttpSlashOne[p.state - 1], Goto(p, p.state + 1))
      [] p.state = 8        -> IF ch = "CR" THEN Indeterminate(Goto(p, 11))
                                            ELSE Expect(p, ch, ".", Goto(p, 9))
      [] p.state = 9        -> ParseMinor(p, ch)
      [] p.state = 10       -> Expect(p, ch, "CR", Goto(p, 11))
      [] p.state = 11       ->
            Expect(p, ch, "LF", [p EXCEPT !.state = 0, !.parser = "header_lines"])
      [] OTHER              -> Indeterminate(p)

-----------------------------------------------------------------------------
(* What `std::stringstream s(text); s >> n' stores in the unsigned n:      *)
(* white space is skipped, digits are taken as long as they last, 0 when   *)
(* there are none and UINT_MAX when the number does not fit.  Nothing is   *)
(* stored when there is nothing but white space.                           *)

Blanks(text) ==
    Max({n \in 0 .. Len(text) : \A j \in 1 .. n : text[j] \in {"SP", "HT", "LF"}})

IsBlank(text) == Blanks(text) = Len(text)

LastDigit(text) ==
    Max({n \in Blanks(text) .. Len(text) :
            \A j \in Blanks(text) + 1 .. n : text[j] \in Digits})

Value(text, base) ==
    LET value[n \in Nat] ==
            IF n <= Blanks(text) THEN 0
                                 ELSE base * value[n - 1] + DigitValue[text[n]]
    IN  value[LastDigit(text)]

Extract(text, base) ==
    IF Value(text, base) \in 0 .. UINT_MAX THEN Value(text, base) ELSE UINT_MAX

-----------------------------------------------------------------------------
(* parser::parse_header_lines: NAME: VALUE, optionally continued on a line *)
(* that starts with white space                                            *)

\* m_headers.back().name += ch and m_headers.back().value += ch
AppendName(headers, ch)  == [headers EXCEPT ![Len(headers)].name = Append(@, ch)]
AppendValue(headers, ch) == [headers EXCEPT ![Len(headers)].value = Append(@, ch)]

NewHeader(ch) == [name |-> <<ch>>, value |-> <<>>]

IsName(h, word) == h.name = <<word>>

IsChunked(h) == IsName(h, "Transfer-Encoding") /\ h.value = <<"chunked">>

IsClose(h) == IsName(h, "Connection") /\ h.value = <<"close">>

\* The headers the loop at the end of the header section looks at before it
\* breaks at the first `Transfer-Encoding: chunked'.
Scanned(headers) ==
    {i \in DOMAIN headers : \A j \in 1 .. i : ~ IsChunked(headers[j])}

Lengths(headers) == {i \in Scanned(headers) : IsName(headers[i], "Content-Length")}

\* m_chunk_size when the header at i has been looked at: the last Content-Length
\* with a value so far.
LengthAt(p, i) ==
    LET given == {j \in Lengths(p.headers) : j <= i /\ ~IsBlank(p.headers[j].value)}
    IN  IF given = {} THEN p.chunk_size ELSE Extract(p.headers[Max(given)].value, 10)

ZeroLengths(p) == {i \in Lengths(p.headers) : LengthAt(p, i) = 0}

Closers(p) ==
    {i \in Scanned(p.headers) :
        IsClose(p.headers[i]) /\ p.method \in {<<"POST">>, <<"PUT">>}}

\* m_chunk_size after the loop
ChunkSize(p) == LengthAt(p, Len(p.headers))

\* m_parsing_content after the loop: the last header that assigns it decides.
ParsingContent(p) ==
    LET deciding == Lengths(p.headers) \cup Closers(p)
    IN  IF deciding = {} THEN p.parsing_content
                         ELSE Max(deciding) \notin ZeroLengths(p)

EndOfHeaders(p) ==
    LET chunked == \E i \in DOMAIN p.headers : IsChunked(p.headers[i])
        content == (Lengths(p.headers) \ ZeroLengths(p)) \cup Closers(p) # {}
    IN  [p EXCEPT !.chunk_size = ChunkSize(p),
                  !.parser = CASE chunked -> "chunk"
                               [] ~chunked /\ content -> "content"
                               [] OTHER -> @,
                  !.state = IF chunked THEN 0 ELSE @,
                  !.parsing_content = chunked \/ ParsingContent(p)]

\* Mutant of ParseHeaderStart: a continuation line is accepted as the first line.
ParseHeaderStartUnguarded(p, ch) ==
    IF ch = "CR" THEN Indeterminate(Goto(p, 20))
    ELSE IF ch \in {"SP", "HT"} THEN Indeterminate(Goto(p, 10))
    ELSE IF ch \in Controls \cup is_tspecial THEN False(p)
    ELSE Indeterminate([p EXCEPT !.headers = Append(@, NewHeader(ch)), !.state = 1])

ParseHeaderStart(p, ch) ==
    IF ch = "CR" THEN Indeterminate(Goto(p, 20))
    ELSE IF ch \in {"SP", "HT"} /\ p.headers # <<>> THEN Indeterminate(Goto(p, 10))
    ELSE IF ch \in Controls \cup is_tspecial THEN False(p)
    ELSE Indeterminate([p EXCEPT !.headers = Append(@, NewHeader(ch)), !.state = 1])

ParseHeaderName(p, ch) ==
    CASE ch = ":" -> Indeterminate(Goto(p, 2))
      [] ch \in (Controls \cup is_tspecial) \ {":"} -> False(p)
      [] OTHER -> Indeterminate([p EXCEPT !.headers = AppendName(@, ch)])

ParseValueStart(p, ch) ==
    CASE ch = "CR" -> Indeterminate(Goto(p, 5))
      [] ch = "SP" -> Indeterminate(p)
      [] OTHER     ->
            Indeterminate([p EXCEPT !.headers = AppendValue(@, ch), !.state = 4])

ParseValue(p, ch) ==
    CASE ch = "CR" -> Indeterminate(Goto(p, 5))
      [] OTHER     -> Indeterminate([p EXCEPT !.headers = AppendValue(@, ch)])

\* The first character of a continuation puts the automaton back in state 3,
\* any further character of the same word takes it on to state 4.
ParseContinuation(p, ch) ==
    CASE ch = "CR" -> Indeterminate(Goto(p, 4))
      [] ch \in Controls \ {"CR"} -> False(p)
      [] ch = "SP" -> Indeterminate(p)
      [] OTHER     ->
            Indeterminate([p EXCEPT !.headers = AppendValue(@, ch),
                                    !.state = IF ch \in Words THEN 4 ELSE 3])

ParseHeaderLines(p, ch) ==
    CASE p.state = 0  -> ParseHeaderStart(p, ch)
      [] p.state = 1  -> ParseHeaderName(p, ch)
      [] p.state = 2  -> Expect(p, ch, "SP", Goto(p, 3))
      [] p.state = 3  -> ParseValueStart(p, ch)
      [] p.state = 4  -> ParseValue(p, ch)
      [] p.state = 5  -> Expect(p, ch, "LF", Goto(p, 0))
      [] p.state = 10 -> ParseContinuation(p, ch)
      [] p.state = 20 -> IF ch = "LF" THEN True(EndOfHeaders(p)) ELSE False(p)
      [] OTHER        -> Indeterminate(p)

-----------------------------------------------------------------------------
(* parser::parse_chunk *)

ParseChunkSize(p, ch) ==
    CASE ch \in Digits -> Indeterminate([p EXCEPT !.data = Append(@, ch)])
      [] ch = ";"      -> Indeterminate(Goto(p, 2))
      [] ch = "CR"     -> Indeterminate(Goto(p, 3))
      [] OTHER         -> False(p)

ParseChunkExtension(p, ch) ==
    CASE ch = "CR" -> Indeterminate(Goto(p, 3))
      [] ch \in (Controls \cup is_tspecial) \ {"CR"} -> False(p)
      [] OTHER     -> Indeterminate(p)

StartChunk(p) ==
    [p EXCEPT !.chunk_size = Extract(p.data, 16),
              !.state = IF Extract(p.data, 16) > 0 THEN 4 ELSE 10]

\* Mutant of Decrement: m_chunk_size as a signed int.
DecrementSigned(n) == n - 1

\* --m_chunk_size, an unsigned int
Decrement(n) == IF n = 0 THEN UINT_MAX ELSE n - 1

ParseChunkData(p, ch) ==
    Indeterminate([p EXCEPT !.payload = Append(@, ch),
                            !.chunk_size = Decrement(@),
                            !.state = IF Decrement(p.chunk_size) = 0 THEN 5 ELSE 4])

ParseChunk(p, ch) ==
    CASE p.state = 0  -> IF ch \in Digits
                         THEN Indeterminate([p EXCEPT !.data = <<ch>>, !.state = 1])
                         ELSE False(p)
      [] p.state = 1  -> ParseChunkSize(p, ch)
      [] p.state = 2  -> ParseChunkExtension(p, ch)
      [] p.state = 3  -> Expect(p, ch, "LF", StartChunk(p))
      [] p.state = 4  -> ParseChunkData(p, ch)
      [] p.state = 5  -> Expect(p, ch, "CR", Goto(p, 6))
      [] p.state = 6  -> Expect(p, ch, "LF", Goto(p, 0))
      [] p.state = 10 -> Expect(p, ch, "CR", Goto(p, 11))
      [] p.state = 11 -> IF ch = "LF" THEN True(p) ELSE False(p)
      [] OTHER        -> Indeterminate(p)

-----------------------------------------------------------------------------
(* parser::parse_content *)

ParseContent(p, ch) ==
    LET q == [p EXCEPT !.payload = Append(@, ch), !.chunk_size = Decrement(@)]
    IN  IF q.chunk_size = 0
        THEN True([q EXCEPT !.parsing_content = FALSE])
        ELSE Indeterminate(q)

-----------------------------------------------------------------------------
(* request_parser::parse, one turn of its loop.  The local                 *)
(* is_parsing_content always equals m_parsing_content as it was before the *)
(* symbol: it is copied from it on entry, follows it when it turns true,   *)
(* and when it turns false the result ends the loop.                       *)

Begin(p) ==
    IF p.parser = "null"
    THEN [p EXCEPT !.parser = "initial_line", !.parsing_content = FALSE]
    ELSE p

Dispatch(p, ch) ==
    CASE p.parser = "initial_line" -> ParseInitialLine(p, ch)
      [] p.parser = "header_lines" -> ParseHeaderLines(p, ch)
      [] p.parser = "chunk"        -> ParseChunk(p, ch)
      [] p.parser = "content"      -> ParseContent(p, ch)

\* The end of the headers of a message with a body is not its end.
AwaitBody(before, outcome) ==
    IF outcome.result = "true" /\ ~before.parsing_content /\ outcome.parser.parsing_content
    THEN Indeterminate(outcome.parser)
    ELSE outcome

Parse(p, ch) == AwaitBody(Begin(p), Dispatch(Begin(p), ch))

-----------------------------------------------------------------------------
(* request_parser::get_request: headers and payload are moved out, as is   *)
(* the uri; the method is copied.                                          *)

Request == [method : Text, uri : Text, minor : {0, 1}, headers : Seq(Header),
            payload : Text]

GetRequest(p) == [method |-> p.method, uri |-> p.uri, minor |-> p.minor,
                  headers |-> p.headers, payload |-> p.payload]

MovedFrom(p) == [p EXCEPT !.uri = <<>>, !.headers = <<>>, !.payload = <<>>]

-----------------------------------------------------------------------------
(* What the automaton relies on.                                           *)

\* m_state is a label of the switch of the function m_parser points to:
\* no symbol is dropped by falling through it.
StateInSwitch(p) ==
    /\ p.parser = "null"         => p.state = 0
    /\ p.parser = "initial_line" => p.state \in 0 .. 11
    /\ p.parser = "header_lines" => p.state \in {0, 1, 2, 3, 4, 5, 10, 20}
    /\ p.parser = "chunk"        => p.state \in (0 .. 6) \cup {10, 11}

\* m_headers.back() is only called on a vector that is not empty.
BackDefined(p) ==
    p.parser = "header_lines" /\ p.state \in {1, 2, 3, 4, 5, 10} => p.headers # <<>>

\* Inside a chunk the unsigned counter is never decremented past zero.
ChunkCounts(p) == p.parser = "chunk" /\ p.state = 4 => p.chunk_size > 0

ParserSafe(p) == StateInSwitch(p) /\ BackDefined(p) /\ ChunkCounts(p)
=============================================================================
