-------------------------- MODULE ConnectionProofs --------------------------
(***************************************************************************)
(* Proofs about Connection, for every set of client messages, every        *)
(* outcome of the controllers and every way the input is cut into reads.   *)
(***************************************************************************)
EXTENDS Connection, TLAPS, SequenceTheorems

-----------------------------------------------------------------------------
(* The parser *)

\* Appending to the last header's name or value leaves a list of headers.
LEMMA AppendToBack ==
    ASSUME NEW headers \in Seq(Header), headers # <<>>, NEW ch \in Symbols
    PROVE  /\ AppendName(headers, ch) \in Seq(Header)
           /\ AppendValue(headers, ch) \in Seq(Header)
           /\ AppendName(headers, ch) # <<>>
           /\ AppendValue(headers, ch) # <<>>
<1> DEFINE n == Len(headers)
<1>1. n \in 1 .. Len(headers) /\ headers[n] \in Header
  OBVIOUS
<1>2. Append(headers[n].name, ch) \in Text /\ Append(headers[n].value, ch) \in Text
  BY <1>1 DEF Header, Text
<1>3. [headers[n] EXCEPT !.name = Append(@, ch)] \in Header
  BY <1>1, <1>2 DEF Header
<1>4. [headers[n] EXCEPT !.value = Append(@, ch)] \in Header
  BY <1>1, <1>2 DEF Header
<1>5. QED
  BY <1>1, <1>3, <1>4 DEF AppendName, AppendValue

\* A parser outcome is safe: of the right type and ready for the next symbol.
SafeOutcome(o) == o \in Outcome /\ ParserSafe(o.parser)

\* A state that is safe is safe whatever the automaton answers in it.
LEMMA OutcomesOfSafe ==
    ASSUME NEW p \in Parser, ParserSafe(p)
    PROVE  SafeOutcome(Indeterminate(p)) /\ SafeOutcome(True(p)) /\ SafeOutcome(False(p))
BY DEF SafeOutcome, Outcome, Indeterminate, True, False

\* request_parser::parse_initial_line
LEMMA InitialLineSafe ==
    ASSUME NEW p \in Parser, ParserSafe(p), p.parser = "initial_line", NEW ch \in Symbols
    PROVE  SafeOutcome(ParseInitialLine(p, ch))
<1>1. p.state \in 0 .. 11
  BY DEF ParserSafe, StateInSwitch
<1>2. Append(p.method, ch) \in Text /\ Append(p.uri, ch) \in Text
  BY DEF Parser, Text
<1>3. \A s \in 0 .. 11 : Goto(p, s) \in Parser /\ ParserSafe(Goto(p, s))
  BY DEF Goto, Parser, ParserSafe, StateInSwitch, BackDefined, ChunkCounts
<1>4. SafeOutcome(False(p))
  BY OutcomesOfSafe
<1>5. \A s \in 0 .. 11 : SafeOutcome(Indeterminate(Goto(p, s)))
  BY <1>3, OutcomesOfSafe
<1>6. CASE p.state = 0
  <2>1. [p EXCEPT !.method = Append(@, ch)] \in Parser
    BY <1>2 DEF Parser
  <2>2. ParserSafe([p EXCEPT !.method = Append(@, ch)])
    BY DEF Parser, ParserSafe, StateInSwitch, BackDefined, ChunkCounts
  <2>3. SafeOutcome(ParseMethod(p, ch))
    BY <2>1, <2>2, <1>4, <1>5, OutcomesOfSafe DEF ParseMethod
  <2>4. QED
    BY <1>6, <2>3 DEF ParseInitialLine
<1>7. CASE p.state = 1
  <2>1. [p EXCEPT !.uri = Append(@, ch)] \in Parser
    BY <1>2 DEF Parser
  <2>2. ParserSafe([p EXCEPT !.uri = Append(@, ch)])
    BY DEF Parser, ParserSafe, StateInSwitch, BackDefined, ChunkCounts
  <2>3. SafeOutcome(ParseUri(p, ch))
    BY <2>1, <2>2, <1>4, <1>5, OutcomesOfSafe DEF ParseUri
  <2>4. QED
    BY <1>7, <2>3 DEF ParseInitialLine
<1>8. CASE p.state \in 2 .. 7
  <2>1. ParseInitialLine(p, ch)
            = Expect(p, ch, HttpSlashOne[p.state - 1], Goto(p, p.state + 1))
    BY <1>8 DEF ParseInitialLine
  <2>2. p.state + 1 \in 0 .. 11
    BY <1>8
  <2>3. QED
    BY <2>1, <2>2, <1>4, <1>5 DEF Expect
<1>9. CASE p.state = 8
  BY <1>9, <1>4, <1>5 DEF ParseInitialLine, Expect
<1>10. CASE p.state = 9
  <2>1. [p EXCEPT !.minor = 1, !.state = 10] \in Parser
    BY DEF Parser
  <2>2. ParserSafe([p EXCEPT !.minor = 1, !.state = 10])
    BY DEF Parser, ParserSafe, StateInSwitch, BackDefined, ChunkCounts
  <2>3. SafeOutcome(ParseMinor(p, ch))
    BY <2>1, <2>2, <1>4, <1>5, OutcomesOfSafe DEF ParseMinor
  <2>4. QED
    BY <1>10, <2>3 DEF ParseInitialLine
<1>11. CASE p.state = 10
  BY <1>11, <1>4, <1>5 DEF ParseInitialLine, Expect
<1>12. CASE p.state = 11
  <2> DEFINE q == [p EXCEPT !.state = 0, !.parser = "header_lines"]
  <2>1. q \in Parser
    BY DEF Parser, StateParsers
  <2>2. ParserSafe(q)
    BY DEF Parser, ParserSafe, StateInSwitch, BackDefined, ChunkCounts
  <2>3. SafeOutcome(Indeterminate(q))
    BY <2>1, <2>2, OutcomesOfSafe
  <2>4. QED
    BY <1>12, <2>3, <1>4 DEF ParseInitialLine, Expect
<1>13. QED
  BY <1>1, <1>6, <1>7, <1>8, <1>9, <1>10, <1>11, <1>12

\* The number read from a text fits an unsigned int.
LEMMA ExtractInRange ==
    ASSUME NEW text, NEW base
    PROVE  Extract(text, base) \in 0 .. UINT_MAX
BY UINT_MAXAssumption DEF Extract

\* The end of the header section leaves the parser ready for the body.
LEMMA EndOfHeadersSafe ==
    ASSUME NEW p \in Parser, p.parser = "header_lines", p.state = 20
    PROVE  EndOfHeaders(p) \in Parser /\ ParserSafe(EndOfHeaders(p))
<1>1. ChunkSize(p) \in 0 .. UINT_MAX
  BY ExtractInRange DEF ChunkSize, LengthAt, Parser
<1>2. ParsingContent(p) \in BOOLEAN
  BY DEF ParsingContent, Parser
<1> DEFINE chunked == \E i \in DOMAIN p.headers : IsChunked(p.headers[i])
           content == (Lengths(p.headers) \ ZeroLengths(p)) \cup Closers(p) # {}
           next == CASE chunked -> "chunk"
                     [] ~chunked /\ content -> "content"
                     [] OTHER -> p.parser
           state == IF chunked THEN 0 ELSE p.state
           parsing == chunked \/ ParsingContent(p)
<1>3. EndOfHeaders(p) = [p EXCEPT !.chunk_size = ChunkSize(p), !.parser = next,
                                  !.state = state, !.parsing_content = parsing]
  BY DEF EndOfHeaders
<1>4. /\ next \in {"chunk", "content", "header_lines"}
      /\ next = "chunk" => state = 0
      /\ next # "chunk" => state = 20
      /\ state \in Nat
      /\ parsing \in BOOLEAN
  BY <1>2
<1> HIDE DEF next, state, parsing
<1>5. EndOfHeaders(p) \in Parser
  BY <1>1, <1>3, <1>4 DEF Parser, StateParsers
<1>6. ParserSafe(EndOfHeaders(p))
  BY <1>3, <1>4 DEF Parser, ParserSafe, StateInSwitch, BackDefined, ChunkCounts
<1>7. QED
  BY <1>5, <1>6

\* parser::parse_header_lines: back() is called when there is a header to extend.
LEMMA HeaderLinesSafe ==
    ASSUME NEW p \in Parser, ParserSafe(p), p.parser = "header_lines", NEW ch \in Symbols
    PROVE  SafeOutcome(ParseHeaderLines(p, ch))
<1> DEFINE States == {0, 1, 2, 3, 4, 5, 10, 20}
<1>1. p.state \in States /\ (p.state \in {1, 2, 3, 4, 5, 10} => p.headers # <<>>)
  BY DEF ParserSafe, StateInSwitch, BackDefined
<1>2. SafeOutcome(False(p)) /\ SafeOutcome(Indeterminate(p))
  BY OutcomesOfSafe
<1>3. ASSUME NEW s \in States, s \in {0, 20} \/ p.headers # <<>>
      PROVE  SafeOutcome(Indeterminate(Goto(p, s)))
  <2>1. Goto(p, s) \in Parser
    BY DEF Goto, Parser
  <2>2. ParserSafe(Goto(p, s))
    BY <1>3 DEF Goto, Parser, ParserSafe, StateInSwitch, BackDefined, ChunkCounts
  <2>3. QED
    BY <2>1, <2>2, OutcomesOfSafe
<1>4. ASSUME NEW headers \in Seq(Header), headers # <<>>, NEW s \in States
      PROVE  SafeOutcome(Indeterminate([p EXCEPT !.headers = headers, !.state = s]))
  <2> DEFINE q == [p EXCEPT !.headers = headers, !.state = s]
  <2>0. s \in Nat
    OBVIOUS
  <2>1. q \in Parser
    BY <2>0 DEF Parser
  <2>2. ParserSafe(q)
    BY <1>4 DEF Parser, ParserSafe, StateInSwitch, BackDefined, ChunkCounts
  <2>3. QED
    BY <2>1, <2>2, OutcomesOfSafe
<1>5. ASSUME NEW headers \in Seq(Header), headers # <<>>
      PROVE  SafeOutcome(Indeterminate([p EXCEPT !.headers = headers]))
  <2> DEFINE q == [p EXCEPT !.headers = headers]
  <2>1. q \in Parser
    BY DEF Parser
  <2>2. ParserSafe(q)
    BY <1>5 DEF Parser, ParserSafe, StateInSwitch, BackDefined, ChunkCounts
  <2>3. QED
    BY <2>1, <2>2, OutcomesOfSafe
<1>6. p.headers \in Seq(Header)
  BY DEF Parser
<1>7. p.headers # <<>> =>
            /\ AppendName(p.headers, ch) \in Seq(Header) /\ AppendName(p.headers, ch) # <<>>
            /\ AppendValue(p.headers, ch) \in Seq(Header) /\ AppendValue(p.headers, ch) # <<>>
  BY <1>6, AppendToBack
<1>8. CASE p.state = 0
  <2>1. NewHeader(ch) \in Header
    BY DEF NewHeader, Header, Text
  <2>2. Append(p.headers, NewHeader(ch)) \in Seq(Header)
        /\ Append(p.headers, NewHeader(ch)) # <<>>
    BY <1>6, <2>1
  <2>3. SafeOutcome(ParseHeaderStart(p, ch))
    BY <2>2, <1>2, <1>3, <1>4 DEF ParseHeaderStart
  <2>4. QED
    BY <1>8, <2>3 DEF ParseHeaderLines
<1>9. CASE p.state = 1
  <2>1. SafeOutcome(ParseHeaderName(p, ch))
    BY <1>9, <1>1, <1>2, <1>3, <1>5, <1>7 DEF ParseHeaderName
  <2>2. QED
    BY <1>9, <2>1 DEF ParseHeaderLines
<1>10. CASE p.state = 2
  BY <1>10, <1>1, <1>2, <1>3 DEF ParseHeaderLines, Expect
<1>11. CASE p.state = 3
  <2>1. SafeOutcome(ParseValueStart(p, ch))
    BY <1>11, <1>1, <1>2, <1>3, <1>4, <1>7 DEF ParseValueStart
  <2>2. QED
    BY <1>11, <2>1 DEF ParseHeaderLines
<1>12. CASE p.state = 4
  <2>1. SafeOutcome(ParseValue(p, ch))
    BY <1>12, <1>1, <1>2, <1>3, <1>5, <1>7 DEF ParseValue
  <2>2. QED
    BY <1>12, <2>1 DEF ParseHeaderLines
<1>13. CASE p.state = 5
  BY <1>13, <1>1, <1>2, <1>3 DEF ParseHeaderLines, Expect
<1>14. CASE p.state = 10
  <2>1. SafeOutcome(ParseContinuation(p, ch))
    BY <1>14, <1>1, <1>2, <1>3, <1>4, <1>7 DEF ParseContinuation
  <2>2. QED
    BY <1>14, <2>1 DEF ParseHeaderLines
<1>15. CASE p.state = 20
  <2>1. SafeOutcome(True(EndOfHeaders(p)))
    BY <1>15, EndOfHeadersSafe, OutcomesOfSafe
  <2>2. QED
    BY <1>15, <2>1, <1>2 DEF ParseHeaderLines
<1>16. QED
  BY <1>1, <1>8, <1>9, <1>10, <1>11, <1>12, <1>13, <1>14, <1>15

\* parser::parse_chunk: the counter of a chunk's bytes keeps its range.
LEMMA ChunkSafe ==
    ASSUME NEW p \in Parser, ParserSafe(p), p.parser = "chunk", NEW ch \in Symbols
    PROVE  SafeOutcome(ParseChunk(p, ch))
<1>1. p.state \in (0 .. 6) \cup {10, 11} /\ (p.state = 4 => p.chunk_size > 0)
  BY DEF ParserSafe, StateInSwitch, ChunkCounts
<1>2. SafeOutcome(False(p)) /\ SafeOutcome(Indeterminate(p)) /\ SafeOutcome(True(p))
  BY OutcomesOfSafe
<1>3. ASSUME NEW s \in {0, 1, 2, 3, 5, 6, 10, 11}
      PROVE  SafeOutcome(Indeterminate(Goto(p, s)))
  <2>1. Goto(p, s) \in Parser
    BY DEF Goto, Parser
  <2>2. ParserSafe(Goto(p, s))
    BY DEF Goto, Parser, ParserSafe, StateInSwitch, BackDefined, ChunkCounts
  <2>3. QED
    BY <2>1, <2>2, OutcomesOfSafe
<1>4. CASE p.state = 0
  <2> DEFINE q == [p EXCEPT !.data = <<ch>>, !.state = 1]
  <2>0. <<ch>> \in Text
    BY DEF Text
  <2>1. q \in Parser
    BY <2>0 DEF Parser
  <2>2. ParserSafe(q)
    BY DEF Parser, ParserSafe, StateInSwitch, BackDefined, ChunkCounts
  <2>3. SafeOutcome(Indeterminate(q))
    BY <2>1, <2>2, OutcomesOfSafe
  <2>4. QED
    BY <1>2, <1>4, <2>3 DEF ParseChunk
<1>5. CASE p.state = 1
  <2> DEFINE q == [p EXCEPT !.data = Append(@, ch)]
  <2>0. Append(p.data, ch) \in Text
    BY DEF Parser, Text
  <2>1. q \in Parser
    BY <2>0 DEF Parser
  <2>2. ParserSafe(q)
    BY DEF Parser, ParserSafe, StateInSwitch, BackDefined, ChunkCounts
  <2>3. SafeOutcome(Indeterminate(q))
    BY <2>1, <2>2, OutcomesOfSafe
  <2>4. SafeOutcome(ParseChunkSize(p, ch))
    BY <1>2, <1>3, <2>3 DEF ParseChunkSize
  <2>5. QED
    BY <1>5, <2>4 DEF ParseChunk
<1>6. CASE p.state = 2
  <2>1. SafeOutcome(ParseChunkExtension(p, ch))
    BY <1>2, <1>3 DEF ParseChunkExtension
  <2>2. QED
    BY <1>6, <2>1 DEF ParseChunk
<1>7. CASE p.state = 3
  <2> DEFINE size == Extract(p.data, 16)
             state == IF size > 0 THEN 4 ELSE 10
             q == [p EXCEPT !.chunk_size = size, !.state = state]
  <2>1. size \in 0 .. UINT_MAX
    BY ExtractInRange
  <2>2. state \in {4, 10} /\ state \in Nat /\ (state = 4 => size > 0)
    OBVIOUS
  <2> HIDE DEF size, state
  <2>3. q \in Parser
    BY <2>1, <2>2 DEF Parser
  <2>4. ParserSafe(q)
    BY <2>1, <2>2 DEF Parser, ParserSafe, StateInSwitch, BackDefined, ChunkCounts
  <2>5. StartChunk(p) = q
    BY DEF StartChunk, size, state
  <2>6. SafeOutcome(Indeterminate(StartChunk(p)))
    BY <2>3, <2>4, <2>5, OutcomesOfSafe
  <2>7. QED
    BY <1>2, <1>7, <2>6 DEF ParseChunk, Expect
<1>8. CASE p.state = 4
  <2> DEFINE size == Decrement(p.chunk_size)
             state == IF size = 0 THEN 5 ELSE 4
             q == [p EXCEPT !.payload = Append(@, ch), !.chunk_size = size, !.state = state]
  <2>1. size \in 0 .. UINT_MAX
    BY <1>8, <1>1, UINT_MAXAssumption DEF Decrement, Parser
  <2>2. state \in {4, 5} /\ state \in Nat /\ (state = 4 => size > 0)
    BY <2>1
  <2>3. Append(p.payload, ch) \in Text
    BY DEF Parser, Text
  <2>4. ParseChunkData(p, ch) = Indeterminate(q)
    BY DEF ParseChunkData
  <2> HIDE DEF size, state
  <2>5. q \in Parser
    BY <2>1, <2>2, <2>3 DEF Parser
  <2>6. ParserSafe(q)
    BY <2>1, <2>2 DEF Parser, ParserSafe, StateInSwitch, BackDefined, ChunkCounts
  <2>7. QED
    BY <1>8, <2>4, <2>5, <2>6, OutcomesOfSafe DEF ParseChunk
<1>9. CASE p.state \in {5, 6, 10}
  BY <1>2, <1>3, <1>9 DEF ParseChunk, Expect
<1>10. CASE p.state = 11
  BY <1>2, <1>10 DEF ParseChunk
<1>11. QED
  BY <1>1, <1>4, <1>5, <1>6, <1>7, <1>8, <1>9, <1>10

\* parser::parse_content
LEMMA ContentSafe ==
    ASSUME NEW p \in Parser, p.parser = "content", NEW ch \in Symbols
    PROVE  SafeOutcome(ParseContent(p, ch))
<1> DEFINE size == Decrement(p.chunk_size)
           q == [p EXCEPT !.payload = Append(@, ch), !.chunk_size = size]
           r == [q EXCEPT !.parsing_content = FALSE]
<1>1. size \in 0 .. UINT_MAX
  BY UINT_MAXAssumption DEF Decrement, Parser
<1>2. Append(p.payload, ch) \in Text
  BY DEF Parser, Text
<1>3. ParseContent(p, ch) \in {True(r), Indeterminate(q)}
  BY DEF ParseContent
<1> HIDE DEF size
<1>4. q \in Parser /\ r \in Parser
  BY <1>1, <1>2 DEF Parser
<1>5. ParserSafe(q) /\ ParserSafe(r)
  BY DEF Parser, ParserSafe, StateInSwitch, BackDefined, ChunkCounts
<1>6. QED
  BY <1>3, <1>4, <1>5, OutcomesOfSafe

\* One turn of the loop in request_parser::parse keeps a safe parser safe,
\* whatever the symbol.
LEMMA ParseSafe ==
    ASSUME NEW p \in Parser, ParserSafe(p), NEW ch \in Symbols
    PROVE  SafeOutcome(Parse(p, ch))
<1> DEFINE b == Begin(p)
<1>1. b \in Parser /\ ParserSafe(b) /\ b.parser \in StateParsers \ {"null"}
  <2>1. CASE p.parser = "null"
    <3> DEFINE q == [p EXCEPT !.parser = "initial_line", !.parsing_content = FALSE]
    <3>1. q \in Parser /\ q.parser = "initial_line"
      BY DEF Parser, StateParsers
    <3>2. ParserSafe(q)
      BY <2>1 DEF Parser, ParserSafe, StateInSwitch, BackDefined, ChunkCounts
    <3>3. QED
      BY <2>1, <3>1, <3>2 DEF Begin, StateParsers
  <2>2. CASE p.parser # "null"
    BY <2>2 DEF Begin, Parser
  <2>3. QED
    BY <2>1, <2>2
<1> HIDE DEF b
<1>2. SafeOutcome(Dispatch(b, ch))
  BY <1>1, InitialLineSafe, HeaderLinesSafe, ChunkSafe, ContentSafe
     DEF Dispatch, StateParsers
<1>3. SafeOutcome(AwaitBody(b, Dispatch(b, ch)))
  BY <1>2, OutcomesOfSafe DEF AwaitBody, SafeOutcome, Outcome
<1>4. QED
  BY <1>3 DEF Parse, b

-----------------------------------------------------------------------------
(* Types and parser safety of a connection *)

SafetyInv ==
    /\ TypeOK
    /\ ParserSafe(parser)
    /\ pc = "writing" => wire # <<>>

\* What a member of reply does to a reply leaves a reply.
LEMMA NewReplyType == NewReply \in Reply
BY DEF NewReply, Reply, Statuses, NoData, NoLength

\* The operations on a reply give a reply, and what is written to the socket is a message.
LEMMA AssignType ==
    ASSUME NEW r \in Reply, NEW q \in Reply
    PROVE  Assign(r, q) \in Reply
BY DEF Assign, Reply

LEMMA SetContentType ==
    ASSUME NEW r \in Reply, NEW n \in Nat
    PROVE  SetContent(r, n) \in Reply
BY DEF SetContent, Reply, Statuses, NoData, NoLength

LEMMA SetStreamType ==
    ASSUME NEW r \in Reply, NEW n \in Nat, NEW b \in BOOLEAN
    PROVE  SetStream(r, n, b) \in Reply
BY DEF SetStream, Reply, Statuses, NoData, NoLength

LEMMA SetStatusType ==
    ASSUME NEW r \in Reply, NEW s \in Statuses
    PROVE  SetStatus(r, s) \in Reply
BY DEF SetStatus, Reply

LEMMA SetVersionType ==
    ASSUME NEW r \in Reply, NEW v \in {0, 1}
    PROVE  SetVersion(r, v) \in Reply
<1>1. CASE v = 0 /\ r.data # NoData
  <2>1. r.data \in Nat /\ r.content \in Nat
    BY <1>1 DEF Reply
  <2> DEFINE c == IF r.seekable THEN r.content ELSE r.content + r.data
             d == IF r.seekable THEN r.data ELSE NoData
  <2>2. c \in Nat /\ d \in Nat \cup {NoData}
    BY <2>1
  <2>3. SetVersion(r, v) = [r EXCEPT !.minor = v, !.chunked = FALSE, !.te = FALSE,
                                     !.length = r.data, !.content = c, !.data = d]
    BY <1>1 DEF SetVersion
  <2> HIDE DEF c, d
  <2>4. QED
    BY <2>1, <2>2, <2>3 DEF Reply
<1>2. CASE ~(v = 0 /\ r.data # NoData)
  BY <1>2 DEF SetVersion, Reply
<1>3. QED
  BY <1>1, <1>2

LEMMA SetKeepAliveType ==
    ASSUME NEW r \in Reply
    PROVE  SetKeepAlive(r) \in Reply
BY DEF SetKeepAlive, Reply

LEMMA DataToBuffersReplyType ==
    ASSUME NEW r \in Reply
    PROVE  DataToBuffersReply(r) \in Reply
BY DEF DataToBuffersReply, Reply, NoData

LEMMA ToBuffersType ==
    ASSUME NEW r \in Reply
    PROVE  ToBuffers(r) \in Message
BY DEF ToBuffers, Reply, Message

LEMMA DataToBuffersMessageType ==
    ASSUME NEW r \in Reply, NEW m \in Message
    PROVE  DataToBuffersMessage(r, m) \in Message
<1>0. m.chunks + 1 \in Nat /\ m.raw + 1 \in Nat
  BY DEF Message
<1>1. /\ [m EXCEPT !.chunks = @ + 1] \in Message
      /\ [m EXCEPT !.raw = @ + 1] \in Message
      /\ [m EXCEPT !.last = TRUE] \in Message
  BY <1>0 DEF Message
<1>2. r.data = NoData \/ r.data = 0 \/ r.data > 0
  BY DEF Reply
<1>3. r.chunked \in BOOLEAN
  BY DEF Reply
<1>4. QED
  BY <1>1, <1>2, <1>3 DEF DataToBuffersMessage, DataToBuffersEmpty, NoData

\* So does a stock reply.
LEMMA StockReplyType ==
    ASSUME NEW s \in Statuses
    PROVE  StockReply(s) \in Reply
<1>1. SetContent(NewReply, PageLength) \in Reply
  BY NewReplyType, SetContentType DEF PageLength
<1>2. QED
  BY <1>1, SetStatusType DEF StockReply

\* And so does the handler of a request, whatever the controllers do.
LEMMA HandleRequestType ==
    ASSUME NEW req, NEW r \in Reply, NEW outcome \in Outcomes
    PROVE  HandleRequest(req, r, outcome) \in Reply
<1> DEFINE initial == Assign(r, StockReply("not_found"))
           worked == Effect(initial, outcome)
<1>1. outcome \in ControllerOutcome
  BY OutcomesAssumption
<1>2. initial \in Reply
  BY AssignType, StockReplyType DEF Statuses
<1>3. worked \in Reply
  <2> HIDE DEF initial
  <2>1. outcome.effect \in {"none", "content", "stock", "stream", "pipe"}
        /\ outcome.blocks \in Nat
    BY <1>1 DEF ControllerOutcome
  <2>2. SetContent(initial, outcome.blocks) \in Reply
    BY <1>2, <2>1, SetContentType
  <2>3. Assign(initial, StockReply("not_found")) \in Reply
    BY <1>2, AssignType, StockReplyType DEF Statuses
  <2>4. SetStream(initial, outcome.blocks, TRUE) \in Reply
        /\ SetStream(initial, outcome.blocks, FALSE) \in Reply
    BY <1>2, <2>1, SetStreamType
  <2>5. QED
    BY <1>2, <2>1, <2>2, <2>3, <2>4 DEF Effect
<1>4. ASSUME NEW x \in Reply, NEW s \in Statuses
      PROVE  CreateErrorReply(x, s) \in Reply
  <2>1. SetContent(x, PageLength) \in Reply
    BY SetContentType DEF PageLength
  <2>2. SetStatus(SetContent(x, PageLength), s) \in Reply
    BY <2>1, SetStatusType
  <2>3. Assign(x, StockReply(s)) \in Reply
    BY AssignType, StockReplyType
  <2>4. QED
    BY <2>2, <2>3 DEF CreateErrorReply
<1>5. SetContent(worked, 0) \in Reply
  BY <1>3, SetContentType
<1>6. HandleRequest(req, r, outcome)
        \in {CreateErrorReply(initial, "bad_request"),
             CreateErrorReply(worked, "internal_server_error"),
             SetContent(worked, 0), worked}
  BY DEF HandleRequest
<1>7. QED
  BY <1>2, <1>3, <1>4, <1>5, <1>6 DEF Statuses

\* reset() leaves a parser that is safe whatever it was before.
LEMMA ResetSafe ==
    ASSUME NEW p \in Parser
    PROVE  Reset(p) \in Parser /\ ParserSafe(Reset(p))
           /\ MovedFrom(p) \in Parser /\ GetRequest(p) \in Request
<1>0. <<>> \in Text /\ <<>> \in Seq(Header) /\ 0 \in 0 .. UINT_MAX
  BY UINT_MAXAssumption DEF Text
<1>1. Reset(p) \in Parser
  BY <1>0 DEF Reset, Parser, StateParsers
<1>2. ParserSafe(Reset(p))
  BY DEF Reset, Parser, ParserSafe, StateInSwitch, BackDefined, ChunkCounts
<1>3. MovedFrom(p) \in Parser
  BY <1>0 DEF MovedFrom, Parser
<1>4. GetRequest(p) \in Request
  BY DEF GetRequest, Request, Parser
<1>5. QED
  BY <1>1, <1>2, <1>3, <1>4

\* The first state is safe.
LEMMA InitSafety == Init => SafetyInv
<1> SUFFICES ASSUME Init PROVE SafetyInv
  OBVIOUS
<1>0. <<>> \in Text /\ <<>> \in Seq(Header) /\ 0 \in 0 .. UINT_MAX
  BY UINT_MAXAssumption DEF Text
<1>1. NewParser \in Parser
  BY <1>0 DEF NewParser, Parser, StateParsers
<1>2. ParserSafe(NewParser)
  BY DEF NewParser, ParserSafe, StateInSwitch, BackDefined, ChunkCounts
<1>3. NewReply \in Reply
  BY NewReplyType
<1>4. /\ inbound \in Text /\ buffer \in Text
      /\ sent \in Seq(Messages) /\ served \in Seq(Request) /\ wire \in Seq(Message)
  BY DEF Init, Text
<1>5. QED
  BY <1>1, <1>2, <1>3, <1>4 DEF Init, SafetyInv, TypeOK, Positions

\* Every step keeps the connection safe: one case for each handler.
LEMMA NextSafety == SafetyInv /\ [Next]_vars => SafetyInv'
<1> SUFFICES ASSUME SafetyInv, [Next]_vars PROVE SafetyInv'
  OBVIOUS
<1> USE DEF SafetyInv
<1>1. CASE ClientSend
  <2>1. PICK m \in Messages : sent' = Append(sent, m) /\ inbound' = inbound \o m.text
    BY <1>1 DEF ClientSend
  <2>2. m.text \in Text
    BY MessagesAssumption DEF ClientMessage
  <2>3. inbound' \in Text
    BY <2>1, <2>2 DEF TypeOK, Text
  <2>4. sent' \in Seq(Messages)
    BY <2>1 DEF TypeOK
  <2>5. QED
    BY <1>1, <2>3, <2>4 DEF ClientSend, TypeOK
<1>2. CASE ClientClose
  BY <1>2 DEF ClientClose, TypeOK
<1>3. CASE ReadSome
  <2>1. PICK n \in 1 .. Min({Len(inbound), BufferSize}) :
            /\ buffer' = buffer \o SubSeq(inbound, 1, n)
            /\ inbound' = SubSeq(inbound, n + 1, Len(inbound))
    BY <1>3 DEF ReadSome
  <2>2. Min({Len(inbound), BufferSize}) \in Int /\ Min({Len(inbound), BufferSize}) <= Len(inbound)
    <3>1. Len(inbound) \in Nat /\ BufferSize \in Nat
      BY BufferSizeAssumption DEF TypeOK, Text
    <3>2. \E x \in {Len(inbound), BufferSize} :
                \A y \in {Len(inbound), BufferSize} : x <= y
      BY <3>1
    <3>3. QED
      BY <3>1, <3>2 DEF Min
  <2>3. inbound' \in Text /\ buffer' \in Text
    BY <2>1, <2>2 DEF TypeOK, Text
  <2>4. QED
    BY <1>3, <2>3 DEF ReadSome, TypeOK, Positions
<1>4. CASE ReadError
  BY <1>4 DEF ReadError, clientVars, TypeOK, Positions
<1>5. CASE ParseSymbol
  <2> DEFINE outcome == Parse(parser, Head(buffer))
  <2>1. Head(buffer) \in Symbols /\ Tail(buffer) \in Text
    BY <1>5 DEF ParseSymbol, TypeOK, Text
  <2>2. SafeOutcome(outcome)
    BY <2>1, ParseSafe DEF TypeOK
  <2>3. /\ parser' = outcome.parser
        /\ pc' = CASE outcome.result = "true"          -> "request"
                   [] outcome.result = "false"         -> "bad"
                   [] outcome.result = "indeterminate" -> "parsing"
        /\ buffer' = Tail(buffer)
        /\ UNCHANGED <<inbound, eof, sent, keep_alive, reply, served, wire>>
    BY <1>5 DEF ParseSymbol, clientVars
  <2> HIDE DEF outcome
  <2>4. outcome.parser \in Parser /\ ParserSafe(outcome.parser)
        /\ outcome.result \in {"indeterminate", "true", "false"}
    BY <2>2 DEF SafeOutcome, Outcome
  <2>5. pc' \in Positions
    BY <2>3, <2>4 DEF Positions
  <2>6. QED
    BY <2>1, <2>3, <2>4, <2>5 DEF TypeOK
<1>6. CASE ReadOn
  BY <1>6 DEF ReadOn, clientVars, TypeOK, Positions
<1>7. CASE Serve
  <2> DEFINE req == GetRequest(parser)
             handled(o) == HandleRequest(req, reply, o)
             versioned(o) == SetVersion(handled(o), req.minor)
             result(o) == IF KeepAlive(req) THEN SetKeepAlive(versioned(o)) ELSE versioned(o)
  <2>1. PICK o \in Outcomes :
            /\ reply' = result(o)
            /\ wire' = Append(wire, ToBuffers(result(o)))
            /\ keep_alive' = (keep_alive \/ KeepAlive(req))
            /\ served' = Append(served, req)
    BY <1>7 DEF Serve
  <2>2. req \in Request /\ req.minor \in {0, 1}
    BY ResetSafe DEF TypeOK, Request
  <2> HIDE DEF req
  <2>3. handled(o) \in Reply
    BY HandleRequestType DEF TypeOK
  <2> HIDE DEF handled
  <2>4. versioned(o) \in Reply
    BY <2>2, <2>3, SetVersionType
  <2> HIDE DEF versioned
  <2>5. result(o) \in Reply
    BY <2>4, SetKeepAliveType
  <2> HIDE DEF result
  <2>6. ToBuffers(result(o)) \in Message
    BY <2>5, ToBuffersType
  <2>7. keep_alive' \in BOOLEAN
    BY <2>1 DEF TypeOK, KeepAlive
  <2>8. parser' \in Parser /\ ParserSafe(parser')
    BY <1>7, ResetSafe DEF Serve, TypeOK
  <2>9. QED
    BY <1>7, <2>1, <2>2, <2>5, <2>6, <2>7, <2>8 DEF Serve, clientVars, TypeOK, Positions
<1>8. CASE Refuse
  <2>1. reply' \in Reply
    BY <1>8, AssignType, StockReplyType DEF Refuse, TypeOK, Statuses
  <2>2. ToBuffers(reply') \in Message
    BY <2>1, ToBuffersType
  <2>3. QED
    BY <1>8, <2>1, <2>2 DEF Refuse, clientVars, TypeOK, Positions
<1>9. CASE WriteMore
  <2>1. reply' \in Reply
    BY <1>9, DataToBuffersReplyType DEF WriteMore, TypeOK
  <2>2. wire' \in Seq(Message)
    <3>1. wire \in Seq(Message) /\ Len(wire) \in 1 .. Len(wire)
      BY <1>9 DEF WriteMore, TypeOK
    <3>2. DataToBuffersMessage(reply, wire[Len(wire)]) \in Message
      BY <3>1, DataToBuffersMessageType DEF TypeOK
    <3>3. QED
      BY <1>9, <3>1, <3>2, ExceptSeq DEF WriteMore
  <2>4. wire' # <<>>
    BY <1>9 DEF WriteMore, TypeOK
  <2>5. QED
    BY <1>9, <2>1, <2>2, <2>4 DEF WriteMore, clientVars, TypeOK
<1>10. CASE NextRequest
  <2>1. reply' \in Reply
    BY <1>10, DataToBuffersReplyType, AssignType, NewReplyType DEF NextRequest, ResetReply, TypeOK
  <2>2. parser' \in Parser /\ ParserSafe(parser')
    BY <1>10, ResetSafe DEF NextRequest, TypeOK
  <2>3. QED
    BY <1>10, <2>1, <2>2 DEF NextRequest, clientVars, TypeOK, Positions
<1>11. CASE Close
  <2>1. reply' \in Reply
    BY <1>11, DataToBuffersReplyType DEF Close, TypeOK
  <2>2. QED
    BY <1>11, <2>1 DEF Close, clientVars, TypeOK, Positions
<1>12. CASE WriteError
  BY <1>12 DEF WriteError, clientVars, TypeOK, Positions
<1>13. CASE UNCHANGED vars
  BY <1>13 DEF vars, TypeOK
<1>14. QED
  BY <1>1, <1>2, <1>3, <1>4, <1>5, <1>6, <1>7, <1>8, <1>9, <1>10, <1>11, <1>12, <1>13
     DEF Next, HandleRead, HandleWrite, Finished

\* Every variable of a connection keeps its type, for every client and program.
THEOREM TypeCorrect == Spec => []TypeOK
<1>1. SafetyInv => TypeOK
  BY DEF SafetyInv
<1>2. QED
  BY <1>1, InitSafety, NextSafety, PTL DEF Spec

\* request_parser::parse never meets a state its switch has no case for, never
\* calls back() on an empty vector and never counts a chunk past its end, for
\* every input and however it is cut into reads.
THEOREM ParserSafety == Spec => []ParserIsSafe
<1>1. SafetyInv => ParserIsSafe
  BY DEF SafetyInv, ParserIsSafe
<1>2. QED
  BY <1>1, InitSafety, NextSafety, PTL DEF Spec

-----------------------------------------------------------------------------
(* Framing *)

\* The program's side of the bargain: a controller that has already given the
\* reply a stream only throws when errors are rendered with a template.
StreamsKept ==
    \A o \in Outcomes : o.throws /\ o.effect \in {"stream", "pipe"} => HasTemplateProcessor

\* The headers of a reply agree with where its content is.
Consistent(r) ==
    /\ r.data = NoData => ~r.te /\ r.length = r.content
    /\ r.data # NoData => r.te /\ r.chunked /\ r.length = NoLength /\ r.content = 0

\* The same once the version of the client is known.
Announced(r) ==
    /\ r.te => /\ r.minor = 1 /\ r.length = NoLength /\ r.content = 0
               /\ r.chunked /\ r.data # NoData
    /\ ~r.te => /\ r.length = r.content + (IF r.data = NoData THEN 0 ELSE r.data)
                /\ r.data # NoData => ~r.chunked

\* A stock reply says how long it is and has no stream.
LEMMA StockReplyShape ==
    ASSUME NEW s \in Statuses
    PROVE  /\ StockReply(s).data = NoData /\ ~StockReply(s).te
           /\ StockReply(s).length = StockReply(s).content
BY DEF StockReply, SetStatus, SetContent, NewReply, PageLength

\* Assigning a stock reply replaces headers and content, not the stream.
LEMMA AssignStock ==
    ASSUME NEW r \in Reply, NEW s \in Statuses
    PROVE  /\ Assign(r, StockReply(s)).data = r.data
           /\ ~Assign(r, StockReply(s)).te
           /\ Assign(r, StockReply(s)).length = Assign(r, StockReply(s)).content
<1> DEFINE q == StockReply(s)
<1>1. q \in Reply
  BY StockReplyType
<1>2. ~q.te /\ q.length = q.content
  BY StockReplyShape
<1> HIDE DEF q
<1>3. /\ Assign(r, q).data = r.data /\ ~Assign(r, q).te
      /\ Assign(r, q).length = Assign(r, q).content
  BY <1>1, <1>2 DEF Assign, Reply
<1>4. QED
  BY <1>3 DEF q

\* set_content makes the headers agree with what is sent.
LEMMA SetContentConsistent ==
    ASSUME NEW r \in Reply, NEW n \in Nat
    PROVE  Consistent(SetContent(r, n))
BY DEF Consistent, SetContent, Reply, NoData

\* They agree when the request is handled, if a stream is not lost in an exception.
LEMMA HandleRequestConsistent ==
    ASSUME StreamsKept, NEW req, NEW r \in Reply, r.data = NoData, NEW outcome \in Outcomes
    PROVE  Consistent(HandleRequest(req, r, outcome))
<1> DEFINE initial == Assign(r, StockReply("not_found"))
           worked == Effect(initial, outcome)
<1>1. outcome.effect \in {"none", "content", "stock", "stream", "pipe"}
      /\ outcome.blocks \in Nat
  BY OutcomesAssumption DEF ControllerOutcome
<1>2. initial \in Reply
  BY AssignType, StockReplyType DEF Statuses
<1>3. initial.data = NoData /\ Consistent(initial)
  BY AssignStock DEF Statuses, Consistent
<1>4. HandleRequest(req, r, outcome)
        \in {CreateErrorReply(initial, "bad_request"), SetContent(worked, 0), worked}
      \/ /\ outcome.throws
         /\ HandleRequest(req, r, outcome) = CreateErrorReply(worked, "internal_server_error")
  BY DEF HandleRequest
<1> HIDE DEF initial
<1>5. /\ worked \in Reply
      /\ Consistent(worked)
      /\ worked.data # NoData => outcome.effect \in {"stream", "pipe"}
  <2>1. CASE outcome.effect = "none"
    BY <1>2, <1>3, <2>1 DEF Effect
  <2>2. CASE outcome.effect = "content"
    <3>1. worked = SetContent(initial, outcome.blocks)
      BY <2>2 DEF Effect
    <3>2. SetContent(initial, outcome.blocks).data = NoData
      BY <1>2 DEF SetContent, Reply
    <3>3. QED
      BY <3>1, <3>2, <1>1, <1>2, SetContentType, SetContentConsistent
  <2>3. CASE outcome.effect = "stock"
    <3>1. worked = Assign(initial, StockReply("not_found"))
      BY <2>3 DEF Effect
    <3>2. worked.data = NoData /\ Consistent(worked)
      BY <3>1, <1>2, <1>3, AssignStock DEF Statuses, Consistent
    <3>3. QED
      BY <3>1, <3>2, <1>2, AssignType, StockReplyType DEF Statuses
  <2>4. CASE outcome.effect \in {"stream", "pipe"}
    <3>1. PICK b \in BOOLEAN : worked = SetStream(initial, outcome.blocks, b)
      BY <2>4 DEF Effect
    <3>2. Consistent(SetStream(initial, outcome.blocks, b))
      BY <1>1, <1>2 DEF SetStream, Reply, Consistent, NoData
    <3>3. QED
      BY <3>1, <3>2, <2>4, <1>1, <1>2, SetStreamType
  <2>5. QED
    BY <1>1, <2>1, <2>2, <2>3, <2>4
<1> HIDE DEF worked
<1>6. ASSUME NEW x \in Reply, NEW s \in Statuses, x.data = NoData \/ HasTemplateProcessor
      PROVE  Consistent(CreateErrorReply(x, s))
  <2>1. CASE HasTemplateProcessor
    <3> DEFINE y == SetContent(x, PageLength)
    <3>1. y \in Reply /\ Consistent(y)
      BY SetContentType, SetContentConsistent DEF PageLength
    <3> HIDE DEF y
    <3>2. Consistent(SetStatus(y, s))
      BY <3>1 DEF Consistent, SetStatus, Reply
    <3>3. QED
      BY <2>1, <3>2 DEF CreateErrorReply, y
  <2>2. CASE ~HasTemplateProcessor
    BY <1>6, <2>2, AssignStock DEF CreateErrorReply, Consistent
  <2>3. QED
    BY <2>1, <2>2
<1>7. Consistent(CreateErrorReply(initial, "bad_request"))
  BY <1>2, <1>3, <1>6 DEF Statuses
<1>8. Consistent(SetContent(worked, 0))
  BY <1>5, SetContentConsistent
<1>9. outcome.throws => Consistent(CreateErrorReply(worked, "internal_server_error"))
  BY <1>5, <1>6 DEF Statuses, StreamsKept
<1>10. QED
  BY <1>4, <1>5, <1>7, <1>8, <1>9

\* set_version announces how the rest is framed, in either version.
LEMMA SetVersionAnnounced ==
    ASSUME NEW r \in Reply, Consistent(r), NEW v \in {0, 1}
    PROVE  Announced(SetVersion(r, v))
<1>1. CASE v = 0 /\ r.data # NoData
  <2>1. r.data \in Nat /\ r.content = 0 /\ r.seekable \in BOOLEAN
    BY <1>1 DEF Reply, Consistent
  <2>2. CASE r.seekable
    <3>1. SetVersion(r, v) = [r EXCEPT !.minor = v, !.chunked = FALSE, !.te = FALSE,
                                       !.length = r.data, !.content = r.content,
                                       !.data = r.data]
      BY <1>1, <2>2 DEF SetVersion
    <3> DEFINE q == SetVersion(r, v)
    <3>2. q.te = FALSE /\ q.chunked = FALSE /\ q.length = r.data /\ q.content = 0
          /\ q.data = r.data
      BY <2>1, <3>1 DEF Reply
    <3> HIDE DEF q
    <3>3. Announced(q)
      BY <1>1, <2>1, <3>2 DEF Announced
    <3>4. QED
      BY <3>3 DEF q
  <2>3. CASE ~r.seekable
    <3>1. SetVersion(r, v) = [r EXCEPT !.minor = v, !.chunked = FALSE, !.te = FALSE,
                                       !.length = r.data, !.content = r.content + r.data,
                                       !.data = NoData]
      BY <1>1, <2>3 DEF SetVersion
    <3> DEFINE q == SetVersion(r, v)
    <3>2. q.te = FALSE /\ q.length = r.data /\ q.content = r.data /\ q.data = NoData
      BY <2>1, <3>1 DEF Reply
    <3> HIDE DEF q
    <3>3. Announced(q)
      BY <2>1, <3>2 DEF Announced
    <3>4. QED
      BY <3>3 DEF q
  <2>4. QED
    BY <2>1, <2>2, <2>3
<1>2. CASE ~(v = 0 /\ r.data # NoData)
  <2>1. SetVersion(r, v) = [r EXCEPT !.minor = v]
    BY <1>2 DEF SetVersion
  <2>2. CASE r.data = NoData
    BY <2>1, <2>2 DEF Announced, Consistent, Reply
  <2>3. CASE r.data # NoData
    <3>1. v = 1
      BY <1>2, <2>3
    <3>2. QED
      BY <2>1, <2>3, <3>1 DEF Announced, Consistent, Reply
  <2>4. QED
    BY <2>2, <2>3
<1>3. QED
  BY <1>1, <1>2

\* What to_buffers writes is accounted for by what was announced.
LEMMA ToBuffersAccounted ==
    ASSUME NEW r \in Reply, Announced(r)
    PROVE  Accounted(r, ToBuffers(r))
<1> DEFINE m == ToBuffers(r)
<1>1. /\ m.te = r.te /\ m.minor = r.minor /\ m.length = r.length /\ m.content = r.content
      /\ m.chunks = 0 /\ m.raw = 0 /\ m.last = FALSE
  BY DEF ToBuffers
<1>2. r.te \in BOOLEAN /\ r.content \in Nat /\ r.data \in Nat \cup {NoData}
  BY DEF Reply
<1> HIDE DEF m
<1>3. Accounted(r, m)
  BY <1>1, <1>2 DEF Announced, Accounted
<1>4. QED
  BY <1>3 DEF m

\* Writing a further block keeps the account.
LEMMA DataToBuffersAccounted ==
    ASSUME NEW r \in Reply, NEW m \in Message, Accounted(r, m), ~DataToBuffersEmpty(r)
    PROVE  Accounted(DataToBuffersReply(r), DataToBuffersMessage(r, m))
<1>1. r.data \in Nat /\ r.data # NoData /\ r.chunked \in BOOLEAN /\ m.te \in BOOLEAN
      /\ m.raw \in Nat /\ m.content \in Nat /\ m.chunks \in Nat /\ m.last \in BOOLEAN
  BY DEF Reply, Message, DataToBuffersEmpty, NoData
<1>2. r.chunked <=> m.te
  BY <1>1 DEF Accounted
<1>3. CASE r.data = 0
  <2>1. r.chunked
    BY <1>3 DEF DataToBuffersEmpty
  <2>2. DataToBuffersReply(r) = [r EXCEPT !.data = NoData]
    BY <1>1, <1>3 DEF DataToBuffersReply
  <2>3. DataToBuffersMessage(r, m) = [m EXCEPT !.last = TRUE]
    BY <1>1, <1>3, <2>1 DEF DataToBuffersMessage
  <2>4. QED
    BY <1>1, <1>2, <2>1, <2>2, <2>3 DEF Accounted, Reply, Message
<1>4. CASE r.data > 0
  <2>1. DataToBuffersReply(r) = [r EXCEPT !.data = r.data - 1]
    BY <1>1, <1>4 DEF DataToBuffersReply
  <2>2. r.data - 1 \in Nat /\ r.data - 1 # NoData
    BY <1>1, <1>4 DEF NoData
  <2>3. CASE r.chunked
    <3>1. DataToBuffersMessage(r, m) = [m EXCEPT !.chunks = m.chunks + 1]
      BY <1>1, <1>4, <2>3 DEF DataToBuffersMessage
    <3>2. QED
      BY <1>1, <1>2, <2>1, <2>2, <2>3, <3>1 DEF Accounted, Reply, Message
  <2>4. CASE ~r.chunked
    <3>1. DataToBuffersMessage(r, m) = [m EXCEPT !.raw = m.raw + 1]
      BY <1>1, <1>4, <2>4 DEF DataToBuffersMessage
    <3>2. m.length = m.content + (m.raw + 1) + (r.data - 1)
      BY <1>1, <1>2, <2>4 DEF Accounted
    <3>3. QED
      BY <1>1, <1>2, <2>1, <2>2, <2>4, <3>1, <3>2 DEF Accounted, Reply, Message
  <2>5. QED
    BY <1>1, <2>3, <2>4
<1>5. QED
  BY <1>1, <1>3, <1>4

\* When data_to_buffers has nothing more the message is complete and well framed.
LEMMA FinishedFramed ==
    ASSUME NEW r \in Reply, NEW m \in Message, Accounted(r, m), DataToBuffersEmpty(r)
    PROVE  WellFramed(m) /\ DataToBuffersReply(r).data = NoData
<1>1. r.data \in Nat \cup {NoData} /\ m.te \in BOOLEAN /\ m.content \in Nat /\ m.raw \in Nat
  BY DEF Reply, Message
<1>2. CASE r.data = NoData
  BY <1>1, <1>2 DEF Accounted, WellFramed, ChunkFramed, LengthFramed, DataToBuffersReply
<1>3. CASE r.data # NoData
  <2>1. r.data = 0 /\ ~r.chunked
    BY <1>3 DEF DataToBuffersEmpty
  <2>2. ~m.te
    BY <2>1 DEF Accounted
  <2>3. m.length = m.content + m.raw /\ m.chunks = 0 /\ ~m.last
    BY <1>1, <1>3, <2>1, <2>2 DEF Accounted
  <2>4. WellFramed(m)
    BY <2>2, <2>3 DEF WellFramed, LengthFramed
  <2>5. DataToBuffersReply(r).data = NoData
    BY <1>3, <2>1 DEF DataToBuffersReply, Reply
  <2>6. QED
    BY <2>4, <2>5
<1>4. QED
  BY <1>2, <1>3

FramingInv == SafetyInv /\ NoStaleStream /\ BodyAccounted /\ FramedReplies

\* Nothing has been written at first.
LEMMA InitFraming == Init => FramingInv
<1> SUFFICES ASSUME Init PROVE FramingInv
  OBVIOUS
<1>1. NoStaleStream /\ BodyAccounted
  BY DEF Init, NewReply, NoStaleStream, BodyAccounted
<1>2. FramedReplies
  BY DEF Init, FramedReplies
<1>3. QED
  BY <1>1, <1>2, InitSafety DEF FramingInv

\* Every step keeps the framing, if streams are not lost.
LEMMA NextFraming ==
    ASSUME StreamsKept
    PROVE  FramingInv /\ [Next]_vars => FramingInv'
<1> SUFFICES ASSUME FramingInv, [Next]_vars PROVE FramingInv'
  OBVIOUS
<1>0. SafetyInv'
  BY NextSafety DEF FramingInv
<1> SUFFICES NoStaleStream' /\ BodyAccounted' /\ FramedReplies'
  BY <1>0 DEF FramingInv
<1>a. /\ reply \in Reply /\ wire \in Seq(Message) /\ parser \in Parser
      /\ NoStaleStream /\ BodyAccounted /\ FramedReplies
  BY DEF FramingInv, SafetyInv, TypeOK
<1>b. ASSUME UNCHANGED <<reply, wire>>, pc # "writing" \/ pc' = pc, pc' # "writing" \/ pc' = pc,
             pc \notin {"dropped", "closed"} \/ pc' = pc
      PROVE  NoStaleStream' /\ BodyAccounted' /\ FramedReplies'
  <2>1. BodyAccounted'
    BY <1>a, <1>b DEF BodyAccounted
  <2>2. FramedReplies'
    BY <1>a, <1>b DEF FramedReplies, InProgress
  <2>3. NoStaleStream'
    <3>1. CASE pc' = pc
      BY <1>a, <1>b, <3>1 DEF NoStaleStream
    <3>2. CASE pc' # pc
      <4>1. pc \in {"reading", "parsing", "request", "bad"}
        BY <1>b, <3>2 DEF FramingInv, SafetyInv, TypeOK, Positions
      <4>2. QED
        BY <1>a, <1>b, <4>1 DEF NoStaleStream
    <3>3. QED
      BY <3>1, <3>2
  <2>4. QED
    BY <2>1, <2>2, <2>3
<1>1. CASE ClientSend \/ ClientClose
  BY <1>1, <1>b DEF ClientSend, ClientClose
<1>2. CASE ReadSome \/ ReadError \/ ReadOn
  BY <1>2, <1>b DEF ReadSome, ReadError, ReadOn, clientVars
<1>3. CASE ParseSymbol
  <2>1. Head(buffer) \in Symbols
    BY <1>3 DEF ParseSymbol, FramingInv, SafetyInv, TypeOK, Text
  <2>2. Parse(parser, Head(buffer)).result \in {"indeterminate", "true", "false"}
    BY <2>1, ParseSafe DEF FramingInv, SafetyInv, TypeOK, SafeOutcome, Outcome
  <2>3. pc = "parsing" /\ pc' \in {"parsing", "request", "bad"} /\ UNCHANGED <<reply, wire>>
    BY <1>3, <2>2 DEF ParseSymbol
  <2>4. QED
    BY <1>b, <2>3
<1>4. ASSUME pc \in {"request", "bad"}, pc' = "writing",
             reply' \in Reply, Announced(reply'), wire' = Append(wire, ToBuffers(reply'))
      PROVE  NoStaleStream' /\ BodyAccounted' /\ FramedReplies'
  <2>1. /\ Len(wire') = Len(wire) + 1 /\ wire'[Len(wire')] = ToBuffers(reply')
        /\ \A i \in DOMAIN wire : wire'[i] = wire[i]
        /\ DOMAIN wire' = 1 .. Len(wire) + 1
    BY <1>4, <1>a
  <2>2. Accounted(reply', ToBuffers(reply'))
    BY <1>4, ToBuffersAccounted
  <2>3. BodyAccounted'
    BY <1>4, <1>a, <2>1, <2>2 DEF BodyAccounted
  <2>4. \A i \in DOMAIN wire : WellFramed(wire[i])
    BY <1>4, <1>a DEF FramedReplies, InProgress
  <2>5. FramedReplies'
    BY <1>4, <1>a, <2>1, <2>4 DEF FramedReplies, InProgress
  <2>6. NoStaleStream'
    BY <1>4 DEF NoStaleStream
  <2>7. QED
    BY <2>3, <2>5, <2>6
<1>5. CASE Serve
  <2> DEFINE req == GetRequest(parser)
             handled(o) == HandleRequest(req, reply, o)
             versioned(o) == SetVersion(handled(o), req.minor)
             result(o) == IF KeepAlive(req) THEN SetKeepAlive(versioned(o)) ELSE versioned(o)
  <2>1. PICK o \in Outcomes :
            reply' = result(o) /\ wire' = Append(wire, ToBuffers(result(o)))
    BY <1>5 DEF Serve
  <2>2. req.minor \in {0, 1}
    BY <1>a DEF GetRequest, Parser
  <2>3. reply.data = NoData
    BY <1>5, <1>a DEF Serve, NoStaleStream
  <2> HIDE DEF req
  <2>4. handled(o) \in Reply /\ Consistent(handled(o))
    BY <1>a, <2>3, HandleRequestType, HandleRequestConsistent
  <2> HIDE DEF handled
  <2>5. versioned(o) \in Reply /\ Announced(versioned(o))
    BY <2>2, <2>4, SetVersionType, SetVersionAnnounced
  <2> HIDE DEF versioned
  <2>6. SetKeepAlive(versioned(o)) \in Reply /\ Announced(SetKeepAlive(versioned(o)))
    BY <2>5, SetKeepAliveType DEF SetKeepAlive, Announced, Reply
  <2>7. result(o) \in Reply /\ Announced(result(o))
    BY <2>5, <2>6
  <2> HIDE DEF result
  <2>8. QED
    BY <1>4, <1>5, <2>1, <2>7 DEF Serve
<1>6. CASE Refuse
  <2>1. reply.data = NoData
    BY <1>6, <1>a DEF Refuse, NoStaleStream
  <2>2. reply' \in Reply
    BY <1>6, <1>a, AssignType, StockReplyType DEF Refuse, Statuses
  <2>3. reply'.data = NoData /\ ~reply'.te /\ reply'.length = reply'.content
    BY <1>6, <1>a, <2>1, AssignStock DEF Refuse, Statuses
  <2>4. Announced(reply')
    BY <2>2, <2>3 DEF Announced, Reply
  <2>5. QED
    BY <1>4, <1>6, <2>2, <2>4 DEF Refuse
<1>7. CASE WriteMore
  <2> DEFINE n == Len(wire)
  <2>1. n \in 1 .. Len(wire) /\ wire[n] \in Message /\ Accounted(reply, wire[n])
    BY <1>7, <1>a DEF WriteMore, BodyAccounted
  <2>2. wire' = [wire EXCEPT ![n] = DataToBuffersMessage(reply, wire[n])]
    BY <1>7 DEF WriteMore
  <2>3. DataToBuffersMessage(reply, wire[n]) \in Message
    BY <1>a, <2>1, DataToBuffersMessageType
  <2>4. /\ Len(wire') = n /\ DOMAIN wire' = DOMAIN wire
        /\ wire'[n] = DataToBuffersMessage(reply, wire[n])
        /\ \A i \in DOMAIN wire : i # n => wire'[i] = wire[i]
    BY <1>a, <2>1, <2>2, <2>3
  <2>5. Accounted(reply', wire'[n])
    BY <1>7, <1>a, <2>1, <2>4, DataToBuffersAccounted DEF WriteMore
  <2>6. BodyAccounted'
    BY <1>a, <2>1, <2>4, <2>5 DEF BodyAccounted
  <2>7. FramedReplies'
    BY <1>7, <1>a, <2>4 DEF WriteMore, FramedReplies, InProgress
  <2>8. NoStaleStream'
    BY <1>7 DEF WriteMore, NoStaleStream
  <2>9. QED
    BY <2>6, <2>7, <2>8
<1>8. CASE NextRequest \/ Close
  <2>1. /\ pc = "writing" /\ pc' \in {"parsing", "reading", "closed"}
        /\ DataToBuffersEmpty(reply) /\ wire' = wire
    BY <1>8 DEF NextRequest, Close
  <2>2. wire[Len(wire)] \in Message /\ Accounted(reply, wire[Len(wire)])
    BY <1>a, <2>1 DEF BodyAccounted
  <2>3. WellFramed(wire[Len(wire)]) /\ DataToBuffersReply(reply).data = NoData
    BY <1>a, <2>1, <2>2, FinishedFramed
  <2>4. FramedReplies'
    BY <1>a, <2>1, <2>3 DEF FramedReplies, InProgress
  <2>5. BodyAccounted'
    BY <2>1 DEF BodyAccounted
  <2>6. reply'.data = NoData
    <3>1. CASE Close
      BY <3>1, <2>3 DEF Close
    <3>2. CASE NextRequest
      <4>1. Assign(DataToBuffersReply(reply), NewReply).data = DataToBuffersReply(reply).data
        BY NewReplyType DEF Assign, Reply
      <4>2. QED
        BY <3>2, <4>1, <2>3 DEF NextRequest, ResetReply
    <3>3. QED
      BY <1>8, <3>1, <3>2
  <2>7. NoStaleStream'
    BY <2>6 DEF NoStaleStream
  <2>8. QED
    BY <2>4, <2>5, <2>7
<1>9. CASE WriteError
  <2>1. pc = "writing" /\ pc' = "dropped" /\ UNCHANGED <<reply, wire>>
    BY <1>9 DEF WriteError
  <2>2. QED
    BY <1>a, <2>1 DEF NoStaleStream, BodyAccounted, FramedReplies, InProgress
<1>10. CASE UNCHANGED vars
  BY <1>10, <1>b DEF vars
<1>11. QED
  BY <1>1, <1>2, <1>3, <1>5, <1>6, <1>7, <1>8, <1>9, <1>10
     DEF Next, HandleRead, HandleWrite, Finished

\* No stream survives the reply it belonged to: the m_data that operator= and
\* reset() do not touch is always gone when they are called between requests.
THEOREM StreamsFinished ==
    ASSUME StreamsKept
    PROVE  Spec => []NoStaleStream
<1>1. FramingInv => NoStaleStream
  BY DEF FramingInv
<1>2. QED
  BY <1>1, InitFraming, NextFraming, PTL DEF Spec

\* A client can find the end of every finished reply, whatever the controllers
\* supply (in memory, seekable stream or pipe), the version it asked for and the
\* number of requests before it, when StreamsKept holds.
THEOREM RepliesFramed ==
    ASSUME StreamsKept
    PROVE  Spec => []FramedReplies
<1>1. FramingInv => FramedReplies
  BY DEF FramingInv
<1>2. QED
  BY <1>1, InitFraming, NextFraming, PTL DEF Spec

-----------------------------------------------------------------------------
(* Keeping the connection alive *)

\* A reply that handle_request returns announces nothing yet: whatever header
\* the reply of the request before carried was replaced by the first assignment,
\* and no member that a controller can call brings it back.
LEMMA HandleRequestNotAnnounced ==
    ASSUME NEW req, NEW r \in Reply, NEW outcome \in Outcomes
    PROVE  HandleRequest(req, r, outcome).ka = FALSE
<1> DEFINE initial == Assign(r, StockReply("not_found"))
           worked == Effect(initial, outcome)
<1>1. outcome.effect \in {"none", "content", "stock", "stream", "pipe"}
      /\ outcome.blocks \in Nat
  BY OutcomesAssumption DEF ControllerOutcome
<1>2. ASSUME NEW x \in Reply, NEW s \in Statuses
      PROVE  Assign(x, StockReply(s)) \in Reply /\ Assign(x, StockReply(s)).ka = FALSE
  <2> DEFINE q == StockReply(s)
  <2>1. q \in Reply
    BY StockReplyType
  <2>2. q.ka = FALSE
    BY DEF StockReply, SetStatus, SetContent, NewReply
  <2> HIDE DEF q
  <2>3. Assign(x, q).ka = FALSE
    BY <2>1, <2>2 DEF Assign, Reply
  <2>4. QED
    BY <2>1, <2>3, AssignType DEF q
<1>3. ASSUME NEW x \in Reply, NEW n \in Nat
      PROVE  SetContent(x, n) \in Reply /\ SetContent(x, n).ka = x.ka
  <2>1. SetContent(x, n).ka = x.ka
    BY DEF SetContent, Reply
  <2>2. QED
    BY <2>1, SetContentType
<1>4. initial \in Reply /\ initial.ka = FALSE
  BY <1>2 DEF Statuses
<1>5. HandleRequest(req, r, outcome)
        \in {CreateErrorReply(initial, "bad_request"),
             CreateErrorReply(worked, "internal_server_error"),
             SetContent(worked, 0), worked}
  BY DEF HandleRequest
<1> HIDE DEF initial
<1>6. worked \in Reply /\ worked.ka = FALSE
  <2>1. ASSUME NEW b \in BOOLEAN
        PROVE  SetStream(initial, outcome.blocks, b) \in Reply
               /\ SetStream(initial, outcome.blocks, b).ka = FALSE
    <3>1. SetStream(initial, outcome.blocks, b).ka = FALSE
      BY <1>4 DEF SetStream, Reply
    <3>2. QED
      BY <3>1, <1>1, <1>4, SetStreamType
  <2>2. worked \in {initial, SetContent(initial, outcome.blocks),
                    Assign(initial, StockReply("not_found")),
                    SetStream(initial, outcome.blocks, TRUE),
                    SetStream(initial, outcome.blocks, FALSE)}
    BY <1>1 DEF Effect
  <2>3. QED
    BY <1>1, <1>2, <1>3, <1>4, <2>1, <2>2 DEF Statuses
<1> HIDE DEF worked
<1>7. ASSUME NEW x \in Reply, x.ka = FALSE, NEW s \in Statuses
      PROVE  CreateErrorReply(x, s).ka = FALSE
  <2> DEFINE y == SetContent(x, PageLength)
  <2>1. y \in Reply /\ y.ka = FALSE
    BY <1>3, <1>7 DEF PageLength
  <2> HIDE DEF y
  <2>2. SetStatus(y, s).ka = FALSE
    BY <2>1 DEF SetStatus, Reply
  <2>3. QED
    BY <1>2, <2>2 DEF CreateErrorReply, y
<1> HIDE DEF worked
<1>8. CreateErrorReply(initial, "bad_request").ka = FALSE
  BY <1>4, <1>7 DEF Statuses
<1>9. CreateErrorReply(worked, "internal_server_error").ka = FALSE
  BY <1>6, <1>7 DEF Statuses
<1>10. SetContent(worked, 0).ka = FALSE
  BY <1>3, <1>6
<1>11. QED
  BY <1>5, <1>6, <1>8, <1>9, <1>10, Zenon

\* The member m_keep_alive is true whenever the header is on the wire, and the
\* request being answered is the one that asked for it.
Announcing(m) ==
    m.ka => keep_alive /\ served # <<>> /\ KeepAlive(served[Len(served)])

AliveInv ==
    /\ SafetyInv
    /\ pc = "writing" => Announcing(wire[Len(wire)])
    /\ pc = "closed" => ~wire[Len(wire)].ka

\* Every step keeps what was announced about the connection.
LEMMA NextAlive == AliveInv /\ [Next]_vars => AliveInv'
<1> SUFFICES ASSUME AliveInv, [Next]_vars PROVE AliveInv'
  OBVIOUS
<1>0. SafetyInv'
  BY NextSafety DEF AliveInv
<1> DEFINE Alive == /\ pc = "writing" => Announcing(wire[Len(wire)])
                    /\ pc = "closed" => ~wire[Len(wire)].ka
<1> SUFFICES Alive'
  BY <1>0 DEF AliveInv
<1>a. /\ reply \in Reply /\ wire \in Seq(Message) /\ parser \in Parser
      /\ served \in Seq(Request) /\ Alive
      /\ pc = "writing" => wire # <<>>
  BY DEF AliveInv, SafetyInv, TypeOK
<1>1. CASE ClientSend \/ ClientClose
  BY <1>1, <1>a DEF ClientSend, ClientClose, Announcing
<1>2. CASE ReadSome \/ ReadError \/ ReadOn
  BY <1>2 DEF ReadSome, ReadError, ReadOn
<1>3. CASE ParseSymbol
  <2>1. Head(buffer) \in Symbols
    BY <1>3 DEF ParseSymbol, AliveInv, SafetyInv, TypeOK, Text
  <2>2. Parse(parser, Head(buffer)).result \in {"indeterminate", "true", "false"}
    BY <2>1, ParseSafe DEF AliveInv, SafetyInv, TypeOK, SafeOutcome, Outcome
  <2>3. pc' \in {"parsing", "request", "bad"}
    BY <1>3, <2>2 DEF ParseSymbol
  <2>4. QED
    BY <2>3
<1>4. CASE Serve
  <2> DEFINE req == GetRequest(parser)
             handled(o) == HandleRequest(req, reply, o)
             versioned(o) == SetVersion(handled(o), req.minor)
             result(o) == IF KeepAlive(req) THEN SetKeepAlive(versioned(o)) ELSE versioned(o)
  <2>1. PICK o \in Outcomes :
            /\ wire' = Append(wire, ToBuffers(result(o)))
            /\ keep_alive' = (keep_alive \/ KeepAlive(req))
            /\ served' = Append(served, req)
    BY <1>4 DEF Serve
  <2>2. req \in Request /\ req.minor \in {0, 1}
    BY <1>a, ResetSafe DEF GetRequest, Parser
  <2> HIDE DEF req
  <2>3. handled(o) \in Reply /\ handled(o).ka = FALSE
    BY <1>a, HandleRequestType, HandleRequestNotAnnounced
  <2> HIDE DEF handled
  <2>4. versioned(o) \in Reply /\ versioned(o).ka = FALSE
    <3>1. SetVersion(handled(o), req.minor).ka = handled(o).ka
      BY <2>3 DEF SetVersion, Reply
    <3>2. QED
      BY <2>2, <2>3, <3>1, SetVersionType
  <2> HIDE DEF versioned
  <2>5. result(o).ka => KeepAlive(req)
    BY <2>4
  <2>6. ToBuffers(result(o)).ka = result(o).ka
    BY DEF ToBuffers
  <2> HIDE DEF result
  <2>7. /\ wire'[Len(wire')] = ToBuffers(result(o))
        /\ served' # <<>> /\ served'[Len(served')] = req
    <3> DEFINE m == ToBuffers(result(o))
    <3>1. wire' = Append(wire, m)
      BY <2>1
    <3> HIDE DEF m
    <3>2. wire'[Len(wire')] = m
      BY <1>a, <3>1
    <3>3. served' # <<>> /\ served'[Len(served')] = req
      BY <1>a, <2>1
    <3>4. QED
      BY <3>2, <3>3 DEF m
  <2>8. pc' = "writing"
    BY <1>4 DEF Serve
  <2>9. QED
    BY <2>1, <2>5, <2>6, <2>7, <2>8 DEF Announcing
<1>5. CASE Refuse
  <2> DEFINE q == StockReply("bad_request")
  <2>1. q \in Reply /\ q.ka = FALSE
    BY StockReplyType DEF Statuses, StockReply, SetStatus, SetContent, NewReply
  <2>2. reply' = Assign(reply, q) /\ wire' = Append(wire, ToBuffers(reply')) /\ pc' = "writing"
    BY <1>5 DEF Refuse
  <2> HIDE DEF q
  <2>3. reply'.ka = FALSE
    BY <1>a, <2>1, <2>2 DEF Assign, Reply
  <2>4. wire'[Len(wire')].ka = FALSE
    BY <1>a, <2>2, <2>3 DEF ToBuffers
  <2>5. QED
    BY <2>2, <2>4 DEF Announcing
<1>6. CASE WriteMore
  <2> DEFINE n == Len(wire)
             m == DataToBuffersMessage(reply, wire[n])
  <2>1. /\ n \in 1 .. Len(wire) /\ wire[n] \in Message /\ Announcing(wire[n])
        /\ pc = "writing" /\ pc' = pc /\ UNCHANGED <<keep_alive, served>>
    BY <1>6, <1>a DEF WriteMore
  <2>2. m \in Message /\ m.ka = wire[n].ka
    <3>1. m \in {wire[n], [wire[n] EXCEPT !.chunks = @ + 1], [wire[n] EXCEPT !.last = TRUE],
                 [wire[n] EXCEPT !.raw = @ + 1]}
      <4>1. reply.data \in Nat \cup {NoData} /\ reply.chunked \in BOOLEAN
        BY <1>a DEF Reply
      <4>2. QED
        BY <4>1 DEF DataToBuffersMessage, DataToBuffersEmpty, NoData
    <3>2. QED
      BY <1>a, <2>1, <3>1, DataToBuffersMessageType DEF Message
  <2>3. wire' = [wire EXCEPT ![n] = m]
    BY <1>6 DEF WriteMore
  <2> HIDE DEF m
  <2>4. Len(wire') = n /\ wire'[n] = m
    BY <1>a, <2>1, <2>2, <2>3
  <2>5. QED
    BY <2>1, <2>2, <2>4 DEF Announcing
<1>7. CASE NextRequest \/ WriteError
  BY <1>7 DEF NextRequest, WriteError
<1>8. CASE Close
  BY <1>8, <1>a DEF Close, Announcing
<1>9. CASE UNCHANGED vars
  BY <1>9, <1>a DEF vars, Announcing
<1>10. QED
  BY <1>1, <1>2, <1>3, <1>4, <1>5, <1>6, <1>7, <1>8, <1>9
     DEF Next, HandleRead, HandleWrite, Finished

\* The server never closes a connection after a reply that announced Keep-Alive,
\* and announces it only in the reply to a request that asked for it: a header set
\* for one request is never found on the reply to another, nor on the stock reply
\* to a malformed one.
THEOREM AnnouncementsKept == Spec => []KeptAlive
<1>1. Init => AliveInv
  BY InitSafety DEF Init, AliveInv
<1>2. AliveInv => KeptAlive
  BY DEF AliveInv, KeptAlive, Announcing
<1>3. QED
  BY <1>1, <1>2, NextAlive, PTL DEF Spec

-----------------------------------------------------------------------------
(***************************************************************************)
(* Delivered, for every set of messages, every way the bytes are cut into  *)
(* reads and any number of pipelined requests: if the parser understands   *)
(* each well-formed message when it is read alone, then it understands it  *)
(* on a connection, where others come before and after it.                 *)
(*                                                                         *)
(* The argument relates three pieces of state to the stream of all that    *)
(* was sent: what is in buffer and inbound is exactly what was not parsed, *)
(* the parser is where it would be after the first `done' symbols of the   *)
(* message being read had it read that message alone, and the messages     *)
(* before it are the requests in served.                                   *)
(***************************************************************************)

-----------------------------------------------------------------------------
(* Delivered: the invariant *)

\* all holds the symbols sent so far, the i-th message from start[i] + 1 on.
Stream(all, start) ==
    /\ start \in [1 .. Len(sent) + 1 -> Nat]
    /\ start[1] = 0
    /\ \A i \in 1 .. Len(sent) :
        /\ start[i + 1] = start[i] + Len(sent[i].text)
        /\ start[i + 1] <= start[Len(sent) + 1]
        /\ \A k \in 1 .. Len(sent[i].text) : all[start[i] + k] = sent[i].text[k]

\* What was sent after the first `parsed' symbols is in buffer and inbound.
Unparsed(all, parsed, total) ==
    /\ parsed + Len(buffer) + Len(inbound) = total
    /\ \A k \in 1 .. Len(buffer) : buffer[k] = all[parsed + k]
    /\ \A k \in 1 .. Len(inbound) : inbound[k] = all[parsed + Len(buffer) + k]

\* p is the parser after `done' symbols of m, not all of them, read alone.
Midway(p, done, m) ==
    \E run : ReadAlone(run, m) /\ done < Len(m.text) /\ p = run[done]

\* The number of the message that is being read.
current == Len(served) + 1

\* The parser has read `done' symbols of the current message, as if alone.
ParserAt(done) ==
    /\ pc \in {"reading", "parsing"} =>
            \/ done = 0 /\ parser = NewParser
            \/ current <= Len(sent) /\ Midway(parser, done, sent[current])
    /\ pc = "request" =>
            /\ current <= Len(sent)
            /\ done = Len(sent[current].text)
            /\ GetRequest(parser) = sent[current].request
    /\ pc # "bad"
    /\ pc = "writing" => done = 0 /\ parser = NewParser

InStep ==
    /\ Len(served) <= Len(sent)
    /\ \E all, start : \E done \in Nat :
        /\ Stream(all, start)
        /\ Unparsed(all, start[current] + done, start[Len(sent) + 1])
        /\ ParserAt(done)

\* The current message or one before it is not well-formed.
Lost == \E j \in 1 .. Len(sent) : j <= current /\ ~sent[j].wellformed

DeliveryInv ==
    /\ SafetyInv
    /\ Delivered
    /\ Lost \/ InStep

-----------------------------------------------------------------------------
(* The steps that leave what was sent and what was served alone *)

\* A step that keeps the stream and the messages served, and keeps the parser in
\* step with it.
LEMMA StillInStep ==
    ASSUME SafetyInv, NEW all, NEW start, NEW next \in Nat,
           Len(served) <= Len(sent), Stream(all, start),
           UNCHANGED <<sent, served>>,
           Unparsed(all, start[current] + next, start[Len(sent) + 1])',
           ParserAt(next)'
    PROVE  InStep'
<1>1. Stream(all, start)'
  BY DEF Stream
<1>2. current' = current
  BY DEF current
<1>3. QED
  BY <1>1, <1>2 DEF InStep

\* Reading moves symbols from the socket to the buffer and loses none.
LEMMA MoveSome ==
    ASSUME NEW S, NEW b \in Seq(S), NEW i \in Seq(S), NEW n \in 1 .. Len(i)
    PROVE  /\ Len(b \o SubSeq(i, 1, n)) = Len(b) + n
           /\ Len(SubSeq(i, n + 1, Len(i))) = Len(i) - n
           /\ \A k \in 1 .. Len(b) : (b \o SubSeq(i, 1, n))[k] = b[k]
           /\ \A k \in 1 .. n : (b \o SubSeq(i, 1, n))[Len(b) + k] = i[k]
           /\ \A k \in 1 .. Len(i) - n : SubSeq(i, n + 1, Len(i))[k] = i[n + k]
<1>1. SubSeq(i, 1, n) \in Seq(S) /\ Len(SubSeq(i, 1, n)) = n
      /\ \A k \in 1 .. n : SubSeq(i, 1, n)[k] = i[k]
  OBVIOUS
<1>2. Len(SubSeq(i, n + 1, Len(i))) = Len(i) - n
      /\ \A k \in 1 .. Len(i) - n : SubSeq(i, n + 1, Len(i))[k] = i[n + k]
  OBVIOUS
<1>3. QED
  BY <1>1, <1>2, ConcatProperties

\* A read moves bytes from the network to the buffer: what is still to be parsed is the same.
LEMMA ReadKeepsUnparsed ==
    ASSUME TypeOK, NEW all, NEW parsed \in Nat, NEW total \in Nat,
           Unparsed(all, parsed, total), ReadSome
    PROVE  Unparsed(all, parsed, total)'
<1>1. PICK n \in 1 .. Min({Len(inbound), BufferSize}) :
          /\ buffer' = buffer \o SubSeq(inbound, 1, n)
          /\ inbound' = SubSeq(inbound, n + 1, Len(inbound))
  BY DEF ReadSome
<1>2. n \in 1 .. Len(inbound)
  <2>1. Len(inbound) \in Nat /\ BufferSize \in Nat
    BY BufferSizeAssumption DEF TypeOK, Text
  <2>2. \E x \in {Len(inbound), BufferSize} : \A y \in {Len(inbound), BufferSize} : x <= y
    BY <2>1
  <2>3. Min({Len(inbound), BufferSize}) \in Nat
        /\ Min({Len(inbound), BufferSize}) <= Len(inbound)
    BY <2>1, <2>2 DEF Min
  <2>4. QED
    BY <2>1, <2>3
<1>3. buffer \in Seq(Symbols) /\ inbound \in Seq(Symbols)
  BY DEF TypeOK, Text
<1> DEFINE bl == Len(buffer)
           il == Len(inbound)
<1>4. /\ Len(buffer') = bl + n /\ Len(inbound') = il - n
      /\ \A k \in 1 .. bl : buffer'[k] = buffer[k]
      /\ \A k \in 1 .. n : buffer'[bl + k] = inbound[k]
      /\ \A k \in 1 .. il - n : inbound'[k] = inbound[n + k]
  <2>1. /\ Len(buffer \o SubSeq(inbound, 1, n)) = Len(buffer) + n
        /\ Len(SubSeq(inbound, n + 1, Len(inbound))) = Len(inbound) - n
        /\ \A k \in 1 .. Len(buffer) : (buffer \o SubSeq(inbound, 1, n))[k] = buffer[k]
        /\ \A k \in 1 .. n : (buffer \o SubSeq(inbound, 1, n))[Len(buffer) + k] = inbound[k]
        /\ \A k \in 1 .. Len(inbound) - n :
                SubSeq(inbound, n + 1, Len(inbound))[k] = inbound[n + k]
    BY <1>2, <1>3, MoveSome
  <2>2. QED
    BY <1>1, <2>1, Zenon
<1>5. /\ bl \in Nat /\ il \in Nat /\ parsed + bl + il = total
      /\ \A k \in 1 .. bl : buffer[k] = all[parsed + k]
      /\ \A k \in 1 .. il : inbound[k] = all[parsed + bl + k]
  BY <1>3 DEF Unparsed
<1> HIDE DEF bl, il
<1>6. \A k \in 1 .. bl + n : buffer'[k] = all[parsed + k]
  <2> SUFFICES ASSUME NEW k \in 1 .. bl + n PROVE buffer'[k] = all[parsed + k]
    OBVIOUS
  <2>1. CASE k <= bl
    BY <1>4, <1>5, <2>1
  <2>2. CASE k > bl
    <3> DEFINE h == k - bl
    <3>1. h \in 1 .. n /\ k = bl + h /\ h \in 1 .. il
      BY <1>2, <1>5, <2>2 DEF il
    <3>2. buffer'[bl + h] = inbound[h] /\ inbound[h] = all[parsed + bl + h]
      BY <3>1, <1>4, <1>5
    <3>3. parsed + bl + h = parsed + k
      BY <1>5, <3>1
    <3>4. QED
      BY <3>1, <3>2, <3>3
  <2>3. QED
    BY <1>5, <2>1, <2>2
<1>7. \A k \in 1 .. il - n : inbound'[k] = all[parsed + (bl + n) + k]
  <2> SUFFICES ASSUME NEW k \in 1 .. il - n
               PROVE  inbound'[k] = all[parsed + (bl + n) + k]
    OBVIOUS
  <2>1. n + k \in 1 .. il /\ parsed + bl + (n + k) = parsed + (bl + n) + k
    BY <1>2, <1>5 DEF il
  <2>2. inbound[n + k] = all[parsed + bl + (n + k)]
    BY <1>5, <2>1
  <2>3. QED
    BY <1>4, <2>1, <2>2
<1>8. parsed + (bl + n) + (il - n) = total
  BY <1>2, <1>5 DEF il
<1>9. QED
  BY <1>4, <1>6, <1>7, <1>8 DEF Unparsed

\* Parsing takes the next symbol of the stream.
LEMMA ParseTakesNext ==
    ASSUME TypeOK, NEW all, NEW parsed \in Nat, NEW total \in Nat,
           Unparsed(all, parsed, total), buffer # <<>>,
           buffer' = Tail(buffer), inbound' = inbound
    PROVE  /\ Head(buffer) = all[parsed + 1]
           /\ parsed < total
           /\ Unparsed(all, parsed + 1, total)'
<1>1. buffer \in Seq(Symbols) /\ Len(buffer) \in Nat /\ Len(buffer) >= 1
  BY EmptySeq DEF TypeOK, Text
<1>2. Head(buffer) = buffer[1] /\ Len(Tail(buffer)) = Len(buffer) - 1
      /\ \A k \in 1 .. Len(buffer) - 1 : Tail(buffer)[k] = buffer[k + 1]
  BY <1>1
<1>3. inbound \in Seq(Symbols) /\ Len(inbound) \in Nat
  BY DEF TypeOK, Text
<1> DEFINE bl == Len(buffer)
           il == Len(inbound)
<1>4. /\ parsed + bl + il = total
      /\ \A k \in 1 .. bl : buffer[k] = all[parsed + k]
      /\ \A k \in 1 .. il : inbound[k] = all[parsed + bl + k]
  BY DEF Unparsed
<1>5. bl \in Nat /\ il \in Nat /\ bl >= 1
  BY <1>1, <1>3
<1>6. Len(buffer') = bl - 1 /\ \A k \in 1 .. bl - 1 : buffer'[k] = buffer[k + 1]
  BY <1>2
<1> HIDE DEF bl, il
<1>7. \A k \in 1 .. bl - 1 : buffer'[k] = all[parsed + 1 + k]
  <2> SUFFICES ASSUME NEW k \in 1 .. bl - 1 PROVE buffer'[k] = all[parsed + 1 + k]
    OBVIOUS
  <2>1. k + 1 \in 1 .. bl /\ parsed + (k + 1) = parsed + 1 + k
    BY <1>5
  <2>2. buffer[k + 1] = all[parsed + (k + 1)]
    BY <1>4, <2>1
  <2>3. QED
    BY <1>6, <2>1, <2>2
<1>8. \A k \in 1 .. il : inbound'[k] = all[parsed + 1 + (bl - 1) + k]
  <2> SUFFICES ASSUME NEW k \in 1 .. il
               PROVE  inbound'[k] = all[parsed + 1 + (bl - 1) + k]
    OBVIOUS
  <2>1. parsed + 1 + (bl - 1) + k = parsed + bl + k
    BY <1>5
  <2>2. QED
    BY <1>4, <2>1
<1>9. parsed + 1 + (bl - 1) + il = total /\ parsed < total
  BY <1>4, <1>5
<1>10. Len(inbound') = il
  BY DEF il
<1>11. Unparsed(all, parsed + 1, total)'
  BY <1>6, <1>7, <1>8, <1>9, <1>10 DEF Unparsed
<1>12. Head(buffer) = all[parsed + 1]
  BY <1>2, <1>4, <1>5
<1>13. QED
  BY <1>9, <1>11, <1>12

-----------------------------------------------------------------------------
(* The client sends a message *)

\* The stream is extended by the text of the new message.
LEMMA SendKeepsStream ==
    ASSUME TypeOK, NEW all, NEW start, NEW parsed \in Nat,
           Stream(all, start), Unparsed(all, parsed, start[Len(sent) + 1]), ClientSend
    PROVE  \E all2, start2 :
             /\ Stream(all2, start2)'
             /\ \A i \in 1 .. Len(sent) + 1 : start2[i] = start[i]
             /\ Unparsed(all2, parsed, start2[Len(sent) + 1])'
<1>1. PICK m \in Messages : sent' = Append(sent, m) /\ inbound' = inbound \o m.text
  BY DEF ClientSend
<1>2. buffer' = buffer
  BY DEF ClientSend
<1>3. m.text \in Seq(Symbols)
  BY MessagesAssumption DEF ClientMessage, Text
<1>s. PICK n, tl, bl, il, total :
          /\ n = Len(sent) /\ tl = Len(m.text) /\ bl = Len(buffer) /\ il = Len(inbound)
          /\ total = start[n + 1]
  OBVIOUS
<1>x. PICK all2 : all2 = [k \in Nat |-> IF k > total /\ k <= total + tl
                                        THEN m.text[k - total] ELSE all[k]]
  OBVIOUS
<1>y. PICK start2 :
          start2 = [i \in 1 .. n + 2 |-> IF i = n + 2 THEN total + tl ELSE start[i]]
  OBVIOUS
<1>4. n \in Nat /\ tl \in Nat /\ bl \in Nat /\ il \in Nat
  BY <1>3, <1>s DEF TypeOK, Text
<1>5. Len(sent') = n + 1 /\ sent'[n + 1] = m /\ \A i \in 1 .. n : sent'[i] = sent[i]
  BY <1>1, <1>s DEF TypeOK
<1>6. total \in Nat /\ start[1] = 0 /\ \A i \in 1 .. n + 1 : start[i] \in Nat
  <2>1. start \in [1 .. n + 1 -> Nat] /\ start[1] = 0
    BY <1>s DEF Stream
  <2>2. n + 1 \in 1 .. n + 1
    BY <1>4
  <2>3. QED
    BY <1>s, <2>1, <2>2
<1>7. \A i \in 1 .. n : /\ Len(sent[i].text) \in Nat
                        /\ start[i + 1] = start[i] + Len(sent[i].text)
                        /\ start[i + 1] <= total
                        /\ \A k \in 1 .. Len(sent[i].text) :
                                all[start[i] + k] = sent[i].text[k]
  <2>1. \A i \in 1 .. n : sent[i] \in Messages
    BY <1>s DEF TypeOK
  <2>2. \A i \in 1 .. n : Len(sent[i].text) \in Nat
    BY <2>1, MessagesAssumption DEF ClientMessage, Text
  <2>3. QED
    BY <2>2, <1>s DEF Stream
<1>8. /\ parsed + bl + il = total
      /\ \A k \in 1 .. bl : buffer[k] = all[parsed + k]
      /\ \A k \in 1 .. il : inbound[k] = all[parsed + bl + k]
  BY <1>s DEF Unparsed
<1>9. /\ Len(inbound') = il + tl
      /\ \A k \in 1 .. il : inbound'[k] = inbound[k]
      /\ \A k \in 1 .. tl : inbound'[il + k] = m.text[k]
  <2>1. inbound \in Seq(Symbols)
    BY DEF TypeOK, Text
  <2>2. QED
    BY <1>1, <1>3, <1>4, <1>s, <2>1, ConcatProperties
<1>10. ASSUME NEW k \in Nat, k <= total
       PROVE  all2[k] = all[k]
  BY <1>4, <1>6, <1>10, <1>x
<1>11. ASSUME NEW k \in 1 .. tl
       PROVE  all2[total + k] = m.text[k]
  <2>1. total + k \in Nat /\ total + k > total /\ total + k <= total + tl
    BY <1>4, <1>6
  <2>2. (total + k) - total = k
    BY <1>6
  <2>3. all2[total + k] = m.text[(total + k) - total]
    BY <1>x, <2>1
  <2>4. QED
    BY <2>2, <2>3
<1>12. start2 \in [1 .. n + 2 -> Nat] /\ start2[n + 2] = total + tl
       /\ \A i \in 1 .. n + 1 : start2[i] = start[i]
  BY <1>4, <1>6, <1>y
<1>13. ASSUME NEW i \in 1 .. n
       PROVE  /\ start2[i + 1] = start2[i] + Len(sent'[i].text)
              /\ start2[i + 1] <= start2[n + 2]
              /\ \A k \in 1 .. Len(sent'[i].text) : all2[start2[i] + k] = sent'[i].text[k]
  <2> DEFINE t == sent[i].text
             a == start[i]
  <2>1. /\ i \in 1 .. n + 1 /\ i + 1 \in 1 .. n + 1
        /\ sent'[i].text = t /\ start2[i] = a /\ start2[i + 1] = start[i + 1]
    BY <1>4, <1>5, <1>12
  <2>2. /\ Len(t) \in Nat /\ a \in Nat /\ start[i + 1] = a + Len(t) /\ a + Len(t) <= total
        /\ \A k \in 1 .. Len(t) : all[a + k] = t[k]
    BY <1>6, <1>7, <2>1
  <2> HIDE DEF t, a
  <2>3. \A k \in 1 .. Len(t) : a + k \in Nat /\ a + k <= total
    BY <1>6, <2>2
  <2>4. \A k \in 1 .. Len(t) : all2[a + k] = t[k]
    BY <1>10, <2>2, <2>3
  <2>5. a + Len(t) <= total + tl
    BY <1>4, <1>6, <2>2
  <2>6. QED
    BY <2>1, <2>2, <2>4, <2>5, <1>12
<1>14. /\ start2[n + 2] = start2[n + 1] + Len(sent'[n + 1].text)
       /\ \A k \in 1 .. Len(sent'[n + 1].text) : all2[start2[n + 1] + k] = sent'[n + 1].text[k]
  <2>1. start2[n + 1] = total /\ sent'[n + 1].text = m.text
    BY <1>4, <1>5, <1>12, <1>s
  <2>2. QED
    BY <1>11, <1>12, <2>1, <1>s
<1>15. Stream(all2, start2)'
  <2>1. start2[1] = 0
    BY <1>4, <1>6, <1>12
  <2>2. n + 1 + 1 = n + 2
    BY <1>4
  <2>3. ASSUME NEW i \in 1 .. n + 1
        PROVE  /\ start2[i + 1] = start2[i] + Len(sent'[i].text)
               /\ start2[i + 1] <= start2[n + 2]
               /\ \A k \in 1 .. Len(sent'[i].text) : all2[start2[i] + k] = sent'[i].text[k]
    <3>1. CASE i \in 1 .. n
      BY <3>1, <1>13
    <3>2. CASE i = n + 1
      BY <3>2, <2>2, <1>4, <1>6, <1>12, <1>14
    <3>3. QED
      BY <3>1, <3>2, <1>4
  <2>4. QED
    BY <1>5, <1>12, <2>1, <2>2, <2>3 DEF Stream
<1>16. \A k \in 1 .. bl : buffer'[k] = all2[parsed + k]
  <2>1. \A k \in 1 .. bl : parsed + k \in Nat /\ parsed + k <= total
    BY <1>4, <1>8
  <2>2. QED
    BY <1>2, <1>8, <1>10, <2>1
<1>17. \A k \in 1 .. il + tl : inbound'[k] = all2[parsed + bl + k]
  <2> SUFFICES ASSUME NEW k \in 1 .. il + tl PROVE inbound'[k] = all2[parsed + bl + k]
    OBVIOUS
  <2>1. CASE k <= il
    <3>1. k \in 1 .. il /\ parsed + bl + k \in Nat /\ parsed + bl + k <= total
      BY <2>1, <1>4, <1>8
    <3>2. QED
      BY <3>1, <1>8, <1>9, <1>10
  <2>2. CASE k > il
    <3> DEFINE h == k - il
    <3>1. h \in 1 .. tl /\ k = il + h /\ parsed + bl + k = total + h
      BY <2>2, <1>4, <1>8
    <3> HIDE DEF h
    <3>2. inbound'[il + h] = m.text[h] /\ all2[total + h] = m.text[h]
      BY <3>1, <1>9, <1>11
    <3>3. QED
      BY <3>1, <3>2
  <2>3. QED
    BY <1>4, <2>1, <2>2
<1>18. Unparsed(all2, parsed, start2[n + 2])'
  <2>0. Len(buffer') = bl
    BY <1>2, <1>s
  <2>1. parsed + bl + (il + tl) = start2[n + 2]
    BY <1>4, <1>6, <1>8, <1>12
  <2>2. QED
    BY <1>9, <1>16, <1>17, <2>0, <2>1 DEF Unparsed
<1>19. n + 2 = Len(sent') + 1
  BY <1>4, <1>5
<1>20. QED
  BY <1>12, <1>15, <1>18, <1>19, <1>s

-----------------------------------------------------------------------------
(* The parser *)

Fields == {"parser", "state", "chunk_size", "data", "uri", "method",
           "parsing_content", "minor", "headers", "payload"}

IsRecord(r) == DOMAIN r = Fields /\ r = [f \in Fields |-> r[f]]

\* reset of a parser without headers and payload gives a new one.
LEMMA ResetOfEmpty ==
    ASSUME NEW q, IsRecord(q), q.headers = <<>>, q.payload = <<>>
    PROVE  Reset(q) = NewParser
<1> DEFINE r == Reset(q)
<1>1. /\ r.parser = "null" /\ r.state = 0 /\ r.chunk_size = 0 /\ r.data = <<>>
      /\ r.uri = <<>> /\ r.method = <<>> /\ r.parsing_content = FALSE /\ r.minor = 0
      /\ r.headers = <<>> /\ r.payload = <<>>
  BY DEF Reset, Fields, IsRecord
<1>2. r = [f \in Fields |-> r[f]]
  BY DEF Reset, IsRecord
<1>3. NewParser = [f \in Fields |-> NewParser[f]]
  BY DEF NewParser, Fields
<1> HIDE DEF r
<1>4. /\ r.parser = NewParser.parser /\ r.state = NewParser.state
      /\ r.chunk_size = NewParser.chunk_size /\ r.data = NewParser.data
      /\ r.uri = NewParser.uri /\ r.method = NewParser.method
      /\ r.parsing_content = NewParser.parsing_content /\ r.minor = NewParser.minor
      /\ r.headers = NewParser.headers /\ r.payload = NewParser.payload
  BY <1>1 DEF NewParser
<1>5. \A f \in Fields : r[f] = NewParser[f]
  BY <1>4, Zenon DEF Fields
<1>6. QED
  BY <1>2, <1>3, <1>5 DEF r

\* After get_request and reset a parser is as new: reset() clears what
\* get_request did not move.
LEMMA ResetIsNew ==
    ASSUME NEW p \in Parser
    PROVE  Reset(MovedFrom(p)) = NewParser /\ Reset(NewParser) = NewParser
<1> DEFINE q == MovedFrom(p)
<1>1. IsRecord(p)
  BY DEF Parser, Fields, IsRecord
<1>2. IsRecord(q)
  BY <1>1 DEF MovedFrom, IsRecord
<1>3. q.headers = <<>> /\ q.payload = <<>>
  BY <1>1 DEF MovedFrom, Fields, IsRecord
<1> HIDE DEF q
<1>4. Reset(MovedFrom(p)) = NewParser
  BY <1>2, <1>3, ResetOfEmpty DEF q
<1>5. IsRecord(NewParser) /\ NewParser.headers = <<>> /\ NewParser.payload = <<>>
  BY DEF NewParser, Fields, IsRecord
<1>6. Reset(NewParser) = NewParser
  BY <1>5, ResetOfEmpty
<1>7. QED
  BY <1>4, <1>6

\* The next symbol of the message takes a parser that is midway a step further,
\* or to the request when it was the last one.
LEMMA MidwayStep ==
    ASSUME NEW p, NEW done \in Nat, NEW m, m.text \in Seq(Symbols), Midway(p, done, m)
    PROVE  LET o == Parse(p, m.text[done + 1])
           IN  \/ o.result = "indeterminate" /\ Midway(o.parser, done + 1, m)
               \/ /\ o.result = "true" /\ done + 1 = Len(m.text)
                  /\ GetRequest(o.parser) = m.request
<1> DEFINE o == Parse(p, m.text[done + 1])
<1>1. PICK run : ReadAlone(run, m) /\ done < Len(m.text) /\ p = run[done]
  BY DEF Midway
<1>2. Len(m.text) \in Nat
  OBVIOUS
<1>3. CASE done + 1 = Len(m.text)
  <2>1. done = Len(m.text) - 1
    BY <1>2, <1>3
  <2>2. o = Parse(run[Len(m.text) - 1], m.text[Len(m.text)])
    BY <1>1, <1>3, <2>1
  <2>3. QED
    BY <1>1, <1>3, <2>2 DEF ReadAlone
<1>4. CASE done + 1 # Len(m.text)
  <2> DEFINE k == done + 1
  <2>1. k \in 1 .. Len(m.text) - 1 /\ k - 1 = done /\ k < Len(m.text)
    BY <1>1, <1>2, <1>4
  <2>2. Parse(run[k - 1], m.text[k]) = Indeterminate(run[k])
    BY <1>1, <2>1 DEF ReadAlone
  <2>3. o = Indeterminate(run[k])
    BY <1>1, <2>1, <2>2
  <2> HIDE DEF o, k
  <2>4. o.result = "indeterminate" /\ o.parser = run[k]
    BY <2>3 DEF Indeterminate
  <2>5. Midway(o.parser, k, m)
    BY <1>1, <2>1, <2>4 DEF Midway
  <2>6. QED
    BY <2>4, <2>5 DEF k, o
<1>5. QED
  BY <1>3, <1>4

\* Parsing a symbol keeps the parser in step with the stream.
LEMMA ParseInStep ==
    ASSUME Readable, SafetyInv, InStep, ~Lost, ParseSymbol
    PROVE  InStep'
<1>1. PICK all, start : \E done \in Nat :
          /\ Stream(all, start)
          /\ Unparsed(all, start[current] + done, start[Len(sent) + 1])
          /\ ParserAt(done)
  BY DEF InStep
<1>2. PICK done \in Nat :
          /\ Stream(all, start)
          /\ Unparsed(all, start[current] + done, start[Len(sent) + 1])
          /\ ParserAt(done)
  BY <1>1
<1>a. /\ TypeOK /\ buffer # <<>> /\ pc = "parsing" /\ Len(served) <= Len(sent)
      /\ buffer' = Tail(buffer) /\ UNCHANGED <<inbound, sent, served>>
  BY DEF SafetyInv, ParseSymbol, clientVars, InStep
<1>b. Len(sent) \in Nat /\ current \in 1 .. Len(sent) + 1
  BY <1>a DEF TypeOK, current
<1>c. start[current] \in Nat /\ start[Len(sent) + 1] \in Nat
  BY <1>2, <1>b DEF Stream
<1>p. PICK parsed, total : parsed = start[current] + done /\ total = start[Len(sent) + 1]
  OBVIOUS
<1>t. parsed \in Nat /\ total \in Nat
  BY <1>c, <1>p
<1> DEFINE m == sent[current]
           o == Parse(parser, Head(buffer))
<1>3. /\ Head(buffer) = all[parsed + 1] /\ parsed < total
      /\ Unparsed(all, parsed + 1, total)'
  <2>1. Unparsed(all, parsed, total)
    BY <1>2, <1>p
  <2>2. QED
    BY <2>1, <1>a, <1>t, ParseTakesNext
<1>4. current <= Len(sent) /\ Midway(parser, done, m)
  <2>1. CASE current <= Len(sent) /\ Midway(parser, done, m)
    BY <2>1
  <2>2. CASE done = 0 /\ parser = NewParser
    <3>1. current # Len(sent) + 1
      BY <2>2, <1>3, <1>c, <1>p
    <3>2. current \in 1 .. Len(sent)
      BY <3>1, <1>b
    <3>3. m \in Messages /\ m.wellformed
      <4>1. m \in Messages
        BY <3>2, <1>a DEF TypeOK
      <4>2. QED
        BY <4>1, <3>2, MessagesAssumption DEF Lost, ClientMessage
    <3>4. PICK run : ReadAlone(run, m)
      BY <3>3 DEF Readable
    <3>5. run[0] = NewParser /\ m.text # <<>> /\ m.text \in Seq(Symbols)
      BY <3>3, <3>4, MessagesAssumption DEF ReadAlone, ClientMessage, Text
    <3>6. 0 < Len(m.text)
      BY <3>5, EmptySeq
    <3>7. Midway(parser, done, m)
      BY <2>2, <3>4, <3>5, <3>6 DEF Midway
    <3>8. QED
      BY <3>2, <3>7, <1>b
  <2>3. QED
    BY <2>1, <2>2, <1>2, <1>a DEF ParserAt
<1>5. current \in 1 .. Len(sent) /\ m \in Messages /\ m.text \in Seq(Symbols)
  <2>1. current \in 1 .. Len(sent)
    BY <1>4, <1>b
  <2>2. m \in Messages
    BY <2>1, <1>a DEF TypeOK
  <2>3. QED
    BY <2>1, <2>2, MessagesAssumption DEF ClientMessage, Text
<1>6. Head(buffer) = m.text[done + 1]
  <2>1. done + 1 \in 1 .. Len(m.text)
    BY <1>4, <1>5 DEF Midway
  <2>2. all[start[current] + (done + 1)] = m.text[done + 1]
    BY <2>1, <1>2, <1>5 DEF Stream
  <2>3. start[current] + (done + 1) = parsed + 1
    BY <1>c, <1>p
  <2>4. QED
    BY <1>3, <2>2, <2>3
<1>7. \/ o.result = "indeterminate" /\ Midway(o.parser, done + 1, m)
      \/ /\ o.result = "true" /\ done + 1 = Len(m.text)
         /\ GetRequest(o.parser) = m.request
  BY <1>4, <1>5, <1>6, MidwayStep
<1>8. /\ parser' = o.parser
      /\ o.result = "indeterminate" => pc' = "parsing"
      /\ o.result = "true" => pc' = "request"
  BY DEF ParseSymbol
<1>9. current' = current /\ sent' = sent
  BY <1>a DEF current
<1> HIDE DEF o
<1>10. ParserAt(done + 1)'
  <2>1. CASE o.result = "indeterminate" /\ Midway(o.parser, done + 1, m)
    <3>1. Midway(parser', done + 1, sent'[current']) /\ current' <= Len(sent')
      BY <2>1, <1>4, <1>8, <1>9
    <3>2. QED
      BY <2>1, <3>1, <1>8 DEF ParserAt, Midway
  <2>2. CASE o.result = "true" /\ done + 1 = Len(m.text) /\ GetRequest(o.parser) = m.request
    BY <2>2, <1>4, <1>8, <1>9 DEF ParserAt
  <2>3. QED
    BY <2>1, <2>2, <1>7
<1>11. Unparsed(all, start[current] + (done + 1), start[Len(sent) + 1])'
  <2>1. start[current'] + (done + 1) = parsed + 1 /\ start[Len(sent') + 1] = total
    BY <1>c, <1>p, <1>9
  <2>2. QED
    BY <1>3, <2>1
<1>12. done + 1 \in Nat
  OBVIOUS
<1>13. QED
  BY <1>2, <1>a, <1>10, <1>11, <1>12, StillInStep

-----------------------------------------------------------------------------
(* The induction *)

\* Sending: the stream grows at its end, the parser stays where it is.
LEMMA SendInStep ==
    ASSUME SafetyInv, InStep, ClientSend
    PROVE  InStep'
<1>1. PICK all, start : \E done \in Nat :
          /\ Stream(all, start)
          /\ Unparsed(all, start[current] + done, start[Len(sent) + 1])
          /\ ParserAt(done)
  BY DEF InStep
<1>2. PICK done \in Nat :
          /\ Stream(all, start)
          /\ Unparsed(all, start[current] + done, start[Len(sent) + 1])
          /\ ParserAt(done)
  BY <1>1
<1>a. TypeOK /\ Len(served) <= Len(sent) /\ UNCHANGED <<pc, parser, served>>
  BY DEF SafetyInv, ClientSend, InStep
<1>b. Len(sent) \in Nat /\ current \in 1 .. Len(sent) + 1
  BY <1>a DEF TypeOK, current
<1>c. start[current] \in Nat
  BY <1>2, <1>b DEF Stream
<1>p. PICK parsed \in Nat : parsed = start[current] + done
  BY <1>c
<1>3. PICK all2, start2 :
          /\ Stream(all2, start2)'
          /\ \A i \in 1 .. Len(sent) + 1 : start2[i] = start[i]
          /\ Unparsed(all2, parsed, start2[Len(sent) + 1])'
  BY <1>2, <1>a, <1>p, SendKeepsStream
<1>4. current' = current /\ Len(sent') = Len(sent) + 1
      /\ \A i \in 1 .. Len(sent) : sent'[i] = sent[i]
  BY <1>a DEF ClientSend, TypeOK, current
<1>5. start2[current'] + done = parsed
  BY <1>3, <1>4, <1>b, <1>p
<1>6. ParserAt(done)'
  <2>1. current <= Len(sent) => current' <= Len(sent') /\ sent'[current'] = sent[current]
    BY <1>4, <1>b
  <2>2. QED
    BY <2>1, <1>2, <1>a DEF ParserAt, Midway
<1>7. Unparsed(all2, start2[current] + done, start2[Len(sent) + 1])'
  BY <1>3, <1>5
<1>8. Len(served') <= Len(sent')
  BY <1>4, <1>a, <1>b DEF TypeOK
<1>9. QED
  BY <1>3, <1>6, <1>7, <1>8 DEF InStep

\* Serving: the current message is complete and the next one becomes current.
LEMMA ServeInStep ==
    ASSUME SafetyInv, InStep, Serve
    PROVE  /\ InStep'
           /\ current <= Len(sent)
           /\ GetRequest(parser) = sent[current].request
<1>1. PICK all, start : \E done \in Nat :
          /\ Stream(all, start)
          /\ Unparsed(all, start[current] + done, start[Len(sent) + 1])
          /\ ParserAt(done)
  BY DEF InStep
<1>2. PICK done \in Nat :
          /\ Stream(all, start)
          /\ Unparsed(all, start[current] + done, start[Len(sent) + 1])
          /\ ParserAt(done)
  BY <1>1
<1>a. /\ TypeOK /\ pc = "request" /\ pc' = "writing" /\ UNCHANGED <<inbound, buffer, sent>>
      /\ parser' = Reset(MovedFrom(parser))
      /\ served' = Append(served, GetRequest(parser))
  BY DEF SafetyInv, Serve, clientVars
<1>3. /\ current <= Len(sent) /\ done = Len(sent[current].text)
      /\ GetRequest(parser) = sent[current].request
  BY <1>2, <1>a DEF ParserAt
<1>b. Len(sent) \in Nat /\ current \in 1 .. Len(sent) /\ Len(served) \in Nat
  BY <1>3, <1>a DEF TypeOK, current
<1>4. Len(served') = Len(served) + 1 /\ current' = current + 1
  <2>1. GetRequest(parser) \in Request
    BY <1>a, ResetSafe DEF TypeOK
  <2>2. QED
    BY <2>1, <1>a DEF TypeOK, current
<1>5. start[current'] + 0 = start[current] + done
  BY <1>2, <1>3, <1>4, <1>b DEF Stream
<1>6. Stream(all, start)'
  BY <1>2, <1>a DEF Stream
<1>p. PICK parsed, total : parsed = start[current] + done /\ total = start[Len(sent) + 1]
  OBVIOUS
<1>7. Unparsed(all, parsed, total)'
  BY <1>2, <1>a, <1>p DEF Unparsed
<1>8. Unparsed(all, start[current] + 0, start[Len(sent) + 1])'
  BY <1>5, <1>7, <1>a, <1>p
<1>9. parser' = NewParser
  BY <1>a, ResetIsNew DEF TypeOK
<1>10. ParserAt(0)'
  BY <1>9, <1>a DEF ParserAt
<1>11. Len(served') <= Len(sent')
  BY <1>4, <1>b, <1>a DEF current
<1>12. InStep'
  BY <1>6, <1>8, <1>10, <1>11 DEF InStep
<1>13. QED
  BY <1>3, <1>12

\* The steps that neither parse, serve nor send leave the parser in step.
LEMMA OtherInStep ==
    ASSUME SafetyInv, InStep,
           ClientClose \/ ReadSome \/ ReadError \/ ReadOn \/ WriteMore \/ NextRequest
              \/ Close \/ WriteError \/ UNCHANGED vars
    PROVE  InStep'
<1>1. PICK all, start : \E done \in Nat :
          /\ Stream(all, start)
          /\ Unparsed(all, start[current] + done, start[Len(sent) + 1])
          /\ ParserAt(done)
  BY DEF InStep
<1>2. PICK done \in Nat :
          /\ Stream(all, start)
          /\ Unparsed(all, start[current] + done, start[Len(sent) + 1])
          /\ ParserAt(done)
  BY <1>1
<1>a. TypeOK /\ Len(served) <= Len(sent)
  BY DEF SafetyInv, InStep
<1>b. Len(sent) \in Nat /\ current \in 1 .. Len(sent) + 1
  BY <1>a DEF TypeOK, current
<1>c. start[current] \in Nat /\ start[Len(sent) + 1] \in Nat
  BY <1>2, <1>b DEF Stream
<1>p. PICK parsed, total : parsed = start[current] + done /\ total = start[Len(sent) + 1]
  OBVIOUS
<1>d. parsed \in Nat /\ total \in Nat /\ Unparsed(all, parsed, total)
  BY <1>2, <1>c, <1>p
<1>e. UNCHANGED <<sent, served>>
  BY DEF ClientClose, ReadSome, ReadError, ReadOn, WriteMore, NextRequest, Close,
         WriteError, clientVars, vars
<1>3. Unparsed(all, parsed, total)'
  <2>1. CASE ReadSome
    BY <2>1, <1>a, <1>d, ReadKeepsUnparsed
  <2>2. CASE ~ReadSome
    <3>1. UNCHANGED <<inbound, buffer>>
      BY <2>2 DEF ClientClose, ReadError, ReadOn, WriteMore, NextRequest, Close,
                  WriteError, clientVars, vars
    <3>2. QED
      BY <3>1, <1>d DEF Unparsed
  <2>3. QED
    BY <2>1, <2>2
<1>4. current' = current
  BY <1>e DEF current
<1>5. Unparsed(all, start[current] + done, start[Len(sent) + 1])'
  BY <1>3, <1>4, <1>e, <1>p
<1>6. ParserAt(done)'
  <2>1. CASE /\ UNCHANGED parser
             /\ pc' = pc \/ pc' \in {"closed", "dropped"}
                   \/ {pc, pc'} \subseteq {"reading", "parsing"}
    BY <2>1, <1>2, <1>4, <1>e DEF ParserAt, Midway
  <2>2. CASE NextRequest
    <3>1. done = 0 /\ parser = NewParser /\ pc' \in {"parsing", "reading"}
      BY <2>2, <1>2 DEF NextRequest, ParserAt
    <3>2. parser' = NewParser
      BY <2>2, <3>1, <1>a, ResetIsNew DEF NextRequest, TypeOK
    <3>3. QED
      BY <3>1, <3>2 DEF ParserAt
  <2>3. QED
    BY <2>1, <2>2 DEF ClientClose, ReadSome, ReadError, ReadOn, WriteMore, Close,
                      WriteError, clientVars, vars
<1>7. QED
  BY <1>2, <1>5, <1>6, <1>a, <1>e, StillInStep

\* Every step keeps the requests apart and whole.
LEMMA NextDelivery == Readable /\ DeliveryInv /\ [Next]_vars => DeliveryInv'
<1> SUFFICES ASSUME Readable, DeliveryInv, [Next]_vars PROVE DeliveryInv'
  OBVIOUS
<1>1. SafetyInv /\ TypeOK /\ SafetyInv'
  BY NextSafety DEF DeliveryInv, SafetyInv
<1>2. DOMAIN served = 1 .. Len(served) /\ DOMAIN sent = 1 .. Len(sent)
      /\ Len(sent) \in Nat /\ Len(served) \in Nat
  BY <1>1 DEF TypeOK
<1>3. CASE ClientSend
  <2>1. /\ Len(sent') = Len(sent) + 1 /\ DOMAIN sent' = 1 .. Len(sent) + 1
        /\ \A i \in 1 .. Len(sent) : sent'[i] = sent[i]
        /\ served' = served /\ current' = current
    BY <1>1, <1>3 DEF ClientSend, TypeOK, current
  <2>2. Delivered'
    <3> SUFFICES ASSUME NEW i \in 1 .. Len(served),
                        \A j \in 1 .. Len(sent) + 1 : j <= i => sent'[j].wellformed
                 PROVE  i \in 1 .. Len(sent) + 1 /\ served[i] = sent'[i].request
      BY <1>2, <2>1 DEF Delivered
    <3>1. \A j \in 1 .. Len(sent) : j <= i => sent[j].wellformed
      BY <1>2, <2>1
    <3>2. i \in 1 .. Len(sent) /\ served[i] = sent[i].request
      BY <1>2, <3>1 DEF DeliveryInv, Delivered
    <3>3. QED
      BY <1>2, <2>1, <3>2
  <2>3. Lost => Lost'
    BY <1>2, <2>1 DEF Lost
  <2>4. QED
    BY <1>1, <1>3, <2>2, <2>3, SendInStep DEF DeliveryInv
<1>4. CASE Serve
  <2>1. /\ sent' = sent /\ served' = Append(served, GetRequest(parser))
        /\ GetRequest(parser) \in Request
    BY <1>1, <1>4, ResetSafe DEF Serve, clientVars, TypeOK
  <2>2. /\ DOMAIN served' = 1 .. Len(served) + 1 /\ Len(served') = Len(served) + 1
        /\ \A i \in 1 .. Len(served) : served'[i] = served[i]
        /\ served'[current] = GetRequest(parser) /\ current' = current + 1
    BY <1>1, <2>1 DEF TypeOK, current
  <2>3. Lost => Lost'
    BY <1>2, <2>1, <2>2 DEF Lost, current
  <2>4. \/ Lost
        \/ current \in 1 .. Len(sent) /\ served'[current] = sent[current].request
    <3>1. CASE Lost
      BY <3>1
    <3>2. CASE InStep
      BY <3>2, <1>1, <1>2, <1>4, <2>2, ServeInStep DEF current
    <3>3. QED
      BY <3>1, <3>2 DEF DeliveryInv
  <2>5. Delivered'
    <3> SUFFICES ASSUME NEW i \in 1 .. Len(served) + 1,
                        \A j \in 1 .. Len(sent) : j <= i => sent[j].wellformed
                 PROVE  i \in 1 .. Len(sent) /\ served'[i] = sent[i].request
      BY <1>2, <2>1, <2>2 DEF Delivered
    <3>1. CASE i \in 1 .. Len(served)
      BY <3>1, <1>2, <2>2 DEF DeliveryInv, Delivered
    <3>2. CASE i = current
      BY <3>2, <2>4 DEF Lost
    <3>3. QED
      BY <3>1, <3>2, <1>2 DEF current
  <2>6. QED
    BY <1>1, <1>4, <2>3, <2>5, ServeInStep DEF DeliveryInv
<1>5. ASSUME UNCHANGED <<sent, served>>, InStep => Lost \/ InStep' PROVE DeliveryInv'
  <2>1. Delivered'
    BY <1>5 DEF DeliveryInv, Delivered
  <2>2. Lost => Lost'
    BY <1>5 DEF Lost, current
  <2>3. QED
    BY <1>1, <1>5, <2>1, <2>2 DEF DeliveryInv
<1>6. CASE ParseSymbol
  BY <1>1, <1>5, <1>6, ParseInStep DEF ParseSymbol, clientVars
<1>7. CASE Refuse
  <2>1. pc = "bad" /\ UNCHANGED <<sent, served>>
    BY <1>7 DEF Refuse, clientVars
  <2>2. ~InStep
    BY <2>1 DEF InStep, ParserAt
  <2>3. QED
    BY <1>5, <2>1, <2>2
<1>8. CASE ClientClose \/ ReadSome \/ ReadError \/ ReadOn \/ WriteMore \/ NextRequest
              \/ Close \/ WriteError \/ UNCHANGED vars
  <2>1. UNCHANGED <<sent, served>>
    BY <1>8 DEF ClientClose, ReadSome, ReadError, ReadOn, WriteMore, NextRequest, Close,
                WriteError, clientVars, vars
  <2>2. QED
    BY <1>1, <1>5, <1>8, <2>1, OtherInStep
<1>9. QED
  BY <1>3, <1>4, <1>6, <1>7, <1>8 DEF Next, HandleRead, HandleWrite, Finished

\* Nothing has been delivered at first.
LEMMA InitDelivery == Init => DeliveryInv
<1> SUFFICES ASSUME Init PROVE DeliveryInv
  OBVIOUS
<1>1. /\ sent = <<>> /\ served = <<>> /\ buffer = <<>> /\ inbound = <<>>
      /\ pc = "reading" /\ parser = NewParser
  BY DEF Init
<1>2. Len(sent) = 0 /\ Len(served) = 0 /\ Len(buffer) = 0 /\ Len(inbound) = 0
      /\ current = 1
  BY <1>1 DEF current
<1>3. Delivered
  BY <1>1 DEF Delivered
<1> DEFINE start == [i \in 1 .. 1 |-> 0]
<1>4. start \in [1 .. 1 -> Nat] /\ start[1] = 0
  OBVIOUS
<1> HIDE DEF start
<1>5. Stream(start, start)
  BY <1>2, <1>4 DEF Stream
<1>6. Unparsed(start, start[current] + 0, start[Len(sent) + 1])
  BY <1>2, <1>4 DEF Unparsed
<1>7. ParserAt(0)
  BY <1>1 DEF ParserAt
<1>8. InStep
  BY <1>2, <1>5, <1>6, <1>7 DEF InStep
<1>9. QED
  BY <1>3, <1>8, InitSafety DEF DeliveryInv

\* Whatever the client pipelines and however the bytes are cut into reads, the
\* requests that reach server::handle_request are, up to the first malformed
\* message, exactly the ones that were sent, in order and each with its own method,
\* uri, headers and payload: nothing of one request is left in the parser or the
\* buffer for the next.
THEOREM RequestsDelivered ==
    ASSUME Readable
    PROVE  Spec => []Delivered
<1>1. DeliveryInv => Delivered
  BY DEF DeliveryInv
<1>2. DeliveryInv /\ [Next]_vars => DeliveryInv'
  BY NextDelivery
<1>3. QED
  BY <1>1, <1>2, InitDelivery, PTL DEF Spec
=============================================================================
