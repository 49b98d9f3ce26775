----------------------------- MODULE Connection -----------------------------
(***************************************************************************)
(* One client connection, lib-http/src/connection.cpp: bytes arrive in     *)
(* pieces of any size, are parsed, each complete request is handled and    *)
(* its reply written, after which the connection is closed or, when kept   *)
(* alive, goes on with the bytes already read or with a new read.          *)
(*                                                                         *)
(* A connection has at most one asynchronous operation under way, so its   *)
(* handlers never overlap; pc says which one is pending, or where in       *)
(* handle_read the connection is.                                          *)
(***************************************************************************)
EXTENDS RequestHandler

CONSTANTS
    Messages,      \* what a client may send: the text and what it stands for
    MaxMessages,   \* bound on the messages of one client
    BufferSize     \* m_buffer.prepare(4096)

\* A message that is not well formed has no request; its field is arbitrary.
ClientMessage == [text : Text, wellformed : BOOLEAN, request : Request]

ASSUME MessagesAssumption == Messages \subseteq ClientMessage
ASSUME MaxMessagesAssumption == MaxMessages \in Nat
ASSUME BufferSizeAssumption == BufferSize \in Nat \ {0}

VARIABLES
    inbound,      \* bytes the client sent that were not read yet
    eof,          \* the client closed its side
    pc,           \* the pending operation, or the position in handle_read
    buffer,       \* m_buffer
    parser,       \* m_request_parser
    keep_alive,   \* m_keep_alive
    reply,        \* m_reply
    sent,         \* history: the messages sent by the client
    served,       \* history: the requests handed to server::handle_request
    wire          \* history: the messages written to the socket

vars == <<inbound, eof, pc, buffer, parser, keep_alive, reply, sent, served, wire>>

clientVars == <<inbound, eof, sent>>

\* "reading" and "writing": an asynchronous read or write is under way;
\* "parsing", "request", "bad": inside handle_read;
\* "closed": the server closed the socket; "dropped": an operation failed and
\* no new one was started, so the connection object is gone.
Positions == {"reading", "parsing", "request", "bad", "writing", "closed", "dropped"}

Over == pc \in {"closed", "dropped"}

Init ==
    /\ inbound = <<>> /\ eof = FALSE /\ sent = <<>>
    /\ pc = "reading"          \* connection::start
    /\ buffer = <<>>
    /\ parser = NewParser
    /\ keep_alive = FALSE
    /\ reply = NewReply
    /\ served = <<>> /\ wire = <<>>

-----------------------------------------------------------------------------
(* The client *)

ClientSend ==
    /\ ~eof /\ ~Over
    /\ Len(sent) < MaxMessages
    /\ \E m \in Messages :
        /\ sent' = Append(sent, m)
        /\ inbound' = inbound \o m.text
    /\ UNCHANGED <<eof, pc, buffer, parser, keep_alive, reply, served, wire>>

ClientClose ==
    /\ ~eof /\ ~Over
    /\ eof' = TRUE
    /\ UNCHANGED <<inbound, pc, buffer, parser, keep_alive, reply, sent, served, wire>>

-----------------------------------------------------------------------------
(* connection::handle_read *)

\* async_read_some completes with some of the bytes that have arrived.
ReadSome ==
    /\ pc = "reading"
    /\ \E n \in 1 .. Min({Len(inbound), BufferSize}) :
        /\ buffer' = buffer \o SubSeq(inbound, 1, n)
        /\ inbound' = SubSeq(inbound, n + 1, Len(inbound))
    /\ pc' = "parsing"
    /\ UNCHANGED <<eof, parser, keep_alive, reply, sent, served, wire>>

\* The read fails, or finds the end of the stream: nothing is started any more.
ReadError ==
    /\ pc = "reading"
    /\ pc' = "dropped"
    /\ UNCHANGED <<clientVars, buffer, parser, keep_alive, reply, served, wire>>

\* A turn of the loop in request_parser::parse.
ParseSymbol ==
    /\ pc = "parsing" /\ buffer # <<>>
    /\ LET outcome == Parse(parser, Head(buffer))
       IN  /\ parser' = outcome.parser
           /\ pc' = CASE outcome.result = "true"          -> "request"
                      [] outcome.result = "false"         -> "bad"
                      [] outcome.result = "indeterminate" -> "parsing"
    /\ buffer' = Tail(buffer)
    /\ UNCHANGED <<clientVars, keep_alive, reply, served, wire>>

\* The bytes ran out before the request was complete: read on.
ReadOn ==
    /\ pc = "parsing" /\ buffer = <<>>
    /\ pc' = "reading"
    /\ UNCHANGED <<clientVars, buffer, parser, keep_alive, reply, served, wire>>

\* Mutant of Serve: the header is announced, m_keep_alive is not set.
ServeForgetsKeepAlive ==
    /\ pc = "request"
    /\ LET req == GetRequest(parser)
       IN  \E outcome \in Outcomes :
            LET versioned == SetVersion(HandleRequest(req, reply, outcome), req.minor)
                result == IF KeepAlive(req) THEN SetKeepAlive(versioned) ELSE versioned
            IN  /\ reply' = result
                /\ wire' = Append(wire, ToBuffers(result))
                /\ served' = Append(served, req)
    /\ parser' = Reset(MovedFrom(parser))
    /\ pc' = "writing"
    /\ UNCHANGED <<clientVars, buffer, keep_alive>>

\* A complete request: handle it and start writing the reply.
Serve ==
    /\ pc = "request"
    /\ LET req == GetRequest(parser)
       IN  \E outcome \in Outcomes :
            LET versioned == SetVersion(HandleRequest(req, reply, outcome), req.minor)
                result == IF KeepAlive(req) THEN SetKeepAlive(versioned) ELSE versioned
            IN  /\ reply' = result
                /\ wire' = Append(wire, ToBuffers(result))
                /\ keep_alive' = (keep_alive \/ KeepAlive(req))
                /\ served' = Append(served, req)
    /\ parser' = Reset(MovedFrom(parser))
    /\ pc' = "writing"
    /\ UNCHANGED <<clientVars, buffer>>

\* A malformed request: the reply is assigned a stock one and written.
Refuse ==
    /\ pc = "bad"
    /\ reply' = Assign(reply, StockReply("bad_request"))
    /\ wire' = Append(wire, ToBuffers(reply'))
    /\ pc' = "writing"
    /\ UNCHANGED <<clientVars, buffer, parser, keep_alive, served>>

-----------------------------------------------------------------------------
(* connection::handle_write *)

\* There is more of the reply's stream to write.
WriteMore ==
    /\ pc = "writing"
    /\ ~DataToBuffersEmpty(reply)
    /\ reply' = DataToBuffersReply(reply)
    /\ wire' = [wire EXCEPT ![Len(wire)] = DataToBuffersMessage(reply, @)]
    /\ UNCHANGED <<clientVars, pc, buffer, parser, keep_alive, served>>

\* Mutant of NextRequest: the special case of bytes already read is missing.
NextRequestAlwaysReads ==
    /\ pc = "writing"
    /\ DataToBuffersEmpty(reply)
    /\ keep_alive
    /\ parser' = Reset(parser)
    /\ reply' = ResetReply(DataToBuffersReply(reply))
    /\ pc' = "reading"
    /\ UNCHANGED <<clientVars, buffer, keep_alive, served, wire>>

\* The reply is written and the connection kept alive: parse what was already
\* read, or read.
NextRequest ==
    /\ pc = "writing"
    /\ DataToBuffersEmpty(reply)
    /\ keep_alive
    /\ parser' = Reset(parser)
    /\ reply' = ResetReply(DataToBuffersReply(reply))
    /\ pc' = IF buffer # <<>> THEN "parsing" ELSE "reading"
    /\ UNCHANGED <<clientVars, buffer, keep_alive, served, wire>>

Close ==
    /\ pc = "writing"
    /\ DataToBuffersEmpty(reply)
    /\ ~keep_alive
    /\ reply' = DataToBuffersReply(reply)
    /\ pc' = "closed"
    /\ UNCHANGED <<clientVars, buffer, parser, keep_alive, served, wire>>

WriteError ==
    /\ pc = "writing"
    /\ pc' = "dropped"
    /\ UNCHANGED <<clientVars, buffer, parser, keep_alive, reply, served, wire>>

-----------------------------------------------------------------------------

\* A connection that is over stays so.
Finished == Over /\ UNCHANGED vars

HandleRead == ReadSome \/ ReadError \/ ParseSymbol \/ ReadOn \/ Serve \/ Refuse

HandleWrite == WriteMore \/ NextRequest \/ Close \/ WriteError

Next == ClientSend \/ ClientClose \/ HandleRead \/ HandleWrite \/ Finished

Spec == Init /\ [][Next]_vars

\* The io_service runs a handler whose operation has completed, bytes that
\* arrived complete a read and the client takes what is written; errors and
\* the client's own steps need not happen.
Progress == ReadSome \/ ParseSymbol \/ ReadOn \/ Serve \/ Refuse
                \/ WriteMore \/ NextRequest \/ Close

FairSpec == Spec /\ WF_vars(Progress)

-----------------------------------------------------------------------------
(* Properties *)

\* Every variable has its type.
TypeOK ==
    /\ inbound \in Text /\ buffer \in Text
    /\ eof \in BOOLEAN /\ keep_alive \in BOOLEAN
    /\ pc \in Positions
    /\ parser \in Parser
    /\ reply \in Reply
    /\ sent \in Seq(Messages)
    /\ served \in Seq(Request)
    /\ wire \in Seq(Message)

\* Whenever a symbol is parsed, whatever came before it and however it was
\* split into reads, the automaton is in a state its switch has a case for,
\* m_headers.back() exists where it is used and a chunk's counter is not zero.
ParserIsSafe == pc \in {"reading", "parsing"} => ParserSafe(parser)

\* A new parser that reads the message alone wants more up to its last symbol and
\* then has its request; run[k] is the parser after k symbols.
ReadAlone(run, m) ==
    /\ m.text # <<>>
    /\ run[0] = NewParser
    /\ \A k \in 1 .. Len(m.text) - 1 :
            Parse(run[k - 1], m.text[k]) = Indeterminate(run[k])
    /\ LET last == Parse(run[Len(m.text) - 1], m.text[Len(m.text)])
       IN  last.result = "true" /\ GetRequest(last.parser) = m.request

\* What is meant by a well-formed message: the parser understands it when nothing
\* comes before or after it and it arrives in one piece.
Readable == \A m \in Messages : m.wellformed => \E run : ReadAlone(run, m)

\* The requests handed to the server are the ones the client sent, in order,
\* with their own headers and payload, however the bytes were cut into reads
\* and however many requests were pipelined, up to the first message that is
\* not well-formed.
Delivered == \A i \in DOMAIN served :
                (\A j \in DOMAIN sent : j <= i => sent[j].wellformed) =>
                    i \in DOMAIN sent /\ served[i] = sent[i].request

\* The message that is still being written, or whose writing failed.
InProgress(i) == i = Len(wire) /\ pc \in {"writing", "dropped"}

\* A client can tell where each finished reply ends: from the length when it has
\* one, from the terminating chunk otherwise, and never from both.
FramedReplies == \A i \in DOMAIN wire : InProgress(i) \/ WellFramed(wire[i])

\* While a reply is written, what its headers announced is what was written of
\* its body plus what is left in its stream; a chunked reply ends with the
\* stream and not before.
BodyAccounted == pc = "writing" => wire # <<>> /\ Accounted(reply, wire[Len(wire)])

\* No stream of an earlier reply is left in m_reply when the next request is read:
\* operator= and reset() would carry it over into the next reply.
NoStaleStream == pc \in {"reading", "parsing", "request", "bad"} => reply.data = NoData

\* A reply that announced Keep-Alive is not followed by the server closing the
\* connection, and it is only announced to a client that asked for it.
KeptAlive ==
    /\ pc = "closed" => ~wire[Len(wire)].ka
    /\ pc = "writing" /\ wire[Len(wire)].ka => KeepAlive(served[Len(served)])

\* Each message sent is eventually answered in full, or the connection is over.
Answered ==
    \A n \in 1 .. MaxMessages :
        Len(sent) >= n ~> (Over \/ (Len(wire) >= n /\ ~InProgress(n)))
=============================================================================
