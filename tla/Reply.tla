------------------------------- MODULE Reply -------------------------------
(***************************************************************************)
(* The reply object of lib-http/src/reply.cpp and what of it goes over the *)
(* wire.  A reply has its content in memory (m_content) or in a stream it  *)
(* owns (m_data), sent as chunks or, for an HTTP/1.0 client, raw.          *)
(*                                                                         *)
(* Of the headers only the three that frame the message are kept; lengths  *)
(* are counted in blocks, a block being what one call of data_to_buffers   *)
(* takes from the stream.                                                  *)
(***************************************************************************)
EXTENDS Integers, Sequences

\* The status codes the server itself produces.
Statuses == {"ok", "not_found", "bad_request", "internal_server_error"}

NoData   == -1    \* m_data == nullptr
NoLength == -1    \* there is no Content-Length header

\* The blocks of an in-memory error page.
PageLength == 1

Reply == [ status   : Statuses,
           minor    : {0, 1},
           length   : Nat \cup {NoLength},   \* Content-Length header
           te       : BOOLEAN,               \* Transfer-Encoding: chunked header
           ka       : BOOLEAN,               \* Connection: Keep-Alive header
           content  : Nat,
           data     : Nat \cup {NoData},     \* blocks left in m_data
           seekable : BOOLEAN,               \* m_data can tell its position
           chunked  : BOOLEAN ]              \* m_chunked

\* reply::reply(internal_server_error, {1, 0})
NewReply == [ status |-> "internal_server_error", minor |-> 0, length |-> 0,
              te |-> FALSE, ka |-> FALSE, content |-> 0, data |-> NoData,
              seekable |-> FALSE, chunked |-> FALSE ]

\* reply::operator= copies everything but m_data and m_chunked.
Assign(lhs, rhs) ==
    [rhs EXCEPT !.data = lhs.data, !.seekable = lhs.seekable, !.chunked = lhs.chunked]

\* reply::reset swaps with a new reply: a copy and two assignments.
ResetReply(r) == Assign(r, NewReply)

\* set_content with content in memory; the old stream is deleted.
SetContent(r, n) ==
    [r EXCEPT !.content = n, !.status = "ok", !.data = NoData, !.chunked = FALSE,
              !.length = n, !.te = FALSE]

\* set_content with a stream of n blocks
SetStream(r, n, seekable) ==
    [r EXCEPT !.data = n, !.seekable = seekable, !.content = 0, !.status = "ok",
              !.chunked = TRUE, !.te = TRUE, !.length = NoLength]

SetStatus(r, status) == [r EXCEPT !.status = status]

StockReply(status) == SetStatus(SetContent(NewReply, PageLength), status)

\* Mutant of SetVersion: Transfer-Encoding is not removed.
SetVersionKeepsTE(r, minor) ==
    IF minor = 0 /\ r.data # NoData
    THEN [r EXCEPT !.minor = minor, !.chunked = FALSE,
                   !.length = r.data,
                   !.content = IF r.seekable THEN @ ELSE @ + r.data,
                   !.data = IF r.seekable THEN @ ELSE NoData]
    ELSE [r EXCEPT !.minor = minor]

\* reply::set_version.  For an HTTP/1.0 client the length of a stream must be
\* known beforehand; a stream that cannot seek is copied into memory first.
SetVersion(r, minor) ==
    IF minor = 0 /\ r.data # NoData
    THEN [r EXCEPT !.minor = minor, !.chunked = FALSE, !.te = FALSE,
                   !.length = r.data,
                   !.content = IF r.seekable THEN @ ELSE @ + r.data,
                   !.data = IF r.seekable THEN @ ELSE NoData]
    ELSE [r EXCEPT !.minor = minor]

\* The two headers connection::handle_read adds for a kept-alive connection.
SetKeepAlive(r) == [r EXCEPT !.ka = TRUE]

-----------------------------------------------------------------------------
(* What is written for a reply: its header section, then its body as       *)
(* in-memory content, chunks and raw blocks, and whether the terminating   *)
(* chunk was written.                                                      *)

Message == [ status : Statuses, minor : {0, 1}, length : Nat \cup {NoLength},
             te : BOOLEAN, ka : BOOLEAN, content : Nat, chunks : Nat, raw : Nat,
             last : BOOLEAN ]

\* reply::to_buffers
ToBuffers(r) == [ status |-> r.status, minor |-> r.minor, length |-> r.length,
                  te |-> r.te, ka |-> r.ka, content |-> r.content, chunks |-> 0,
                  raw |-> 0, last |-> FALSE ]

\* Mutant of DataToBuffersReply: an exhausted stream is not deleted.
DataToBuffersReplyKeeps(r) ==
    IF r.data \in {NoData, 0} THEN r ELSE [r EXCEPT !.data = @ - 1]

\* reply::data_to_buffers: what becomes of the reply, and of the message on the
\* wire; nothing is written when the stream is absent, or raw and exhausted.
DataToBuffersReply(r) ==
    CASE r.data = NoData -> r
      [] r.data = 0      -> [r EXCEPT !.data = NoData]
      [] OTHER           -> [r EXCEPT !.data = @ - 1]

DataToBuffersEmpty(r) == r.data = NoData \/ (r.data = 0 /\ ~r.chunked)

DataToBuffersMessage(r, m) ==
    CASE DataToBuffersEmpty(r)              -> m
      [] r.data > 0 /\ r.chunked            -> [m EXCEPT !.chunks = @ + 1]
      [] r.data = 0 /\ r.chunked            -> [m EXCEPT !.last = TRUE]
      [] r.data > 0 /\ ~r.chunked           -> [m EXCEPT !.raw = @ + 1]

-----------------------------------------------------------------------------
(* Framing: a client can tell where the body of a finished message ends.   *)

ChunkFramed(m) ==
    /\ m.minor = 1
    /\ m.length = NoLength
    /\ m.content = 0 /\ m.raw = 0
    /\ m.last

LengthFramed(m) ==
    /\ m.length = m.content + m.raw
    /\ m.chunks = 0 /\ ~m.last

WellFramed(m) == IF m.te THEN ChunkFramed(m) ELSE LengthFramed(m)

\* Halfway: what m announced is what was written of it plus what is left in the
\* stream of reply r.
Accounted(r, m) ==
    /\ m.te => /\ m.minor = 1 /\ m.length = NoLength
               /\ m.content = 0 /\ m.raw = 0
               /\ r.chunked
               /\ m.last <=> r.data = NoData
    /\ ~m.te => /\ m.length = m.content + m.raw + (IF r.data = NoData THEN 0 ELSE r.data)
                /\ m.chunks = 0 /\ ~m.last
                /\ r.data # NoData => ~r.chunked
=============================================================================
