--------------------------- MODULE RequestHandler ---------------------------
(***************************************************************************)
(* server::handle_request as a connection sees it: what becomes of the     *)
(* connection's reply object when a request is handed to the controllers.  *)
(*                                                                         *)
(* The controllers are the program that uses the library.  What one of     *)
(* them did to the reply is an outcome: the member it called last, the     *)
(* blocks it supplied, and whether it then threw.                          *)
(***************************************************************************)
EXTENDS MessageParser, Reply

CONSTANTS
    Outcomes,               \* what the controllers may do
    HasTemplateProcessor    \* server::has_template_processor

ControllerOutcome == [ effect : {"none", "content", "stock", "stream", "pipe"},
              blocks : Nat,
              throws : BOOLEAN ]

ASSUME OutcomesAssumption == Outcomes \subseteq ControllerOutcome
ASSUME HasTemplateProcessorAssumption == HasTemplateProcessor \in BOOLEAN

\* The methods handle_request does not refuse.
SupportedMethods ==
    {<<"GET">>, <<"POST">>, <<"PUT">>, <<"OPTIONS">>, <<"HEAD">>, <<"DELETE">>}

\* request::get_header("Connection"): the value of the first one.
ConnectionHeader(req) ==
    LET found == {i \in DOMAIN req.headers : IsName(req.headers[i], "Connection")}
    IN  IF found = {} THEN <<>> ELSE req.headers[Min(found)].value

\* request::keep_alive
KeepAlive(req) == req.minor = 1 /\ ConnectionHeader(req) = <<"keep-alive">>

\* A controller's work on the reply; "pipe" is a stream that cannot seek.
Effect(rep, outcome) ==
    CASE outcome.effect = "none"    -> rep
      [] outcome.effect = "content" -> SetContent(rep, outcome.blocks)
      [] outcome.effect = "stock"   -> Assign(rep, StockReply("not_found"))
      [] outcome.effect = "stream"  -> SetStream(rep, outcome.blocks, TRUE)
      [] outcome.effect = "pipe"    -> SetStream(rep, outcome.blocks, FALSE)

\* error_handler::create_error_reply: with a template processor the page is
\* rendered into the reply, otherwise a stock reply is assigned to it.
CreateErrorReply(rep, status) ==
    IF HasTemplateProcessor
    THEN SetStatus(SetContent(rep, PageLength), status)
    ELSE Assign(rep, StockReply(status))

\* server::handle_request: pessimistically not found, then the method check,
\* the controllers, the HEAD rule, and the error handler for an exception.
HandleRequest(req, rep, outcome) ==
    LET initial == Assign(rep, StockReply("not_found"))
        worked  == Effect(initial, outcome)
    IN  IF req.method \notin SupportedMethods
        THEN CreateErrorReply(initial, "bad_request")
        ELSE IF outcome.throws
        THEN CreateErrorReply(worked, "internal_server_error")
        ELSE IF req.method = <<"HEAD">>
        THEN SetContent(worked, 0)
        ELSE worked
=============================================================================
