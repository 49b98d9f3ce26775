# A TLA+ development of libzeep

libzeep is a C++ library for web applications: an HTTP server with
controllers, templates and a security context, on top of an XML library (parser, DOM,
XPath, validation) and a JSON library.  This directory holds TLA+ models of these parts,
written from the sources in `src/`, the TLC configurations that check them, and proofs
about them that TLAPS checks.  Three kinds of model stand side by side: state machines of
what runs concurrently or over many requests (connection, preforked server, daemon, site),
state machines of objects that a program uses call by call (XML parser, child lists, scopes,
hash objects), and functions that are compared with a definition that does not follow the
code (XPath, expressions, templates, encodings, JSON).

## The system

| part | state it keeps | operations | talks to | what is hard | what makes it correct |
|---|---|---|---|---|---|
| request parser (`message-parser.cpp`) | automaton state, counter, headers, payload | `parse`, `get_request`, `reset` | called by connection | fragmentation, pipelining, unsigned counter, state left over | what is delivered is what was sent; no undefined call for any input |
| connection (`connection.cpp`) | socket, buffer, parser, reply, `m_keep_alive` | `start`, `handle_read`, `handle_write` | io_service callbacks; `server::handle_request` | one object for many requests, bytes already read | replies framed, every request answered, no leak between requests |
| reply (`reply.cpp`) | status, headers, content or stream, chunked flag | `set_content`, `set_version`, `operator=`, `reset`, `to_buffers`, `data_to_buffers` | controllers, connection | partial copies, HTTP/1.0 and streams | announced length is the written length |
| request (`request.cpp`) | headers, parameters, payload | `keep_alive`, `get_parameter(s)`, `get_cookie` | controllers | multipart and url decoding | what a browser encoded is decoded |
| server (`server.cpp`) | controllers, error handlers, acceptor, threads | `bind`, `run`, `handle_accept`, `handle_request` | controllers, security, error handlers | exceptions half way, order of controllers | one controller answers, an exception gives an error reply |
| error handler (`error-handler.cpp`) | template name | `create_error_reply` | template processor, reply | laid over a half-made reply | always a complete reply |
| preforked server (`preforked-server.cpp`) | per thread: child pid, descriptor, socket | accept, start, pass, stop, destroy | child processes, kernel | fork in a threaded process, crashes, bounded waits | no connection lost silently, no child left |
| daemon (`daemon.cpp`) | pid file, signal mask, restart counter | start, stop, reload, status, main loop | preforked server, signals, file system | signal windows, overlapping commands | one daemon, truthful status, bounded restarts |
| controllers (html, rest, soap, login) | mount points | `dispatch_request` | request, reply, template processor | path matching | the right handler, or not found |
| security context (`security.cpp`) | rules, secret, users | `validate_request`, `add_authorization_headers`, `get_csrf_token` | server, login controller | order of rules, expiry | no rule is bypassed |
| templates (template-, tag-processor, el-processing, format) | scope stack | `process_tags`, `evaluate` | XML DOM, JSON | nesting, evaluation order | scoping |
| glob (`glob.cpp`) | none | `glob_match` | security | `**`, alternatives | agrees with the language it denotes |
| XML (parser, node, document, doctype, xpath) | tree, entity stack, validator state | parse, insert, erase, evaluate, validate | templates, soap | linked lists, recursion of entities | tree well formed, validation is the content model |
| JSON (element, parser) | tagged union | assign, insert, parse | rest, templates | ownership | value semantics |
| crypto, encodings | none | base64, hex, hashes | security | boundaries | decode after encode is the identity |

A listening server hands each accepted socket to a `connection`, which feeds the bytes
it reads to its parser and each finished request to `server::handle_request`; the
controllers fill the connection's reply, and the connection writes it.  In a daemon the
listening process is a preforked server: it only accepts, and passes the sockets to
child processes, each with a server of its own.

## Modules

| module | models | source it follows |
|---|---|---|
| `MessageParser` | the parser object as a record, each member function as an operator from the object and the next symbol to the object and a tribool | `message-parser.cpp` 19-369 |
| `Reply` | the reply object as a record, its members as operators; what goes over the wire as a `Message` | `reply.cpp` |
| `RequestHandler` | `handle_request`, `create_error_reply`, `keep_alive` as a connection sees them; extends the two above | `server.cpp`, `error-handler.cpp`, `request.cpp` |
| `Connection` | one connection with its client: the state machine of handlers | `connection.cpp` |
| `ConnectionProofs` | theorems about `Connection` | |
| `PreforkedServer` | master threads, objects, child processes, descriptors | `preforked-server.cpp` |
| `PreforkedServerProofs` | theorems about `PreforkedServer` | |
| `Daemon` | commands, daemon processes, signals, pid file, port | `daemon.cpp` |
| `DaemonProofs` | theorems about `Daemon` | |
| `Glob` | `expand_group`, `glob_match`, `Match`, and the language of a pattern as the reference | `glob.cpp` |
| `Site` | an application with its controllers, rules and error handlers, and browsers with their cookies; extends `Glob` | `server.cpp`, `security.cpp`, `controller.cpp`, `html-`, `rest-`, `soap-`, `login-controller`, `error-handler.cpp` |
| `SiteProofs` | theorems about `Site` | |
| `DocType` | content specifications and the state objects that validate against them, with the language they denote as the reference | `doctype.cpp` |
| `XmlParser` | the element and content part of the parser: open elements, their validators, entities, IDs; the states of the validators are parameters | `parser.cpp`, `doctype.cpp` |
| `XmlDocument` | `XmlParser` with the states of `DocType`, and what the two promise together | |
| `XmlParserProofs` | theorems about `XmlParser` | |
| `NodeSequence` | abstract specification: children are sequences edited at an iterator | what `node.hpp` promises |
| `NodeList` | the doubly linked list and its iterators; implements `NodeSequence` | `node.hpp`, `node.cpp` |
| `NodeListProofs` | theorems about `NodeList`, among them the refinement of `NodeSequence` | |
| `Chars` | the little of the C++ string library that several models need | external |
| `XPath` | abbreviations, grammar, axes, tests, predicates, functions | `xpath.cpp` |
| `Json`, `JsonParser` | `json::element`, its operators and its text; the lexer and parser | `element.cpp`, `parser.cpp` of lib-json |
| `ExpressionLanguage` | scopes, scanner, interpreter, links, selectors; over `Json` | `el-processing.cpp` |
| `TagProcessor` | `tag_processor_v2` and the csrf fields of the template processor | `tag-processor-v2.cpp`, `template-processor.cpp` |
| `Encodings` | base64, base64url, hex, URL escapes | `crypto.cpp` |
| `RequestData` | headers, cookies, parameters, multipart parts, files | `request.cpp` |
| `Hash` | `hash_base` and `HMAC` as state machines, blocks uninterpreted | `crypto.cpp` |
| `HashProofs` | theorems about `Hash` | |
| `RecursionTheorems` | induction and definition by recursion over the naturals, for the loops in the proofs above | |
| `Library` | one call at a time of the functions without state, beside a hash object; composes `Hash`, `Glob`, `JsonParser`, `Encodings`, `RequestData`, `TagProcessor` | |
| `MCConnection`, `MCPreforkedServer`, `MCDaemon`, `MCSite`, `MCXmlParser`, `MCNodeList`, `MCXPath`, `MCExpressionLanguage`, `MCLibrary` | instances for TLC | |

`PROJECT.json` maps each definition to its lines.  Definitions whose comment starts
with "Mutant" are wrong on purpose: each is what a plausible slip in the code would
give in place of the definition after it, and one property of one run must notice it.

### MessageParser

Input is a sequence of symbols.  The characters the automaton tells apart are symbols
of their own (CR, LF, blank, colon, ...); a run of ordinary characters is one symbol, a
word, because the automaton treats each of its characters the same way; words the code
compares with (`POST`, `Content-Length`, `chunked`, ...) are named.  A word counts as one
unit of a body's length.  The loop over the headers at the end of the header section is
not a loop in the model: `Scanned` is the set of headers it looks at, `Lengths`,
`ZeroLengths` and `Closers` are those it reacts to, and the last of them decides.  The
number in a header is read as a stream extracts an unsigned int: `Extract` gives 0 for
no digits and `UINT_MAX` for too many, and a blank value leaves the counter as it was.

### Reply and RequestHandler

Bodies are counted in blocks, a block being what one call of `data_to_buffers` takes
from a stream; of the headers only the three that frame a message are kept.  What a
controller did is an outcome: the last content it gave, and whether it then threw.
`reply::operator=` is `Assign`, which keeps stream and chunked flag of its left side;
that is the member most findings here are about.

### Connection

`pc` is the asynchronous operation under way (`reading`, `writing`), or the place in
`handle_read` (`parsing`, `request`, `bad`).  `ReadSome` commits any number of the bytes
that have arrived; `ParseSymbol` is a turn of the loop in `parse`; `Serve` is the whole
branch for a complete request, `Refuse` for a malformed one; `WriteMore`, `NextRequest`
and `Close` are the branches of `handle_write`; `ReadError` and `WriteError` are its
early return, after which nothing holds the object.  `sent`, `served` and `wire` are
history.

### PreforkedServer

A thread runs the handlers of any object, so `job` says whose handler it runs.  The
system calls of `handle_accept`, `start` and `stop` are separate steps because other
threads come between them.  Each end of a socket pair has the set of processes that
hold it; `Fork` adds the new child to every set the master is in.  `status` in `stop()`
is not initialised, so `SendFails` chooses what it looks like.  `Die` is the kernel
closing descriptors: what is queued in a pair nobody can read any more is lost.

Which failures happen is a constant of the instance (`Crashes`, `SendFailures`,
`StartFailures`, `AcceptErrors`).  With `QuietStop` the master is only stopped while no
handler runs.  Without it a thread may destroy its object while another thread runs the
object's handler, which is undefined behaviour and is left out; with one thread it
cannot happen and `QuietStop` is off.

### Daemon

`Start`, `RemoveStale`, `TestBind`, `TestUnbind`, `Daemonize`, then the main loop from `Launch` to
`Leave`.  A signal is pending while it is blocked, ends the process when it is SIGINT and not
blocked, and is discarded when it is SIGCHLD or SIGHUP and not blocked.  The preforked server is
reduced to its thread, which binds the port, serves, and returns when stopped.  The port is held by
the process that bound it or by a child that inherited the listening socket
(`preforked-server.cpp:154`): when a daemon is killed, `DieOf` leaves open whether a child lives on,
and with it the port, until the orphans read end of file (`OrphansEnd`).  A `Join` frees the port,
because `stop` waits for the children; that is what `CleanShutdown` and `StopReturns` of
`PreforkedServer` say.  `overlapped` records that a command was given before the previous one had
its effect.

### DocType, XmlParser and XmlDocument

`DocType` has the content specifications and the state objects of `doctype.cpp` as one
record per node of the tree: `Allow` is the virtual function of the same name, with an
operator per class, and returns the new tree, the answer and whether the content may
end.  The reference next to it is the language of the specification by residuals
(partial derivatives); it shares no definition with the states.  The module uses
RECURSIVE operators, so it is only model-checked.

The parser knows those states only by their virtual functions, and so does `XmlParser`:
`allow`, `allow_empty`, `get_content_spec` and two constructors are constants of the module,
about which it assumes nothing.  What it proves holds whatever they answer.  `XmlDocument`
brings `XmlParser` and `DocType` together and states what depends on both (`Sound`,
`Justified`); the configuration gives the constants the operators of `DocType`.

`XmlParser` is the recursive descent of `element` and `content` with the C++ stack as
the variable `frames` (the document, open elements with their validator, entities with
the text that is left).  A token is what `get_next_content` returns; a start tag with
its attributes is one token.  `StartTag` and `EndTag` are `element`, `Data`, `Reference`
and `EntityEnd` the cases of `content`, `Misc` and `DocumentEnd` the rest of `parse`.
`not_valid` throws only while validating.  Going through an iterator at the end of its
list gives the verdict `"undefined"`.  Left out: name spaces, reading the declarations,
characters and encodings, how a value is split into names.

### Glob and Site

`Glob` is the recursive matcher as it is written, and `Denotes` the reference: a pattern
is cut into items (`**/`, `**` and single symbols) and the path into as many pieces.  The two
agree on every `PlainPattern`, one without groups, alternatives, a slash at its end or three
stars in a row.  Patterns with groups, empty and nested options, alternatives and a slash at the
end are given to TLC as trees: `GlobAgrees` compares `glob_match` of the text with the union of
what the plain patterns the tree stands for denote.

The server keeps no state between requests; a session lives in the cookies of a browser.
So `Site` has as its state what browsers hold (`csrf-token`, the access token with its
signature, the form that is shown, the redirect that is due) and the secret of the server,
and an action is something a browser does with all that `server::handle_request` does
about it: `Visit` a path with a method, `Submit` the login form, `Follow` a redirect,
`Forget` the cookies, and `Restart` of the server, after which old signatures no longer
count.  `HandleRequest` has the order of the code, in which each step may throw: rights,
csrf token, controllers in order, then the error handlers.  What the application set up is
the constant `Application`, the calls `add_rule` and `add_controller` in the order they
were made; the properties read the intention from those calls, not from the lists the code
makes of them.  Paths are in the normal form of `request::get_path`.  A session is history:
`Submit` begins one when the login succeeds, and `Visit` or `Follow` of the logout page ends
it.  `AsUsual` says how an application is put together (a login controller first, at the root),
`RulesAsGiven` and `MountsAsGiven` what its rules and mounts have to be: their patterns are
plain (`PlainPattern`), the login page is open to everybody, a SOAP service has a name, a REST
mount begins without a slash.  `MCSite` assumes the three of its application, so TLC evaluates
them.  `RightPage` reads the mounts by itself: `RestDenotes` says which paths a REST mount stands for
without the expression the code makes of it.  It is silent about requests that are for a SOAP
service (`ForService`).  `FormsAccepted` says that a form sent back
with the csrf cookie it was given with is refused neither as forged (`forbidden`) nor by
`validate_request` (`unauthorized`).

### NodeSequence and NodeList

`NodeList` has cells with `m_next`, `m_prev`, `m_parent`, `m_head` and `m_tail` of every
list, and one iterator a program holds, with its `m_at_end`.  An action is a member
function of `basic_node_list`, `node_list` or `element`; `delete` frees every cell
reached through `m_next`, as the destructor does.  `NodeSequence` is the abstract
specification without pointers; `ImplementsSequence` is
`NodeSequence!Spec` under the mapping `seq <- [e \in Elements |-> List(e)]`, `what <- heap.what`, which TLC
checks as a property of every step and `NodeListProofs` proves.  Where
the code departs from its comments, the sequence says no more than holds of both: of texts behind
each other in `set_content`, of the second element of a range, and of iterators over elements that are
moved back (see below).  An `insert` or `emplace` converts its iterator, and the conversion skips
to the next element or the end (`node.hpp:465`); `NodeList` and `NodeSequence` both say so.

### XPath

A document is numbered in document order, so that the reference definitions of the axes are
comparisons of numbers while the code climbs and descends.  `Preprocess` works on the tokens of the
text, `Parse` is the recursive descent, `Evaluate` the virtual function of the same name.
`Construct` is the constructor with an expression written in full or with abbreviations (`Written`
is how a person writes the tree that was meant), `SetVariable` and `EvaluateQuery` are
`context::set` and `evaluate`.  Numbers are integers.

The reference for axes, tests and places is XPath 1.0, which `lib-xml.qbk:123` claims.  `Selects` sets
aside what the code does otherwise: the document and texts on some axes, all axes from a node that
is no element, places on `preceding`, unions and paths that hold a node twice (see below).

### ExpressionLanguage, Json and JsonParser

The interpreter evaluates while it parses: an operator returns the value and the place after it.
Scopes are a chain that is entered and left (`Enter`, `Leave`), extended by `z:with` (`With`),
looked up with the side effect of the non-const `lookup` (`Touch`), and hold the selected object.  A
float counts halves, below a million, and is written with six digits as a stream does; results the
C++ standard leaves open are `Unspecified`.  `JsonParser` is the lexer character by character.

### TagProcessor

The tree is a value that the handlers rewrite; the iterator over children that are being
erased and multiplied is the split of a sequence into what is done and what is left.
Every attribute handler is an operator of its own, called in the order of the precedence
table.  The reference (`MeantElement`) says what a page is to look like without an order of
processing; `z:text` and `z:utext` replace the whole body, as `lib-http.qbk:598` says.  Pages for
which documentation and code leave no common reading (see below) are processed by the model, and
compared only as far as they are `Ordinary` and their texts are replaced (`TextsReplaced`).

### Hash, Encodings, RequestData, Library

`Hash` has the bytes a hash object has transformed and those it keeps; `update`, `final`
and HMAC's key blocks are actions.  `Library` has a call with its arguments as its state;
each property is about calls of one kind.  `encode_base64` aborts where the assertion at its end
(`crypto.cpp:245`) fails.

## Runs

| run | instance | properties |
|---|---|---|
| `connection_delivery` | two messages, well formed (lengths, chunks with extensions, folded headers, both framings, bodies that look like line ends) or damaged, reads of every size the buffer allows | `TypeOK`, `ParserIsSafe`, `Delivered`, `KeptAlive` |
| `connection_replies` | two messages of five kinds, ten outcomes of a controller, with a template processor | `FramedReplies`, `NoStaleStream`, `Answered` |
| `prefork_one` | 1 thread, 3 children, 3 clients; crashes, failing calls and sends | `InGoodHands`, `Served` |
| `prefork_two` | 2 threads, 2 children, 2 clients; crashes, failing calls, failing accepts | `TypeOK`, `CleanShutdown`, `OnePlace`, `StopReturns` |
| `daemon_commands` | 2 starts, 2 stops or reloads, 2 crashes, limit of 2 restarts | `StatusTruthful`, `OneDaemon`, `LaunchBound`, `BindSucceeds`, `StopEnds` |
| `site_sessions` | one browser, 12 paths, 6 methods, 3 users, 2 csrf tokens, 1 restart; five controllers and three overlapping rules | `AccessAsConfigured`, `RightPage`, `LeadsBack`, `FormsAccepted` |
| `site_firstform` | a browser that comes for the first time | violates `FirstFormAccepted` |
| `xml_documents` | documents of 5 or 6 tokens; 160 content models over two or three names; nine entities; attributes of eight types; validating and not | `Sound`, `Justified`, `EntitiesNest` |
| `node_edits` | two elements, four cells, symmetric | `WellLinked`, `ImplementsSequence` |
| `xpath_queries` | a root, three nodes and an attribute in every shape; expressions of one or two steps with predicates; laws of the functions | `ReadAsMeant`, `Selects`, `Lawful` |
| `expression_pages` | expressions of up to three operators, texts of up to three pieces, links of up to two parameters, three scopes | `ValueAsMeant`, `ScopesAsCopies`, `PiecesKept` |
| `library_calls` | blocks of 4 bytes, messages of up to 9 bytes, two messages; patterns with groups and alternatives; pages with every two attributes, alone or in a loop, and every pair of neighbours | `Collected`, `Padded`, `EncodingsInvert`, `RequestRead`, `GlobAgrees`, `ValuesKept`, `PageAsMeant` |

Why the bounds are enough.  State of a connection is carried over from one request to the
next only, so two requests show every leak; the damaged messages bring the automaton into
each of its states and then feed it a symbol it has no use for.  A child is forked anew
after one has died, and a third after that; two threads are enough for one to come between
two steps of the other.  Two crashes reach the limit of restarts.  Browsers share nothing
on the server, so one is enough; the paths meet every controller, a prefix that ends in
the middle of a name, and every pair of overlapping rules.  Six tokens are a root with four
children, enough to enter a repetition twice and leave it; five are enough to reach the end
tag after an entity inside an entity, and to put an ID before and after two references to
it.  An edit of a list touches a cell and its two neighbours, so four cells hold an edit
and a bystander, in the same list or in the other.  Every axis that looks beside a node
needs a sibling and a child of it.  Three operators are one on each side of another.  Nine
bytes are two blocks and one, and the length field leaves two places in a block of four, so
the last block is short, just full, and too full for it.

One run violates its property, which is what the documentation says; `findings` in
`PROJECT.json` quotes the line.  `site_firstform`: the login form that a refused first
request brings up has no csrf token, because rights are checked before a token is
made, so that the first login of a new browser is refused; `FormsAccepted` in
`site_sessions` says that every form that was given with a token is accepted.

### What passing runs set aside

Here too the code disagrees with its documentation, its comments or an assertion of its own.  The
models follow the code; a property that would be violated excludes just this, and its comment says so.

- `FramedReplies`: without a template processor, a stream given before an exception is written behind the
  error page (`reply.cpp:163`, `error-handler.cpp:167`; `lib-http.qbk:695` has exceptions turned into
  sensible replies).
- `StatusTruthful`: a `start` that tested the pid file before another daemon wrote it removes it as stale
  (`daemon.cpp:54-61`), and `status` does not find that daemon (`daemon.hpp:28`).
- `RightPage`: the constructor of `soap_controller` takes the slash off its prefix
  (`soap-controller.hpp:93`), so that no path begins with it and the service is not reached
  (line 85, `lib-http.qbk:50`).  A REST mount with a leading slash gets two of them
  (`rest-controller.hpp:182`) and matches nothing (437 shows one).
- `ImplementsSequence`: `set_content` leaves every second of adjacent texts (`node.cpp:735`; `node.hpp:1553`
  says that one text is left); an inserted range is spread over the nodes that were there (`node.hpp:1373`;
  1367 says at `pos`); `--` at the end of a list gives a text for an element (`node.hpp:604`, 434).
- `Selects`: `parent::*` of the root gives the document and `ancestor::node()` does not
  (`xpath.cpp:672`, 464); the axes beside a node show elements only (488, 516); from a text or an
  attribute every axis is empty (665); `preceding` puts an element before what is inside it (492);
  unions and paths may hold a node twice (1627, 1044).  `lib-xml.qbk:123` calls it an XPath 1.0
  implementation.
- `EncodingsInvert`: the assertion `crypto.cpp:245` fails when the last line is just full.
- `RequestRead`: a parameter given as `a=` counts as absent (`request.cpp:205`; `request.hpp:214`).
- `PageAsMeant`: `z:utext` leaves the elements of a body in front of its text (`node.cpp:731`;
  `lib-http.qbk:598` says that the body is replaced).

### Met on the way

What the models follow because the code does it, and no run is about.  Where a property
excludes it, the comment of the property says so.

- Request parser: `reset` keeps headers and payload, so those of a rejected request become
  part of the next one (`message-parser.cpp:40`).  A POST with `Connection: close` and no
  length enters `parse_content` with `m_chunk_size` 0, which wraps around.
- Connection and reply: `m_keep_alive` is never cleared, so `Connection: close` after a kept-alive
  request is not honoured.  `get_chunked` answers for an earlier reply because `m_chunked` survives
  `reset`.
- Preforked server: children inherit the socket ends of their siblings
  (`preforked-server.cpp:149`), so a connection may be passed to a dead child while a
  sibling holds its descriptor.  The status in `stop()` is not initialised, and the kill
  that follows is not waited for.  The destructor of `child_process` finds a child after
  every normal stop, where the comment says "should never happen".
- Daemon: `reload` ends the daemon (`daemon.cpp:97`; `daemon.hpp:81` says it restarts).  A
  `start` finds the port taken while children of a killed daemon still hold it.
- Controllers: `rest_controller` discards the result of `decode_url`; a status thrown by a
  REST handler is overwritten by `set_content`; replies to HEAD are always ok.
- Validation: a sequence is done after any child it allowed, so `(a,b)` accepts `a` alone
  (`doctype.cpp:320`; `README.md:30` speaks of strict validation).  A `+` that was satisfied
  once refuses what follows it, and a choice answers for its last part only (`Recognised`
  says for which models `Justified` holds).  A parser that does not validate goes on with a
  sequence whose iterator is at the end.  The middle one of three references in an IDREFS
  attribute is cut wrongly (`parser.cpp:3617`, `RefsIn`).  A reference to a character that
  is not white space passes in element content.
- DOM: `processing_instruction::clone` passes its target twice; `element::operator=` does
  not copy the name; `element::equals` overlooks the last attribute; `attribute::swap`
  leaves `m_id`; `insert(pos, first, last)` does not end unless `pos` is the beginning.
- XPath: `.` alone and `/` at the end of a path are lost by `preprocess`; `.` after
  an operator is the number 0; `and`, `or`, `mod`, `div` are always operators, so `//div` is
  not a path; `substring` makes a null expression; `sum` and `comment` throw; `operator<` on
  objects of different types reads a member that was not set.
- JSON: `{}` and `[]` are read as null; keys are written unescaped; the first of two equal
  keys wins; a number that ends after its `e` never ends (`parser.cpp:379`); the const
  `operator[]` inserts missing keys; unary minus changes its operand.
- Expressions: both branches of `?:` are evaluated; `==` and `<` do not chain; a lone `!`
  becomes `!=`; blanks and quotes at the front of `|...|` are lost; a value in a link's path
  is not encoded, and if it holds `{b}` it is filled again by a parameter `b`; `a-b` is one
  name; looking a name up creates it in the outermost scope.
- Numbers (not modelled): `lib-http.qbk:271` gives 03.1415 for `formatDecimal(pi,2,4)`, where
  rounding gives 03.1416.
- Templates: of `[[a]][[b]]` the second stays as it is (`tag-processor-v2.cpp:195`); an
  expression that throws inside `[[ ]]` is tried for ever (176); `[(x)]` with markup loses
  the text before it and writes the text after it twice; children of `z:block` and of
  `remove="tag"` are not cleaned up; inserted content is processed twice; `assert` throws when
  its value is not true (`tag-processor-v2.cpp:420`; `lib-http.qbk:465` says when it is); a `switch` finds
  the cases of a nested one; a fragment that includes itself recurses without end.
- Encodings and requests: `decode_base64` refuses two pads on two lines, which `encode_base64`
  writes; `encode_url` leaves `+`, which `decode_url` reads as a blank; `decode_hex` writes
  with the index of the input; `HMAC::final` without `update` leaves the key out;
  `remove_header` and `get_cookie` tell case apart where `set_header` and `set_cookie` do
  not.

## Fairness

- `Connection`: weak fairness of all handler steps together (`Progress`): asio runs the
  handler of a completed operation, and bytes that have arrived complete a read.
  Errors and what the client does are not fair.
- `PreforkedServer`: weak fairness per thread and per child: the kernel schedules them.
  Clients, crashes, failing accepts and `stop` are not fair.
- `Daemon`: weak fairness of each command under way, of the main loop, of the server's
  thread; giving a command and a crash are not fair.  A daemon may wait for a signal for
  ever, so deadlock is not checked there.
- `Site`, `NodeList`, `XPath`, `ExpressionLanguage`, `XmlParser` and `Library` state no
  fairness and no liveness: their actions are calls that a caller may make or not, and a
  call returns at once.  Library calls that do not return are listed above.  Deadlock is not
  checked where every bounded call has been made in the end.

## Proofs

Each theorem is about every value of the constants: the bounds of the runs are gone.
Each rests on an inductive invariant, which the initial states satisfy and every action
keeps; the proof of that has one step per action.

`ConnectionProofs`: every set of client messages, every buffer size, every `UINT_MAX`, every
set of controller outcomes.

- `TypeCorrect` (`TypeOK`) and `ParserSafety` (`ParserIsSafe`), by `SafetyInv`: types,
  `ParserSafe` of the parser wherever it is (a rejected request leaves it in the state it was
  in, so the invariant cannot be limited to reading and parsing), and that a message is on
  the wire while one is written.  One lemma per member function of the parser.
- `StreamsFinished` (`NoStaleStream`) and `RepliesFramed` (`FramedReplies`), assuming
  `StreamsKept`: a controller that has given a stream throws only if there is a template
  processor.  Without one the error reply is laid over a reply that keeps its stream, so
  the assumption is needed; `connection_replies` has one.
  `FramingInv` follows a message while it is written: what was announced is what was written
  and what is left in the stream (`BodyAccounted`), which ends as `FramedReplies` when nothing
  is left; `NoStaleStream` is needed for the next reply to start from an account of 0.
- `AnnouncementsKept` (`KeptAlive`), by `AliveInv`: if the message being written announces
  Keep-Alive then `m_keep_alive` is set and the request it answers asked for it.
- `RequestsDelivered` (`Delivered`), for any number of pipelined messages and
  every way of cutting them into reads, assuming `Readable`: the parser understands each
  well-formed message when it is given it alone.  `MCConnection` assumes it of its messages by
  running the parser over each (`MessagesReadable`).  `DeliveryInv` relates three pieces of state
  to the stream of all that was sent: buffer and socket hold what was not parsed, the parser is
  where it would be in the current message had it read that alone, and the messages
  before are the requests served.  It may fail only once a malformed message was met, and
  `Delivered` says nothing about what comes after that.

`PreforkedServerProofs`: any number of threads, children and connections.

- `TypeCorrect` (`TypeOK`), by `HandlerInv`: types, no two threads in a handler of one object,
  and what a handler has in its hands while it runs.
- `ConnectionInOnePlace` (`OnePlace`), by `PlaceInv`: who holds a socket, and that a connection
  is queued at most once.
- `ShutdownIsClean` (`CleanShutdown`), assuming `Calm`: `stop` comes while no handler runs, or
  there is one thread; and `sendmsg` fails only if the child is gone.  Both are needed, see
  `PreforkedServer` above and the uninitialised status in `stop()`.  `ChildInv` (`m_pid` and `m_fd` belong
  together outside `start` and `stop`), `EndInv` (no handler runs once an object is
  destroyed) and `CleanInv` (a child that is there is the child of an object that is not done).
- `QueuedInGoodHands` (`InGoodHands`), assuming `OneThread`: with two threads a child inherits
  the descriptors of its siblings and the property is false.  `HandsInv` has the holders
  of a pair's reading end.

`DaemonProofs`: any number of processes, commands and crashes, every limit.

- `TypeCorrect` (`TypeOK`) and `LaunchesBounded` (`LaunchBound`), by `ProcessInv`: a server thread
  belongs to a process in its main loop, every launch but the current one was counted, a command
  signals a process that it remembers.
- `StatusIsTruthful` (`StatusTruthful`) and `DaemonIsAlone` (`OneDaemon`), by `SerialInv` as
  well: while no two commands have overlapped, at most one process is alive, the pid file
  names a daemon that was not sent a signal, and a `stop` under way goes for the process that
  is alive.
- `BindsSucceed` (`BindSucceeds`), by `PortInv` on top of these: while commands do not overlap,
  nobody, orphans of a killed daemon included, holds the port that a process has tested and is
  about to bind.

`SiteProofs`: any number of browsers and users, every application that is `AsUsual` and whose
rules are `RulesAsGiven`.

- `PatternsAsMeant`: `glob_match` accepts a path for a plain pattern exactly when the path can be
  cut into pieces that fit the items of the pattern, for patterns and paths of every length;
  `GlobAgrees` checks the same of small ones, with groups and alternatives.  The search and the
  items are functions defined from the end of the pattern backwards (`MatchTries`, `ItemsAre`, by
  `Downward` of `RecursionTheorems`), and the two agree at a place if they agree behind it: one
  lemma per way a pattern goes on (`OneCharacter`, `StarInside`, `StarAtEnd`, `StarsAndSlash`,
  `StarsAtEnd`, `StarsInside`).  Names have no backslash, which the code takes for a slash in
  some places and not in others.
- `AccessIsAsConfigured` (`AccessAsConfigured`), `LoginLeadsBack` (`LeadsBack`) and
  `FormsAreAccepted` (`FormsAccepted`).  `SiteInv` says that what a browser holds belongs
  together (`Belong`): its access token is that of the session it began, its form
  carries the csrf token of its cookie, its redirect leads to what the session wanted.
  The lemmas follow a request through the code: `RuleIsRequired` (the
  rule that is found is the one meant), `Dispatched` (what the loop over the
  controllers makes of a request), `Answered` and `FormAnswered` (what the reply is).
- `PagesAreRight` (`RightPage`), whose mounts are `MountsAsGiven` besides.  `LeftOverIs` shows that
  what `get_prefixless_path` gives is the only thing a path can have left behind a prefix, `Served`
  that the loop over the controllers ends with the first mount that fits, and `RightDispatch` that
  it is the one `Candidates` names.  `RestIs` shows that the expression the code makes of a REST
  mount without a leading slash matches what the mount stands for.  Requests for a SOAP service are
  set aside (`ForService`); it needs a name, since without one it would answer for the front page.

`NodeListProofs`: `ListsStayLinked` (`WellLinked`), any number of elements and cells.  `NodeInv`
says for every element that there is a sequence of cells which its pointers spell
(`Good`), and that the iterator shows a cell of its list or none (`IterOK`).  Lemmas say what
insertion and erasure of a cell make of that sequence; the members of `element` that
loop over a list are proved by induction over the turns of the loop.

The same module proves the refinement: `ListsAreSequences` (`ImplementsSequence`), any number of
elements and cells and every set of contents: `NodeList` implements `NodeSequence`, with the freedom
it leaves where comments and code differ.

- `InitSeq` and `NextSeq` are the two facts of a refinement; `NextSeq` has one lemma per action,
  each from `NodeInv` alone, so `ListsStayLinked` supplies all that the steps need.
- `Lists(h)` are the sequences that the pointers of a heap spell.  `Edits`, `Puts`, `Takes` and `Frees`
  say what a member function makes of them and of the cells; each is proved once for `insert_impl`,
  `erase_impl`, the destructor and the copies, and the actions follow from the lemmas.
- A member function with a loop is one step of `NodeSequence`, which says in one formula what is
  left in the end.  The loop goes through an invariant that relates the list so far to
  the one before the call: `ErasedSome` (what was removed, and which cell is next), `ContentTo` (every
  other text of a run before the place is gone, and the rest is as it was), `FlattenTo` (the
  runs before the place are merged).  A lemma shows that a turn keeps it, and `UpTo` of
  `RecursionTheorems` makes the induction.

`XmlParserProofs`: all declarations, all documents of any length, whatever the states of the content
models answer.  The assumption `ScenariosAssumption` says that there are finitely many
entities, whose texts are sequences of tokens, and that attribute values are sequences of names.

- `ElementsEndWhereTheyBegan` (`EntitiesNest`), by `NestInv`: for every element on the stack the
  entity it began in is the innermost one below it (`ElementsInPlace`), so the top of
  the stack can only end in that entity; and the entities on the stack are declared and different
  from each other (`EntitiesApart`), except that a parser which does not go on may leave the
  reference it refused on top.  Their number follows from an injection into the declarations.
- `AttributesAreRight` (`AttributesRight`, the first conjunct of `Sound`), by `AttrInv`: while a
  validating parser goes on, `m_ids` are the IDs of the attributes read so far, each of one
  attribute only, and every reference in them is in `m_ids` or in `m_unresolved_ids` (`Accounted`).
  The attributes of one tag are read in a loop, whose invariant `Taken` relates the account to the
  one before the tag (`AttributesLoop`).  The end of the document finds `m_unresolved_ids` empty or
  is refused. The code cuts the middle one of three IDREFS wrongly; `RefsInAre` shows that this can
  only refuse documents, since no ID is as long as the piece that is looked for.

`HashProofs`: `BytesCollected` (`Collected`) and `MessagesPadded` (`Padded`), every size of block,
every length field smaller than a block and every digest.  `HashInv` needs besides
both properties that an object that was not updated has been given nothing.

`RecursionTheorems` has induction over the naturals and definition by recursion, upward and
downward, with a set in the place of a predicate.  The library's theorems on this take an operator as a
parameter, which the provers cannot instantiate; a set they can, so that loops
written as recursive functions can be proved about.

Only model-checked:

- liveness (`Answered`, `Served`, `StopReturns`, `StopEnds`): fairness and `ENABLED` are out of this
  prover's reach;
- what is built on a RECURSIVE operator (`DocType`, and with it the part of `Sound` about content
  and all of `Justified`; `XPath`, `Json` and `JsonParser`, `ExpressionLanguage`, `TagProcessor`,
  `Library`): the trees there are of any depth, and the prover loses its SMT backend in every module
  that reaches such an operator;
- `GlobAgrees` for patterns with groups and alternatives.

## Not modelled, and plan

Not modelled for good: the functions on blocks of MD5, SHA1 and SHA256 (arithmetic on words
that TLC cannot enumerate; `Hash` leaves them uninterpreted), the formatting of numbers
(`format.cpp`: double arithmetic), resource files and the loading
of templates (file access without state), dates, locales and the log (formatting), users and
groups (system calls once at the start), compile-time serialisation and the conversions of
parameters (templates without state), characters and encodings of XML (a table).

What is left, in order of importance:

1. Proofs about `DocType`: what its states accept, with the trees of content specifications
   as functions on a set of nodes instead of RECURSIVE operators.
2. An abstract HTTP exchange (requests in, one reply each, in order), with `Connection`
   shown to implement it; `Site` in place of `RequestHandler`'s outcomes.
3. XML: name spaces and the reading of declarations in `XmlParser`; namespaces and
   comparison of nodes.
4. `reply_parser`, `run_foreground`, `tag_processor_v1`.
