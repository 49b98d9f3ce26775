-------------------------------- MODULE Site --------------------------------
(***************************************************************************)
(* A web application built on the library, and the browsers that use it:   *)
(* the controllers (controller.cpp, html-, rest-, soap- and login-         *)
(* controller), the security context (security.cpp), the error handlers    *)
(* and server::handle_request, which puts them together.                   *)
(*                                                                         *)
(* The server keeps no state between requests: a session lives in the      *)
(* cookies of the browser, so what is hard is that the right things happen *)
(* over several requests.  An action is something a browser does, with all *)
(* that server::handle_request does about it.  Threads serve requests at   *)
(* the same time, but share only what the application set up before.       *)
(*                                                                         *)
(* Paths are sequences of symbols as in Glob, in the normal form that      *)
(* request::get_path gives them: one slash at the front, none doubled.     *)
(***************************************************************************)
EXTENDS Glob, FiniteSets, TLC

CONSTANTS
    Setup,         \* the calls that configure the server, in order
    DefaultAllow,  \* security_context: defaultAccessAllowed
    ValidateCsrf,  \* security_context::set_validate_csrf
    Users,         \* user service: name -> [password, roles]
    Browsers,
    Paths,         \* the paths browsers ask for, and are sent to
    Methods,       \* the methods they use
    MaxTokens,     \* bound: csrf tokens ever made
    MaxRestarts,   \* bound: launches of the server after the first
    None

VARIABLES
    jar,      \* per browser: the cookies it sends, [access, csrf]
    page,     \* per browser: what it was last given
    secret,   \* the secret of this launch of the server
    tokens,   \* csrf tokens made so far: random_hash never repeats one
    session,  \* history: the user a browser has logged in as, and when
    event     \* history: what was done last, and by which browser

vars == <<jar, page, secret, tokens, session, event>>

Login == <<"/", "login">>
Logout == <<"/", "logout">>
FieldNames == {"_csrf", "uri", "username", "password"}
NoFields == [f \in FieldNames |-> None]

ASSUME SiteBounds == MaxRestarts \in Nat /\ MaxTokens \in Nat

\* None is none of the values it stands in for.
ASSUME NoneAssumption ==
    /\ None \notin Nat /\ None \notin Paths
    /\ None # {} /\ None \notin {"forbidden", "internal_server_error", "unauthorized"}
    /\ \A u \in DOMAIN Users, k \in 0..MaxRestarts :
        /\ [user |-> u, roles |-> Users[u].roles, secret |-> k] # None
        /\ \A w \in Paths \cup {None} : [user |-> u, launch |-> k, wanted |-> w] # None

-----------------------------------------------------------------------------
\* The configuration that the calls of Setup leave behind.

\* controller::controller: one slash at the front.
PrefixPath(given) ==
    IF given = <<>> THEN <<>>
    ELSE IF given[1] # "/" THEN <<"/">> \o given
    ELSE LET words == {i \in DOMAIN given : given[i] # "/"}
         IN  <<"/">> \o (IF words = {} THEN <<>>
                         ELSE SubSeq(given, CHOOSE i \in words : \A j \in words : i <= j,
                                     Len(given)))

\* soap_controller::soap_controller strips it again.
WithoutSlashes(path) ==
    LET words == {i \in DOMAIN path : path[i] # "/"}
    IN  IF words = {} THEN <<>>
        ELSE SubSeq(path, CHOOSE i \in words : \A j \in words : i <= j, Len(path))

m_prefix_path(c) ==
    IF c.kind = "soap" THEN WithoutSlashes(PrefixPath(c.prefix)) ELSE PrefixPath(c.prefix)

\* server::add_controller
Controllers == SelectSeq(Setup, LAMBDA s : s.call = "add_controller")

\* security_context::add_rule, which login_controller::set_server calls too.  Rules
\* are kept in the order of the calls: each has the place of its call.
Rules ==
    LET calls == {i \in DOMAIN Setup : \/ Setup[i].call = "add_rule"
                                       \/ Setup[i].call = "add_controller" /\ Setup[i].kind = "login"}
    IN  [i \in calls |->
            IF Setup[i].call = "add_rule"
            THEN [pattern |-> Setup[i].pattern, roles |-> Setup[i].roles]
            ELSE [pattern |-> Login, roles |-> {}]]

\* login_controller::set_server adds its error handler in front of the others.
HasLogin == \E i \in DOMAIN Controllers : Controllers[i].kind = "login"

-----------------------------------------------------------------------------
\* Replies: their status, what they show, and their Location and Set-Cookie headers.
NoBody == [kind |-> "empty"]
Error  == [kind |-> "error"]
PageOf(name) == [kind |-> "page", name |-> name]
Form(csrf, uri) == [kind |-> "form", csrf |-> csrf, uri |-> uri]

Reply(status, body) ==
    [status |-> status, body |-> body, location |-> None, cookies |-> <<>>]

\* reply::redirect
Redirect(location) ==
    [Reply("moved_temporarily", Error) EXCEPT !.location = location]

\* reply::set_content makes the status ok, whatever it was.
SetContent(rep, body) == [rep EXCEPT !.status = "ok", !.body = body]

\* reply::set_cookie
SetCookie(rep, name, value) ==
    [rep EXCEPT !.cookies = Append(@, <<name, value>>)]

-----------------------------------------------------------------------------
\* security_context::validate_request

\* Mutant: the signature is not compared.
CredentialsUnsigned(req) ==
    IF req.access = None \/ req.access.roles = {} THEN None ELSE req.access

\* The credentials in the token, when the token is signed with the secret of
\* this launch and names a role (an empty set of roles is not written at all).
Credentials(req) ==
    IF req.access = None \/ req.access.roles = {} \/ req.access.secret # secret
    THEN None ELSE req.access

\* The first rule that matches a path.
RuleFor ==
    [path \in Paths |->
        LET matching == {i \in DOMAIN Rules : glob_match(path, Rules[i].pattern)}
        IN  IF matching = {} THEN None ELSE Rules[Min(matching)]]

RuleAllows(rule, credentials) ==
    IF rule = None THEN DefaultAllow
    ELSE \/ rule.roles = {}
         \/ credentials # None /\ rule.roles \cap credentials.roles # {}

ValidateRequest(req) ==
    /\ RuleAllows(RuleFor[req.path], Credentials(req))
    /\ ValidateCsrf /\ req.fields["_csrf"] # None => req.fields["_csrf"] = req.csrf

\* get_csrf_token: a new token goes into the cookies of the request as well, for
\* the controllers to see.  Mutant: it does not.
GetCsrfTokenUnseen(req) == req

GetCsrfToken(req) == IF req.csrf = None THEN [req EXCEPT !.csrf = tokens] ELSE req

\* add_authorization_headers: the token stands for the user's name and roles,
\* under the server's secret.
AccessToken(user) == [user |-> user, roles |-> Users[user].roles, secret |-> secret]

\* verify_username_password: an unknown user has no password to match.
Verified(user, password) == user \in DOMAIN Users /\ Users[user].password = password

-----------------------------------------------------------------------------
\* Controllers.  A result is a reply, whether the request was handled, and the
\* exception that was thrown, if any.
Result(rep, handled, thrown) == [reply |-> rep, handled |-> handled, thrown |-> thrown]

\* controller::path_matches_prefix
path_matches_prefix(c, path) == IsPrefix(m_prefix_path(c), path)

\* controller::get_prefixless_path
get_prefixless_path(c, path) ==
    WithoutSlashes(SubSeq(path, Len(m_prefix_path(c)) + 1, Len(path)))

\* The expression mount_point makes of a path with parameters: its elements joined
\* by slashes, where a slash at the front is an element too.
RestExpression(path) == IF path[1] = "/" /\ Len(path) > 1 THEN <<"/">> \o path ELSE path

\* A parameter stands for a part of the path without a slash; a path without
\* parameters is compared as it is.
RestMatches(mountPoint, path) ==
    LET rx == RestExpression(mountPoint)
    IN  IF \A i \in DOMAIN mountPoint : mountPoint[i] # "{}" THEN mountPoint = path
        ELSE \E cut \in Cuts(path, Len(rx)) : \A i \in DOMAIN rx :
                LET piece == SubSeq(path, cut[i - 1] + 1, cut[i])
                IN  IF rx[i] = "{}" THEN piece # <<>> /\ \A j \in DOMAIN piece : piece[j] # "/"
                                    ELSE piece = <<rx[i]>>

\* The mounts of a controller whose path fits the rest of a path: a pattern for
\* an html_controller, an expression for a rest_controller.
Fitting ==
    [i \in DOMAIN Controllers |-> [path \in Paths |->
        LET c   == Controllers[i]
            uri == get_prefixless_path(c, path)
        IN  {j \in DOMAIN c.mounts :
                /\ path_matches_prefix(c, path)
                /\ \/ c.kind = "html" /\ glob_match(uri, c.mounts[j].path)
                   \/ c.kind = "rest" /\ RestMatches(c.mounts[j].path, uri)}]]

FirstMount(c, matching) ==
    IF matching = {} THEN None ELSE c.mounts[CHOOSE i \in matching : \A j \in matching : i <= j]

\* What the application's handler does: give a page, throw a status or throw
\* something else.
Called(mount, rep) ==
    CASE mount.does = "page"   -> Result(SetContent(rep, PageOf(mount.page)), TRUE, None)
      [] mount.does = "status" -> Result(rep, FALSE, "forbidden")
      [] mount.does = "throw"  -> Result(rep, FALSE, "internal_server_error")

\* html_controller::handle_request
HtmlRequest(c, fitting, req, rep) ==
    LET mount == FirstMount(c, {i \in fitting : \/ req.method \in {"HEAD", "OPTIONS"}
                                                \/ c.mounts[i].method \in {req.method, "UNDEFINED"}})
    IN  IF mount = None THEN Result(Reply("not_found", Error), FALSE, None)
        ELSE IF req.method = "OPTIONS" THEN Result(Reply("ok", NoBody), TRUE, None)
        ELSE Called(mount, rep)

\* rest_controller::handle_request and mount_point::call: exceptions become a
\* reply here.  A status that was thrown is overwritten by set_content.
RestRequest(c, fitting, req, rep) ==
    LET mount  == FirstMount(c, {i \in fitting : c.mounts[i].method = req.method})
        called == Called(mount, rep)
    IN  IF mount = None THEN Result(rep, FALSE, None)
        ELSE IF called.thrown = None THEN called
        ELSE IF mount.does = "status" THEN Result(SetContent(Reply(called.thrown, Error), Error), TRUE, None)
        ELSE Result([SetContent(rep, Error) EXCEPT !.status = called.thrown], TRUE, None)

\* soap_controller::handle_request; the mounts are the actions, the first one is
\* what the envelope asks for.
SoapRequest(c, req, rep) ==
    LET uri == WithoutSlashes(req.path)
    IN  IF req.method = "POST" /\ uri = m_prefix_path(c)
        THEN IF Called(c.mounts[1], rep).thrown = None
             THEN Called(c.mounts[1], rep)
             ELSE Result([SetContent(rep, Error) EXCEPT !.status = Called(c.mounts[1], rep).thrown],
                         TRUE, None)
        ELSE IF req.method = "GET" /\ uri = m_prefix_path(c) \o <<"/", "wsdl">>
        THEN Result(SetContent(rep, PageOf("wsdl")), FALSE, None)
        ELSE Result(rep, FALSE, None)

\* Mutant: a login always leads to the front page.
DestinationFront(req, word) == <<"/">>

\* Where a login or a logout leads: back to where it came from.
Destination(req, word) ==
    LET uri == req.fields["uri"]
    IN  IF uri \in {None, <<>>} \/ Last(uri) = word THEN <<"/">> ELSE uri

\* login_controller::handle_request, for POST.  A refused password puts the form
\* in the reply that was already made to redirect, which thereby no longer does.
PostLogin(req) ==
    LET to == Redirect(Destination(req, "login"))
    IN  IF req.fields["_csrf"] # req.csrf THEN Result(Reply("not_found", Error), FALSE, "forbidden")
        ELSE IF Verified(req.fields["username"], req.fields["password"])
        THEN Result(SetCookie(to, "access_token", AccessToken(req.fields["username"])), TRUE, None)
        ELSE Result(SetContent(to, Form(req.csrf, req.fields["uri"])), TRUE, None)

\* login_controller::handle_request
LoginRequest(c, req, rep) ==
    LET uri == get_prefixless_path(c, req.path)
    IN  IF uri = <<"login">> /\ req.method = "GET"
        THEN Result(SetContent(rep, Form(req.csrf, None)), TRUE, None)
        ELSE IF uri = <<"login">> /\ req.method = "POST" THEN PostLogin(req)
        ELSE IF uri = <<"logout">>
        THEN Result(SetCookie(Redirect(Destination(req, "logout")), "access_token", None),
                    TRUE, None)
        ELSE Result(rep, FALSE, None)

\* controller::dispatch_request: the handler of the i-th controller.
HandleBy(i, req, rep) ==
    LET c == Controllers[i]
    IN  CASE c.kind = "html"  -> HtmlRequest(c, Fitting[i][req.path], req, rep)
          [] c.kind = "rest"  -> RestRequest(c, Fitting[i][req.path], req, rep)
          [] c.kind = "soap"  -> SoapRequest(c, req, rep)
          [] c.kind = "login" -> LoginRequest(c, req, rep)

-----------------------------------------------------------------------------
\* server::handle_request

\* The loop over the controllers: up to the first that handles the request or
\* throws; one that does not may still have touched the reply.
\* Mutant: the loop goes on after the request was handled.
DispatchAll(req) ==
    LET D[i \in 0..Len(Controllers)] ==
        IF i = 0 THEN Result(Reply("not_found", Error), FALSE, None)
        ELSE LET done == D[i - 1]
             IN  IF done.thrown # None \/ ~path_matches_prefix(Controllers[i], req.path)
                 THEN done ELSE HandleBy(i, req, done.reply)
    IN  D[Len(Controllers)]

Dispatch(req) ==
    LET D[i \in 0..Len(Controllers)] ==
        IF i = 0 THEN Result(Reply("not_found", Error), FALSE, None)
        ELSE LET done == D[i - 1]
             IN  IF \/ done.handled \/ done.thrown # None
                    \/ ~path_matches_prefix(Controllers[i], req.path)
                 THEN done ELSE HandleBy(i, req, done.reply)
    IN  D[Len(Controllers)]

\* error_handler::create_error_reply and, where there is a login controller,
\* login_controller::create_unauth_reply: the form, with the page asked for.
ErrorReply(req, thrown) ==
    IF thrown = "unauthorized" /\ HasLogin
    THEN Reply("unauthorized", Form(req.csrf, req.path))
    ELSE Reply(thrown, Error)

\* What is left to do when the controllers are done.
Finished(req, known, done) ==
    IF done.thrown # None THEN ErrorReply(known, done.thrown)
    ELSE IF req.method = "HEAD" THEN SetContent(done.reply, NoBody)
    ELSE IF req.csrf = None THEN SetCookie(done.reply, "csrf-token", tokens)
    ELSE done.reply

HandleRequest(req) ==
    IF req.method \notin {"GET", "POST", "PUT", "OPTIONS", "HEAD", "DELETE"}
    THEN ErrorReply(req, "bad_request")
    ELSE IF ~ValidateRequest(req) THEN ErrorReply(req, "unauthorized")
    ELSE Finished(req, GetCsrfToken(req), Dispatch(GetCsrfToken(req)))

-----------------------------------------------------------------------------
\* Browsers

Request(b, method, path, fields) ==
    [method |-> method, path |-> path, fields |-> fields,
     access |-> jar[b].access, csrf |-> jar[b].csrf]

\* What the last Set-Cookie header for a name says; a deleted cookie is None.
AfterReply(cookies, rep) ==
    LET Latest(name, old) ==
            LET at == {i \in DOMAIN rep.cookies : rep.cookies[i][1] = name}
            IN  IF at = {} THEN old
                ELSE rep.cookies[CHOOSE i \in at : \A j \in at : i >= j][2]
    IN  [access |-> Latest("access_token", cookies.access),
         csrf   |-> Latest("csrf-token", cookies.csrf)]

\* The browser keeps the cookies of a reply and shows the rest.
Receive(b, asked, rep) ==
    /\ jar' = [jar EXCEPT ![b] = AfterReply(@, rep)]
    /\ page' = [page EXCEPT ![b] = [asked |-> asked, status |-> rep.status,
                                     body |-> rep.body, location |-> rep.location]]
    /\ tokens' = IF <<"csrf-token", tokens>> \in Range(rep.cookies) THEN tokens + 1 ELSE tokens
    /\ UNCHANGED secret

Send(b, method, path, fields) ==
    /\ tokens <= MaxTokens
    /\ Receive(b, <<method, path>>, HandleRequest(Request(b, method, path, fields)))

\* A session ends at the logout page, unless that is refused.
Leave(b, path) ==
    session' = [session EXCEPT ![b] = IF path = Logout
                                         /\ page'[b].status \in {"moved_temporarily", "ok"}
                                      THEN None ELSE @]

Visit(b, method, path) ==
    /\ Send(b, method, path, NoFields)
    /\ Leave(b, path)
    /\ event' = <<"visit", b>>

\* A redirect is not shown: it is followed.
Redirected(b) == page[b].status = "moved_temporarily"

Submit(b, user, password) ==
    /\ page[b].body.kind = "form" /\ ~Redirected(b)
    /\ Send(b, "POST", Login,
            [f \in FieldNames |-> CASE f = "_csrf"    -> page[b].body.csrf
                                    [] f = "uri"      -> page[b].body.uri
                                    [] f = "username" -> user
                                    [] f = "password" -> password])
    /\ session' = [session EXCEPT ![b] =
                    IF user \in DOMAIN Users /\ password = Users[user].password
                       /\ page'[b].status = "moved_temporarily"
                    THEN [user |-> user, launch |-> secret, wanted |-> page[b].body.uri] ELSE @]
    /\ event' = <<"submit", b>>

Follow(b) ==
    /\ Redirected(b)
    /\ Send(b, "GET", page[b].location, NoFields)
    /\ Leave(b, page[b].location)
    /\ event' = <<"follow", b>>

NoPage == [asked |-> <<"GET", <<"/">>>>, status |-> "none", body |-> NoBody, location |-> None]

\* Session cookies end with the browser.
Forget(b) ==
    /\ jar' = [jar EXCEPT ![b] = [access |-> None, csrf |-> None]]
    /\ page' = [page EXCEPT ![b] = NoPage]
    /\ session' = [session EXCEPT ![b] = None]
    /\ event' = <<"forget", b>>
    /\ UNCHANGED <<secret, tokens>>

\* The server is launched again, with a new secret.
Restart ==
    /\ secret < MaxRestarts
    /\ secret' = secret + 1
    /\ event' = <<"restart", None>>
    /\ UNCHANGED <<jar, page, tokens, session>>

Init ==
    /\ jar = [b \in Browsers |-> [access |-> None, csrf |-> None]]
    /\ page = [b \in Browsers |-> NoPage]
    /\ secret = 0
    /\ tokens = 1
    /\ session = [b \in Browsers |-> None]
    /\ event = <<"launch", None>>

Passwords == {Users[u].password : u \in DOMAIN Users}

Next ==
    \/ \E b \in Browsers, m \in Methods, p \in Paths : Visit(b, m, p)
    \/ \E b \in Browsers, u \in DOMAIN Users, w \in Passwords : Submit(b, u, w)
    \/ \E b \in Browsers : Follow(b)
    \/ \E b \in Browsers : Forget(b)
    \/ Restart

Spec == Init /\ [][Next]_vars

-----------------------------------------------------------------------------
(***************************************************************************)
(* Properties                                                              *)
(***************************************************************************)
\* How an application is put together: the paths are in normal form, without a
\* backslash, and only the login page's ends in login; the login controller is the
\* only one and was added first, at the root; the handlers do one of the three things.
AsUsual ==
    /\ \A p \in Paths : /\ p \in Seq(Range(p)) /\ p # <<>> /\ p[1] = "/"
                        /\ "\\" \notin Range(p)
                        /\ \A i \in 1..Len(p) - 1 : p[i] = "/" => p[i + 1] # "/"
                        /\ Last(p) = "login" => p = Login
    /\ Login \in Paths /\ <<"/">> \in Paths
    /\ Methods \subseteq {"GET", "POST", "PUT", "OPTIONS", "HEAD", "DELETE", "PATCH"}
    /\ Len(Controllers) \in Nat \ {0} /\ DOMAIN Controllers = 1..Len(Controllers)
    /\ Controllers[1].kind = "login" /\ Controllers[1].prefix = <<"/">>
    /\ \A i \in 2..Len(Controllers) :
        /\ Controllers[i].kind \in {"html", "rest", "soap"}
        /\ DOMAIN Controllers[i].mounts \subseteq Nat
        /\ Controllers[i].kind = "soap" => 1 \in DOMAIN Controllers[i].mounts
        /\ \A j \in DOMAIN Controllers[i].mounts :
            Controllers[i].mounts[j].does \in {"page", "status", "throw"}

\* What the application asked for: the roles of the first rule it gave whose
\* pattern denotes the path.
Required ==
    [path \in Paths |->
        LET rules == {i \in DOMAIN Setup : /\ Setup[i].call = "add_rule"
                                           /\ Denotes(Items(Setup[i].pattern), path)}
        IN  IF rules = {} THEN None
            ELSE Setup[CHOOSE i \in rules : \A j \in rules : i <= j].roles]

\* What the rules have to be: their patterns are plain, and the rules given before the
\* login controller leave the login page open.
RulesAsGiven ==
    /\ DOMAIN Setup \subseteq Nat
    /\ \A i \in DOMAIN Setup : Setup[i].call = "add_rule" => PlainPattern(Setup[i].pattern)
    /\ \A i \in DOMAIN Rules : Rules[i] # None /\ Rules[i].roles # None
    /\ RuleFor[Login] # None /\ RuleFor[Login].roles = {}

\* A browser may see a path when its user has logged in since the server was
\* launched and has one of these roles; anybody may when there are none.
Entitled(b, path) ==
    \/ path = Login
    \/ Required[path] = None /\ DefaultAllow
    \/ Required[path] = {}
    \/ /\ Required[path] # None /\ session[b] # None
       /\ session[b].launch = secret
       /\ Users[session[b].user].roles \cap Required[path] # {}

\* validate_request: a request is turned away as unauthorized exactly when the
\* browser is not entitled to the page, whatever logins, logouts, restarts of the
\* server and lost cookies came before.
AccessAsConfigured ==
    [][\A b \in Browsers :
        event' = <<"visit", b>> /\ page'[b].asked[1] # "PATCH" =>
            (page'[b].status = "unauthorized" <=> ~Entitled(b, page'[b].asked[2]))]_vars

\* What can be left of a path behind the prefix of a controller, the slash between
\* them taken away.
LeftOver(c, path) ==
    {r \in {SubSeq(path, k, Len(path)) : k \in 1..Len(path) + 1} :
        /\ path \in {PrefixPath(c.prefix) \o r, PrefixPath(c.prefix) \o <<"/">> \o r}
        /\ r = <<>> \/ r[1] # "/"}

\* What the path of a REST mount stands for: the paths that have, for each "{}", a part
\* without a slash, and else the same symbols.
RestDenotes(mountPath, r) ==
    \E cut \in Cuts(r, Len(mountPath)) : \A i \in DOMAIN mountPath :
        LET piece == SubSeq(r, cut[i - 1] + 1, cut[i])
        IN  IF mountPath[i] = "{}" THEN piece # <<>> /\ "/" \notin Range(piece)
                                   ELSE piece = <<mountPath[i]>>

\* The mounts of a controller for a method that fit the whole of a path.
MountsFor(c, method, path) ==
    {j \in DOMAIN c.mounts : \E r \in LeftOver(c, path) :
        LET m == c.mounts[j]
        IN  IF c.kind = "html"
            THEN m.method \in {method, "UNDEFINED"} /\ Denotes(Items(m.path), r)
            ELSE m.method = method /\ RestDenotes(WithoutSlashes(m.path), r)}

\* Those of all controllers, by their controller and their place.
CandidatesFor(method, path) ==
    UNION {{i} \X MountsFor(Controllers[i], method, path) :
              i \in {k \in DOMAIN Controllers : Controllers[k].kind \in {"html", "rest"}}}

\* The requests that are for a SOAP service: a call at its prefix, or its description.
ForService ==
    {x \in {"GET", "POST"} \X Paths :
        \E i \in DOMAIN Controllers : /\ Controllers[i].kind = "soap"
            /\ (IF x[1] = "POST" THEN <<>> ELSE <<"wsdl">>) \in LeftOver(Controllers[i], x[2])}

Candidates == [method \in {"GET", "POST"} |-> [path \in Paths |-> CandidatesFor(method, path)]]

\* What the mounts have to be: the patterns of pages are plain, a SOAP service has a name,
\* without which it would answer for the front page, and no path of a REST mount begins
\* with a slash (the code makes two of it, and such a mount answers for nothing, though
\* rest-controller.hpp:437 shows one).
MountsAsGiven ==
    \A i \in DOMAIN Controllers :
        LET c == Controllers[i]
        IN  /\ c.prefix \in Seq(Range(c.prefix))
            /\ c.kind = "soap" => \E k \in DOMAIN c.prefix : c.prefix[k] # "/"
            /\ \A j \in DOMAIN c.mounts :
                /\ c.mounts[j] # None
                /\ c.kind = "html" => PlainPattern(c.mounts[j].path)
                /\ c.kind = "rest" =>
                        LET path == c.mounts[j].path
                        IN  path \in Seq(Range(path)) /\ (path = <<>> \/ path[1] # "/")

\* server::handle_request and the controllers: a page is the one of the first mount
\* of the first controller that fits the whole path, and there is none only when
\* nothing fits.  (Requests for a SOAP service are set aside: where
\* soap-controller.hpp:85 has it answer, the code finds nothing, since line 93 takes from
\* the prefix the slash that every path begins with.)
RightPage ==
    [][\A b \in Browsers :
        LET m == page'[b].asked[1]
            p == page'[b].asked[2]
        IN  /\ event' = <<"visit", b>> /\ m \in {"GET", "POST"}
            /\ Entitled(b, p) /\ p \notin {Login, Logout} /\ <<m, p>> \notin ForService
            => LET fits  == Candidates[m][p]
                   first == CHOOSE x \in fits : \A y \in fits :
                                x[1] < y[1] \/ (x[1] = y[1] /\ x[2] <= y[2])
                   mount == Controllers[first[1]].mounts[first[2]]
               IN  IF fits = {} THEN page'[b].status = "not_found"
                   ELSE /\ page'[b].status # "not_found"
                        /\ mount.does = "page" => page'[b].body = PageOf(mount.page)]_vars

\* login_controller: the redirect after a login leads to the page whose refusal
\* brought up the form, and the page is shown if the user may see it.
LeadsBack ==
    [][\A b \in Browsers :
        event' = <<"follow", b>> /\ page[b].asked = <<"POST", Login>> =>
            LET wanted == IF session[b].wanted = None THEN <<"/">> ELSE session[b].wanted
            IN  /\ page'[b].asked = <<"GET", wanted>>
                /\ Entitled(b, wanted) => page'[b].status # "unauthorized"]_vars

\* get_csrf_token: a form that was given to a browser which has a csrf cookie is
\* never refused when that browser sends it back: neither validate_request
\* (unauthorized) nor login_controller (forbidden) takes its token for a forged one.
FormsAccepted ==
    [][\A b \in Browsers :
        event' = <<"submit", b>> /\ jar[b].csrf # None =>
            page'[b].status \notin {"forbidden", "unauthorized"}]_vars

\* The same for a browser that has none yet: whoever is shown the login form can
\* log in with it.
FirstFormAccepted ==
    [][\A b \in Browsers : event' = <<"submit", b>> => page'[b].status # "forbidden"]_vars
=============================================================================
