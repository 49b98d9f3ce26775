------------------------- MODULE ExpressionLanguage -------------------------
(***************************************************************************)
(* The expression language of the templates (el-processing.cpp): an        *)
(* interpreter that evaluates while it parses, and the chain of scopes in  *)
(* which it looks names up.                                                *)
(*                                                                         *)
(* Text is a sequence of symbols: a symbol is a character or a whole name. *)
(* The m_return_whitespace of the interpreter is a parameter here: it is   *)
(* set only while the text between two bars is read.                       *)
(***************************************************************************)
EXTENDS Json

Text(name) == <<name>>

-----------------------------------------------------------------------------
(* get_next_token.  A token has a type, its text, a value if it is a       *)
(* number, and the place after it.                                         *)
Token(t, text, v, i) == [t |-> t, text |-> text, v |-> v, next |-> i]
Stop(why) == Token(why, << >>, Null, 0)
Stopped(tok) == tok.t \in {"throws", "unspecified", "beyond", "hangs"}

Blank == {" ", "\n"}
Single == {"(", ")", "[", "]", "{", "}", "/", "+", "-", ".", ",", "|"}
(* The symbols that may go together with a second one, that second one,    *)
(* and the token each is alone: a lone ! is taken for !=.                  *)
Second == ("?" :> ":") @@ ("=" :> "=") @@ ("!" :> "=") @@ ("<" :> "=") @@ (">" :> "=") @@ (":" :> ":")
Both == ("?" :> "?:") @@ ("=" :> "==") @@ ("!" :> "!=") @@ ("<" :> "<=") @@ (">" :> ">=") @@ (":" :> "::")
Alone == ("?" :> "?") @@ ("=" :> "=") @@ ("!" :> "!=") @@ ("<" :> "<") @@ (">" :> ">") @@ (":" :> ":")
Templates == ("$" :> "${") @@ ("*" :> "*{") @@ ("#" :> "#{") @@ ("@" :> "@{") @@ ("~" :> "~{")
Keywords == ("div" :> "/") @@ ("mod" :> "%") @@ ("and" :> "and") @@ ("or" :> "or") @@ ("not" :> "not")
            @@ ("lt" :> "<") @@ ("le" :> "<=") @@ ("ge" :> ">=") @@ ("gt" :> ">") @@ ("ne" :> "!=")
            @@ ("eq" :> "==") @@ ("true" :> "true") @@ ("false" :> "false") @@ ("in" :> "in")
Erroneous == {"\"", "%", "&", ";", "end"}
IsNameStart(c) == c \notin Blank \cup Single \cup DOMAIN Second \cup DOMAIN Templates \cup Erroneous \cup {"'"}
                  /\ ~IsDigit(c)
IsNameChar(c) == IsNameStart(c) \/ IsDigit(c) \/ c = "-"

TokenAt(s, i) ==
    LET c      == At(s, i)
        upto(t, j) == Token(t, SubSeq(s, i, j - 1), Null, j)
        quoted(j) == IF At(s, j) = "end" THEN upto("error", j)
                     ELSE Token("string", SubSeq(s, i + 1, j - 1), Null, j + 1)
        named(j) == upto(IF j = i + 1 /\ c \in DOMAIN Keywords THEN Keywords[c] ELSE "object", j)
        integer(dot) == Natural(SubSeq(s, i, dot - 1))
        halves(j, h) == [upto("number", j) EXCEPT !.v = IF h = -1 THEN Beyond ELSE Float(h)]
        float(dot, j) == halves(j, Halves(integer(dot), SubSeq(s, dot + 1, j - 1)))
        number(j) == IF At(s, j) = "." THEN float(j, Span(s, j + 1, IsDigit))
                     ELSE [upto("number", j) EXCEPT !.v = Integer(integer(j))]
    IN  CASE c = "end" -> Token("eof", << >>, Null, i)
          [] c \in Single -> upto(c, i + 1)
          [] c \in DOMAIN Second ->
               IF At(s, i + 1) = Second[c] THEN upto(Both[c], i + 2) ELSE upto(Alone[c], i + 1)
          [] c \in DOMAIN Templates ->
               IF At(s, i + 1) = "{" THEN upto(Templates[c], i + 2)
               ELSE IF c = "*" THEN upto(c, i + 1)
               ELSE IF c = "#" THEN upto("hash", Span(s, i + 1, LAMBDA x : IsNameChar(x) \/ x = ":"))
               ELSE upto("error", i + 1)
          [] c \in Blank -> upto("whitespace", i + 1)
          [] c = "'" -> quoted(Span(s, i + 1, LAMBDA x : x \notin {"'", "end"}))
          [] IsDigit(c) -> number(Span(s, i, IsDigit))
          [] IsNameStart(c) -> named(Span(s, i, IsNameChar))
          [] OTHER -> upto("error", i + 1)

RECURSIVE get_next_token(_, _, _)
get_next_token(s, i, ws) ==
    IF At(s, i) \in Blank /\ ~ws THEN get_next_token(s, i + 1, ws) ELSE TokenAt(s, i)

(* match: the token after this one, if this is the one expected.  e holds  *)
(* the text and the token at each place of it, the scopes and what they    *)
(* know of the site.                                                       *)
Tokens(s) == [i \in 1..(Len(s) + 1), ws \in BOOLEAN |-> get_next_token(s, i, ws)]
Read(e, tok, ws) == IF Stopped(tok) THEN tok ELSE e.tokens[tok.next, ws]
MatchWs(e, tok, t, ws) == IF Stopped(tok) \/ tok.t = t THEN Read(e, tok, ws) ELSE Stop("throws")
Match(e, tok, t) == MatchWs(e, tok, t, FALSE)
Skip(e, tok) == Read(e, tok, FALSE)

(* What a parser gives: a value and the token after it.  An operation that *)
(* throws ends the parse.                                                  *)
Give(v, tok) == IF Stopped(tok) THEN [v |-> Null, tok |-> tok]
                ELSE IF Fails(v) THEN [v |-> Null, tok |-> Stop(v.fails)]
                ELSE [v |-> v, tok |-> tok]
ClosedWs(e, r, t, ws) == Give(r.v, MatchWs(e, r.tok, t, ws))
Closed(e, r, t) == ClosedWs(e, r, t, FALSE)

-----------------------------------------------------------------------------
(* scope.  scopes[1] is the innermost; each has its own names and the      *)
(* object selected in it.                                                  *)
Scope(data) == [data |-> data, selected |-> Null]

(* scope::lookup, the const one.                                           *)
lookup(scopes, name, includeSelected) ==
    LET in(s) == IF name \in DOMAIN s.data THEN s.data[name] ELSE AtKey(s.selected, name)
        innermost(at) == IF at = {} THEN Null ELSE in(scopes[Min(at)])
    IN  innermost({i \in DOMAIN scopes : \/ name \in DOMAIN scopes[i].data
                                         \/ includeSelected /\ Has(scopes[i].selected, Str(name))})

(* The other one, and operator[]: a name that is nowhere comes to be, with *)
(* the value null, in the outermost scope.                                 *)
lookupOrCreate(scopes, name) ==
    IF \E i \in DOMAIN scopes : name \in DOMAIN scopes[i].data THEN scopes
    ELSE [scopes EXCEPT ![Len(scopes)].data = (name :> Null) @@ @]

\* Mutant: a name that an outer scope has is assigned there.
PutWhereFound(scopes, name, v) ==
    LET at == {i \in DOMAIN scopes : name \in DOMAIN scopes[i].data}
        i  == IF at = {} THEN 1 ELSE Min(at)
    IN  [scopes EXCEPT ![i].data = (name :> v) @@ @]

put(scopes, name, v) == [scopes EXCEPT ![1].data = (name :> v) @@ @]

-----------------------------------------------------------------------------
(* The binary operators, by level, and what each does.  Only the levels of *)
(* or, and, + and * take more than one operator.                           *)
Levels == <<{"or"}, {"and"}, {"==", "!="}, {"<", "<=", ">=", ">", "not", "in"},
            {"+", "-"}, {"*", "/", "%"}>>
Once == {3, 4}
Apply(op, a, b) ==
    CASE op = "or" -> Bool(Truth(a) \/ Truth(b))
      [] op = "and" -> Bool(Truth(a) /\ Truth(b))
      [] op \in {"==", "!="} -> Bool(Equal(a, b) <=> op = "==")
      [] op \in {"<", ">="} -> Bool(Less(a, b) <=> op = "<")
      [] op \in {">", "<="} -> Bool(Less(b, a) <=> op = ">")
      [] op \in {"in", "not"} -> Bool(Has(b, a) <=> op = "in")
      [] op = "+" -> Add(a, b)
      [] op = "-" -> Subtract(a, b)
      [] op = "*" -> Multiply(a, b)
      [] op = "/" -> Divide(a, b)
      [] op = "%" -> Modulo(a, b)

(* .name and [index] after an object.  A name looked up with *{} starts    *)
(* out from null where one looked up with ${} stays null.                  *)
AsIndex(v) == CASE Type(v) = "boolean" -> IF v.boolean THEN 1 ELSE 0
                [] IsNumber(v) -> AsInt(v)
                [] OTHER -> -2                              \* throws, as AtIndex does
Member(v, name, selected) ==
    CASE Type(v) = "null" /\ ~selected -> Null
      [] Type(v) = "array" /\ name \in {Text("count"), Text("length")} -> Integer(Size(v))
      [] name = Text("empty") /\ (Type(v) # "null" \/ selected) -> Bool(IsEmpty(v))
      [] Type(v) = "object" /\ name # Text("empty") -> AtKey(v, name)
      [] OTHER -> Null
Index(v, x, selected) ==
    IF IsEmpty(x) \/ Type(v) \notin {"array", "object"} \/ (IsEmpty(v) /\ ~selected) THEN Null
    ELSE IF Type(v) = "array" THEN AtIndex(v, AsIndex(x)) ELSE AtKey(v, AsString(x))

RECURSIVE parse_expr(_, _), Chain(_, _, _), Level(_, _, _), Steps(_, _, _), List(_, _), Arguments(_, _, _)
RECURSIVE parse_primary_expr(_, _), Pieces(_, _), LinkPath(_, _, _, _), LinkParameters(_, _, _)
RECURSIVE Selector(_, _, _), Tests(_, _, _), Params(_, _, _), Bracket(_, _, _)

(* parse_expr: all three operands are evaluated, whichever is taken.       *)
parse_expr(e, tok) ==
    LET either(c, a, b) == Give(IF Truth(c.v) THEN a.v ELSE b.v, b.tok)
        choose(c, a) == CASE c.tok.t = "?:" -> Give(IF Truth(c.v) THEN c.v ELSE a.v, a.tok)
                          [] c.tok.t = "?" /\ a.tok.t = ":" -> either(c, a, parse_expr(e, Skip(e, a.tok)))
                          [] OTHER -> Give(IF Truth(c.v) THEN a.v ELSE Null, a.tok)
        then(c) == IF c.tok.t \in {"?", "?:"} THEN choose(c, parse_expr(e, Skip(e, c.tok))) ELSE c
    IN  then(Level(e, tok, 1))

(* parse_or_expr down to parse_multiplicative_expr.                        *)
parse_unary_expr(e, tok) ==
    LET signed(x) == CASE tok.t = "-" -> Give(Negate(x.v), x.tok)
                       [] tok.t = "not" -> Give(Bool(~Truth(x.v)), x.tok)
                       [] OTHER -> x
    IN  signed(parse_primary_expr(e, IF tok.t \in {"-", "not"} THEN Skip(e, tok) ELSE tok))

Level(e, tok, n) ==
    IF n > Len(Levels) THEN parse_unary_expr(e, tok) ELSE Chain(e, Level(e, tok, n + 1), n)

(* The right side of an operator, of level n: not goes together with in.   *)
Operand(e, op, n) ==
    Level(e, IF op.t = "not" THEN Match(e, Skip(e, op), "in") ELSE Skip(e, op), n)
Applied(l, r) == Give(Apply(l.tok.t, l.v, r.v), r.tok)

\* Mutant: the operators of a level group to the right.
ChainRight(e, l, n) ==
    IF l.tok.t \notin Levels[n] THEN l ELSE Applied(l, Operand(e, l.tok, n))

Chain(e, l, n) ==
    LET on(r) == IF n \in Once THEN r ELSE Chain(e, r, n)
    IN  IF l.tok.t \notin Levels[n] THEN l ELSE on(Applied(l, Operand(e, l.tok, n + 1)))

Steps(e, r, selected) ==
    LET dot(name) == Give(Member(r.v, name.text, selected), Match(e, name, "object"))
        index(x)  == Give(Index(r.v, x.v, selected), Match(e, x.tok, "]"))
        next      == Skip(e, r.tok)
    IN  CASE r.tok.t = "." -> Steps(e, dot(next), selected)
          [] r.tok.t = "[" -> Steps(e, index(parse_expr(e, next)), selected)
          [] OTHER -> r

-----------------------------------------------------------------------------
(* encode_url: a symbol that may not be in a query is escaped.             *)
Acceptable == {"*", "-", "/", ".", "+", "@"}
encode_url(s) == FlattenSeq([i \in DOMAIN s |-> IF IsNameChar(s[i]) \/ s[i] \in Acceptable
                                                THEN <<s[i]>> ELSE <<"%", s[i]>>])

(* A link: the text up to a parenthesis, with the braces of placeholders   *)
(* counted, and templates in it evaluated.                                 *)
parse_selection(e, tok, ws) ==
    LET object(at) == IF at.t = "object"
                      THEN Steps(e, Give(lookup(e.scopes, at.text, TRUE), Skip(e, at)), TRUE)
                      ELSE parse_expr(e, at)
    IN  ClosedWs(e, object(Skip(e, tok)), "}", ws)
parse_variable(e, tok, ws) == ClosedWs(e, parse_expr(e, Skip(e, tok)), "}", ws)

LinkPath(e, tok, path, braces) ==
    LET on(r) == IF Stopped(r.tok) THEN r ELSE LinkPath(e, r.tok, path \o AsString(r.v), braces)
    IN  CASE tok.t \in {"(", "eof"} \/ Stopped(tok) \/ (tok.t = "}" /\ braces = 0) -> Give(Str(path), tok)
          [] tok.t = "${" -> on(parse_variable(e, tok, FALSE))
          [] tok.t = "*{" -> on(parse_selection(e, tok, FALSE))
          [] OTHER -> LinkPath(e, Skip(e, tok), path \o tok.text,
                               braces + (CASE tok.t = "{" -> 1 [] tok.t = "}" -> -1 [] OTHER -> 0))

\* Mutant: one placeholder is filled.
FillOnce(path, name, value, p) ==
    LET at == FindFrom(path, <<"{">> \o name \o <<"}">>, p)
    IN  SubSeq(path, 1, at) \o value \o SubSeq(path, at + Len(name) + 3, Len(path))

(* The placeholders of a name in a path are filled from left to right.     *)
RECURSIVE Fill(_, _, _, _)
Fill(path, name, value, p) ==
    LET at == FindFrom(path, <<"{">> \o name \o <<"}">>, p)
    IN  IF at = -1 THEN path
        ELSE Fill(SubSeq(path, 1, at) \o value \o SubSeq(path, at + Len(name) + 3, Len(path)),
                  name, value, at + Len(value))

(* The parameters: they fill placeholders, or make up the query, a map.    *)
SetParameter(l, name, value) ==
    IF Find(l.path, <<"{">> \o name \o <<"}">>) # -1
    THEN [l EXCEPT !.path = Fill(@, name, value, 0)]
    ELSE [l EXCEPT !.query = (name :> value) @@ @]
LinkParameters(e, tok, l) ==
    LET on(given, next) ==
            IF Stopped(next) THEN [link |-> l, tok |-> next]
            ELSE IF next.t = "," THEN LinkParameters(e, Skip(e, next), given)
            ELSE [link |-> given, tok |-> Match(e, next, ")")]
        value(r) == on(SetParameter(l, tok.text, AsString(r.v)), r.tok)
        then(after) ==
            IF after.t = "=" THEN value(parse_primary_expr(e, Skip(e, after)))
            ELSE on([l EXCEPT !.query = (tok.text :> << >>) @@ @], after)
    IN  then(Match(e, tok, "object"))

Query(q) ==
    LET k == SetToSortSeq(DOMAIN q, LexLess)
    IN  Between([i \in DOMAIN k |-> encode_url(k[i])
                                    \o (IF q[k[i]] = << >> THEN << >> ELSE <<"=">> \o encode_url(q[k[i]]))],
                <<"&">>)

parse_link_template_expr(e, tok) ==
    LET root == tok.t = "/"
        made(l, next) == Give(Str(l.path \o IF DOMAIN l.query = {} THEN << >>
                                           ELSE <<"?">> \o Query(l.query)), next)
        complete(r) == made(r.link, r.tok)
        then(path) ==
            IF path.tok.t # "(" THEN path
            ELSE complete(LinkParameters(e, Skip(e, path.tok),
                                         [path |-> path.v.string, query |-> << >>]))
    IN  then(LinkPath(e, IF root THEN Skip(e, tok) ELSE tok,
                  IF ~root THEN << >> ELSE IF e.site.context = << >> THEN <<"/">>
                  ELSE <<"/">> \o e.site.context \o <<"/">>, 0))

(* parse_template_expr; ws is how the token after the brace is read.       *)
parse_template_expr(e, tok, ws) ==
    CASE tok.t = "${" -> parse_variable(e, tok, ws)
      [] tok.t = "@{" -> ClosedWs(e, parse_link_template_expr(e, Skip(e, tok)), "}", ws)
      [] tok.t = "*{" -> parse_selection(e, tok, ws)
      [] OTHER -> Give(Null, Stop("throws"))

(* parse_literal_substitution: templates are evaluated, other tokens give  *)
(* their text, which for a string is without its quotes.                   *)
Pieces(e, r) ==
    LET on(x) == IF Stopped(x.tok) THEN x
                 ELSE Pieces(e, Give(Str(r.v.string \o AsString(x.v)), x.tok))
    IN  CASE r.tok.t \in {"|", "eof"} \/ Stopped(r.tok) -> r
          [] r.tok.t \in {"${", "*{", "#{"} -> on(parse_template_expr(e, r.tok, TRUE))
          [] OTHER -> Pieces(e, Give(Str(r.v.string \o r.tok.text), Read(e, r.tok, TRUE)))
parse_literal_substitution(e, tok) == Pieces(e, Give(Str(<< >>), tok))

-----------------------------------------------------------------------------
(* Fragments: the template and the path of what is taken from it.          *)
Xpath == Text("xpath")

Params(e, r, acc) ==
    LET on(x) == IF x.tok.t = "," THEN Params(e, Skip(e, x.tok), Append(acc, x.v))
                 ELSE [params |-> Append(acc, x.v), tok |-> Match(e, x.tok, ")")]
    IN  IF r.t \in {")", "eof"} THEN [params |-> acc, tok |-> Match(e, r, ")")]
        ELSE on(parse_expr(e, r))

(* [..], .class and #id.  What is in brackets is taken token by token,     *)
(* without its blanks and its quotes.                                      *)
Bracket(e, tok, path) ==
    IF tok.t \in {"]", "eof"} \/ Stopped(tok)
    THEN [path |-> Append(path, "]"), tok |-> Match(e, tok, "]")]
    ELSE Bracket(e, Skip(e, tok), path \o tok.text)

Tests(e, tok, sel) ==
    LET test(attribute, value) == [sel EXCEPT !.path = @ \o <<"[", "@", attribute, "=">> \o value \o <<"]">>]
        class(name) == Tests(e, Match(e, name, "object"), test("class", name.text))
        bracket(b)  == Tests(e, b.tok, [sel EXCEPT !.path = b.path])
    IN  CASE tok.t = "[" -> bracket(Bracket(e, Skip(e, tok), Append(sel.path, "[")))
          [] tok.t = "." -> class(Skip(e, tok))
          [] tok.t = "hash" ->
               Tests(e, Skip(e, tok), [test("id", Tail(tok.text)) EXCEPT !.byId = TRUE])
          [] OTHER -> [sel |-> sel, tok |-> tok]

(* parse_selector: slashes, a name, and tests, again and again.  A name    *)
(* after a slash is an element; one without is an element or the name of a *)
(* fragment, which is the test *[~name].                                   *)
Slashes(e, tok) ==
    LET second(next) == IF next.t = "/" THEN [n |-> 2, tok |-> Skip(e, next)] ELSE [n |-> 1, tok |-> next]
    IN  IF tok.t = "/" THEN second(Skip(e, tok)) ELSE [n |-> 0, tok |-> tok]

NodeTests == {Text("text"), Text("comment"), Text("processing-instruction"), Text("node")}
NodeName(e, at, after, divided, sel) ==
    LET named(args) == [sel |-> [sel EXCEPT !.params = args.params,
                                            !.path = IF divided THEN @ \o at.text
                                                     ELSE @ \o <<"*", "[", "~">> \o at.text \o <<"]">>],
                        tok |-> args.tok]
    IN  CASE at.t # "object" -> [sel |-> [sel EXCEPT !.path = Append(@, "*")], tok |-> at]
          [] at.t = "object" /\ after.t # "(" -> named([params |-> sel.params, tok |-> after])
          [] OTHER -> IF at.text \in NodeTests
                      THEN [sel |-> [sel EXCEPT !.path = @ \o at.text \o <<"(", ")">>],
                            tok |-> Match(e, Skip(e, after), ")")]
                      ELSE named(Params(e, Skip(e, after), sel.params))

SelectorStep(e, s, sel) ==
    NodeName(e, s.tok, Skip(e, s.tok), s.n > 0,
             [sel EXCEPT !.path = @ \o IF s.n = 1 THEN <<"/">> ELSE <<"/", "/">>])
Selector(e, tok, sel) ==
    LET tests(r) == Tests(e, r.tok, r.sel)
        more(r)  == Selector(e, r.tok, r.sel)
    IN  IF tok.t \notin {"/", "object", "[", ".", "hash"} THEN [sel |-> sel, tok |-> tok]
        ELSE more(tests(SelectorStep(e, Slashes(e, tok), sel)))
parse_selector(e, tok) ==
    LET by(sel) == IF sel.byId THEN Text("by-id") :> Bool(TRUE) ELSE << >>
        ps(sel) == IF sel.params # << >> THEN Text("params") :> Array(sel.params) ELSE << >>
        then(r) == Give(Object((Xpath :> Str(r.sel.path)) @@ by(r.sel) @@ ps(r.sel)), r.tok)
    IN  then(Selector(e, tok, [path |-> << >>, byId |-> FALSE, params |-> << >>]))

FragmentSpec == Text("fragment-spec") :> Bool(TRUE)
TemplateSpec(v, rest, tok) == [spec |-> (Text("template") :> v) @@ rest @@ FragmentSpec, tok |-> tok]
FragmentOf(e, f) ==
    LET part(s) == Give(Object((Text("selector") :> s.v) @@ f.spec), s.tok)
    IN  IF f.tok.t = "::" THEN part(parse_selector(e, Skip(e, f.tok))) ELSE Give(Object(f.spec), f.tok)
parse_fragment_expr(e, tok) ==
    LET computed(x) == TemplateSpec(x.v, << >>, x.tok)
        this  == Str(Text("this"))
        whole == Text("selector") :> Object(Xpath :> Str(<< >>))
    IN  FragmentOf(e, CASE tok.t = "::" -> TemplateSpec(this, << >>, tok)
                        [] tok.t = "object" -> TemplateSpec(Str(tok.text), << >>, Skip(e, tok))
                        [] tok.t = "}" -> TemplateSpec(this, whole, tok)
                        [] OTHER -> computed(parse_expr(e, tok)))

-----------------------------------------------------------------------------
(* parse_utility_expr, and the classes of utility objects.  The text of a  *)
(* formatted number is left out, but not that the scaling of zero does not *)
(* end.                                                                    *)
Utility(e, class, method, args) ==
    LET n     == Len(args)
        first == args[1]
        user  == e.site.credentials
        roles == AtKey(user, Text("role"))
    IN  CASE /\ class = "numbers" /\ method \in {"formatDecimal", "formatDiskSize"}
             /\ n >= 1 /\ IsNumber(first) -> IF AsHalves(first) = 0 THEN Hangs ELSE Beyond
          [] class = "request" /\ method \in {"getRequestURI", "getRequestURL"} -> Str(e.site.uri)
          [] class = "request" /\ method = "getParameter" /\ n = 1 ->
               Str(IF AsString(first) \in DOMAIN e.site.parameters
                   THEN e.site.parameters[AsString(first)] ELSE << >>)
          [] class = "security" /\ method = "hasRole" /\ n = 1 /\ Type(first) = "string" ->
               Bool(Type(roles) = "array" /\ Has(roles, first))
          [] class = "security" /\ method = "authorized" -> Bool(Type(AtKey(user, Text("username"))) = "string")
          [] class = "security" /\ method = "username" -> AtKey(user, Text("username"))
          [] class = "dates" /\ method = "format" /\ n = 2 /\ Type(first) = "string" -> Unspecified
          [] OTHER -> Null

Arguments(e, tok, args) ==
    LET on(x) == IF x.tok.t = "," THEN Arguments(e, Skip(e, x.tok), Append(args, x.v))
                 ELSE [args |-> Append(args, x.v), tok |-> Match(e, x.tok, ")")]
    IN  IF tok.t = ")" THEN [args |-> args, tok |-> Skip(e, tok)] ELSE on(parse_expr(e, tok))

parse_utility_expr(e, tok) ==
    LET arguments(after) == IF after.t = "(" THEN Arguments(e, Skip(e, after), << >>)
                            ELSE [args |-> << >>, tok |-> after]
        evaluated(method, call) ==
            IF Stopped(call.tok) THEN Give(Null, call.tok)
            ELSE Give(Utility(e, Last(tok.text), method.text[1], call.args), call.tok)
        then(method) == evaluated(method, arguments(Match(e, method, "object")))
    IN  then(Match(e, Skip(e, tok), "."))

(* A list, between braces: at least one element.                           *)
List(e, r) ==
    LET pushed(x) == Give(PushBack(r.v, x.v), x.tok)
        on(l) == IF l.tok.t = "," THEN List(e, [l EXCEPT !.tok = Skip(e, l.tok)])
                 ELSE Closed(e, l, "}")
    IN  on(pushed(parse_expr(e, r.tok)))

parse_primary_expr(e, tok) ==
    LET next == Skip(e, tok)
    IN  CASE tok.t \in {"true", "false"} -> Give(Bool(tok.t = "true"), next)
          [] tok.t = "number" -> Give(tok.v, next)
          [] tok.t = "string" -> Give(Str(tok.text), next)
          [] tok.t = "(" -> Closed(e, parse_expr(e, next), ")")
          [] tok.t = "hash" -> parse_utility_expr(e, tok)
          [] tok.t = "{" -> List(e, Give(Null, next))
          [] tok.t = "|" -> Closed(e, parse_literal_substitution(e, next), "|")
          [] tok.t = "object" -> Steps(e, Give(lookup(e.scopes, tok.text, FALSE), next), FALSE)
          [] tok.t \in {"${", "@{", "*{"} -> parse_template_expr(e, tok, FALSE)
          [] tok.t = "~{" -> Closed(e, parse_fragment_expr(e, next), "}")
          [] Stopped(tok) -> Give(Null, tok)
          [] OTHER -> Give(Null, Stop("throws"))

-----------------------------------------------------------------------------
(* The entries of the interpreter.  Where it catches an exception it gives *)
(* a message, here Mistake.                                                *)
Mistake == Str(Text("Error parsing expression"))
First(e) == e.tokens[1, FALSE]
Whole(e, r) == IF Stopped(r.tok) THEN [fails |-> r.tok.t] ELSE IF r.tok.t # "eof" THEN Throws ELSE r.v
OrMistake(v) == IF v = Throws THEN Mistake ELSE v
evaluate(e) == OrMistake(IF First(e).t = "eof" THEN Null ELSE Whole(e, parse_expr(e, First(e))))

(* process: the text that takes the place of the expression, and the       *)
(* expression itself when it cannot be evaluated (process_el_2).           *)
process_el_2(e) ==
    LET then(v) == IF v = Throws THEN e.text ELSE IF Type(v) = "null" THEN << >> ELSE AsString(v)
    IN  then(IF First(e).t = "eof" THEN Null ELSE Whole(e, parse_expr(e, First(e))))

(* evaluate_link.                                                          *)
evaluate_link(e) ==
    LET within == First(e).t = "@{"
        closed(r) == IF within THEN Closed(e, r, "}") ELSE r
    IN  OrMistake(Whole(e,
            IF First(e).t \in {"object", "::", "@{"}
            THEN closed(parse_fragment_expr(e, IF within THEN Skip(e, First(e)) ELSE First(e)))
            ELSE parse_primary_expr(e, First(e))))

(* evaluate_assert: stops at the first that does not hold, and does not    *)
(* look at what comes after the last.                                      *)
RECURSIVE Asserted(_, _), Assigned(_, _, _), Attributes(_, _, _)
Asserted(e, tok) ==
    LET then(r) ==
            IF Stopped(r.tok) THEN Throws
            ELSE IF ~Truth(r.v) THEN Bool(FALSE)
            ELSE IF r.tok.t = "," THEN Asserted(e, Skip(e, r.tok)) ELSE Bool(TRUE)
    IN  then(parse_expr(e, tok))
evaluate_assert(e) == Asserted(e, First(e))

(* evaluate_attr_expr: name and value pairs.                               *)
Attributes(e, tok, acc) ==
    LET then(r) ==
            LET a == Append(acc, <<tok.text, AsString(r.v)>>)
            IN  IF Stopped(r.tok) THEN <<"throws">>
                ELSE IF r.tok.t = "," THEN Attributes(e, Skip(e, r.tok), a)
                ELSE IF r.tok.t = "eof" THEN a ELSE <<"throws">>
    IN  then(parse_expr(e, Match(e, Match(e, tok, "object"), "=")))
evaluate_attr_expr(e) == Attributes(e, First(e), << >>)

(* evaluate_with assigns to the scope it looks names up in, one by one; a  *)
(* mistake leaves what was assigned before it.  Commas are not required.   *)
Assigned(e, tok, scopes) ==
    LET assign(r) == IF Stopped(r.tok) THEN [scopes |-> scopes, ok |-> FALSE]
                     ELSE Assigned(e, IF r.tok.t = "," THEN Skip(e, r.tok) ELSE r.tok,
                                   put(scopes, tok.text, r.v))
    IN  IF tok.t # "object" THEN [scopes |-> scopes, ok |-> tok.t = "eof"]
        ELSE assign(parse_expr([e EXCEPT !.scopes = scopes],
                               Match(e, Match(e, tok, "object"), "=")))
evaluate_with(e) == Assigned(e, First(e), e.scopes)

-----------------------------------------------------------------------------
(* Expressions as they are meant, and how they are written.                *)
Lit(v, text) == [op |-> "literal", v |-> v, text |-> text]
Var(name) == [op |-> "variable", name |-> name]
Chosen(name) == [op |-> "selected", name |-> name]
Bin(f, l, r) == [op |-> "binary", f |-> f, l |-> l, r |-> r]
Minus(x) == [op |-> "negate", l |-> x]
Not(x) == [op |-> "not", l |-> x]
If(c, a, b) == [op |-> "if", c |-> c, a |-> a, b |-> b]
Elvis(c, a) == [op |-> "elvis", c |-> c, a |-> a]
ListOf(xs) == [op |-> "list", xs |-> xs]
Dot(x, name) == [op |-> "member", l |-> x, name |-> name]
AtPlace(x, i) == [op |-> "index", l |-> x, r |-> i]
Call(class, method, xs) == [op |-> "call", class |-> class, method |-> method, xs |-> xs]

OneFails(vs) == \E i \in DOMAIN vs : Fails(vs[i])
FirstFailure(vs) == vs[Min({i \in DOMAIN vs : Fails(vs[i])})]

RECURSIVE Meaning(_, _)
Meaning(e, x) ==
    LET m(y)  == Meaning(e, y)
        all(ys, v) == IF OneFails(ys) THEN FirstFailure(ys) ELSE v
    IN  CASE x.op = "literal" -> x.v
          [] x.op = "variable" -> lookup(e.scopes, Text(x.name), FALSE)
          [] x.op = "selected" -> LET v == lookup(e.scopes, Text(x.name), FALSE)
                                  IN  IF x.name \in {n[1] : n \in DOMAIN Last(e.scopes).data} THEN v
                                      ELSE IF Type(Last(e.scopes).selected) = "null" THEN Null
                                      ELSE AtKey(Last(e.scopes).selected, Text(x.name))
          [] x.op = "binary" -> LET l == m(x.l) r == m(x.r) IN all(<<l, r>>, Apply(x.f, l, r))
          [] x.op = "negate" -> LET l == m(x.l) IN all(<<l>>, Negate(l))
          [] x.op = "not" -> LET l == m(x.l) IN all(<<l>>, Bool(~Truth(l)))
          [] x.op = "if" -> LET c == m(x.c) a == m(x.a) b == m(x.b)
                            IN  all(<<c, a, b>>, IF Truth(c) THEN a ELSE b)
          [] x.op = "elvis" -> LET c == m(x.c) a == m(x.a) IN all(<<c, a>>, IF Truth(c) THEN c ELSE a)
          [] x.op = "list" -> LET vs == [i \in DOMAIN x.xs |-> m(x.xs[i])] IN all(vs, Array(vs))
          [] x.op = "member" -> LET l == m(x.l) IN all(<<l>>, Member(l, Text(x.name), FALSE))
          [] x.op = "index" -> LET l == m(x.l) r == m(x.r) IN all(<<l, r>>, Index(l, r, FALSE))
          [] x.op = "call" -> LET vs == [i \in DOMAIN x.xs |-> m(x.xs[i])]
                              IN  all(vs, Utility(e, x.class, x.method, vs))

LevelOf(x) == CASE x.op = "binary" -> CHOOSE n \in DOMAIN Levels : x.f \in Levels[n]
                [] x.op \in {"if", "elvis"} -> 0
                [] x.op \in {"negate", "not"} -> 7
                [] OTHER -> 8
Spelled(f, words) ==
    LET as == {w \in DOMAIN Keywords : Keywords[w] = f}
    IN  CASE f = "not" -> <<"not", " ", "in">>
          [] f # "not" /\ as # {} /\ (words \/ f = "%") -> <<CHOOSE w \in as : TRUE>>
          [] OTHER -> CASE f = "==" -> <<"=", "=">> [] f = "!=" -> <<"!", "=">>
                        [] f = "<=" -> <<"<", "=">> [] f = ">=" -> <<">", "=">> [] OTHER -> <<f>>

(* x where an operand of the given level is due, with parentheses only     *)
(* where the levels call for them.                                         *)
RECURSIVE Write(_, _, _)
Write(x, level, words) ==
    LET w(y, n) == Write(y, n, words)
        sp      == <<" ">>
        listed(xs) == Between([i \in DOMAIN xs |-> w(xs[i], 0)], <<",">>)
    IN  CASE level > LevelOf(x) -> <<"(">> \o w(x, 0) \o <<")">>
          [] x.op = "literal" -> x.text
          [] x.op = "variable" -> <<x.name>>
          [] x.op = "selected" -> <<"*", "{", x.name, "}">>
          [] level <= LevelOf(x) /\ x.op = "binary" ->
               w(x.l, LevelOf(x) + IF LevelOf(x) \in Once THEN 1 ELSE 0)
               \o sp \o Spelled(x.f, words) \o sp \o w(x.r, LevelOf(x) + 1)
          [] level <= LevelOf(x) /\ x.op = "negate" -> <<"-">> \o w(x.l, 8)
          [] level <= LevelOf(x) /\ x.op = "not" -> <<"not", " ">> \o w(x.l, 8)
          [] level <= LevelOf(x) /\ x.op = "if" ->
               w(x.c, 1) \o <<" ", "?", " ">> \o w(x.a, 0) \o <<" ", ":", " ">> \o w(x.b, 0)
          [] level <= LevelOf(x) /\ x.op = "elvis" -> w(x.c, 1) \o <<" ", "?", ":", " ">> \o w(x.a, 0)
          [] x.op = "list" -> <<"{">> \o listed(x.xs) \o <<"}">>
          [] x.op = "member" -> w(x.l, 8) \o <<".", x.name>>
          [] x.op = "index" -> w(x.l, 8) \o <<"[">> \o w(x.r, 0) \o <<"]">>
          [] x.op = "call" -> <<"#", x.class, ".", x.method, "(">> \o listed(x.xs) \o <<")">>

-----------------------------------------------------------------------------
(* A page is made: scopes are entered and left, names get values, and      *)
(* expressions, texts, links and selectors are evaluated.                  *)
CONSTANTS Expressions,   \* the expressions evaluated
          Assignments,   \* what z:with assigns: sequences of names and expressions
          Objects,       \* what is selected
          Names,         \* the names looked up
          Substitutions, \* the pieces of texts between bars
          Links,         \* links: a path and its parameters
          SelectorParts, \* selectors, all but the first begin with a slash
          Site,          \* what the scopes know of server and request
          MaxDepth       \* scopes on top of each other (1000 in the code)

VARIABLES scopes,   \* the chain of scopes, the innermost first
          copies,   \* for each scope, what a name means in it
          last      \* what was evaluated last, and what it gave

elVars == <<scopes, copies, last>>

Env(text) == [text |-> text, tokens |-> Tokens(text), scopes |-> scopes, site |-> Site]
Nothing == [kind |-> "nothing"]

Init == /\ scopes = <<Scope(<< >>)>>
        /\ copies = <<[n \in Names |-> Null]>>
        /\ last = Nothing

Enter == /\ last = Nothing /\ Len(scopes) <= MaxDepth
         /\ scopes' = <<Scope(<< >>)>> \o scopes
         /\ copies' = <<copies[1]>> \o copies
         /\ UNCHANGED last

Leave == /\ last = Nothing /\ Len(scopes) > 1
         /\ scopes' = Tail(scopes)
         /\ copies' = Tail(copies)
         /\ UNCHANGED last

(* z:with.  The copies are given the values one after the other.           *)
With(as) ==
    LET text   == Between([i \in DOMAIN as |-> <<as[i].name, "=">> \o Write(as[i].x, 0, FALSE)], <<",">>)
        flat(c) == [e |-> [Env(<< >>) EXCEPT !.scopes = <<Scope([t \in {Text(n) : n \in Names} |-> c[t[1]]])>>]]
        values == FoldLeft(LAMBDA acc, a :
                             LET v == Meaning(flat(acc.c).e, a.x)
                             IN  IF ~acc.ok \/ Fails(v) THEN [acc EXCEPT !.ok = FALSE]
                                 ELSE [acc EXCEPT !.c[a.name] = v],
                           [c |-> copies[1], ok |-> TRUE], as)
    IN  /\ last = Nothing
        /\ scopes' = evaluate_with(Env(text)).scopes
        /\ copies' = [copies EXCEPT ![1] = values.c]
        /\ UNCHANGED last

(* A handler looks a name up in a scope it may change.                     *)
Touch(n) == /\ last = Nothing
            /\ scopes' = lookupOrCreate(scopes, Text(n))
            /\ UNCHANGED <<copies, last>>

select_object(o) == /\ last = Nothing /\ scopes[1].selected = Null
                    /\ scopes' = [scopes EXCEPT ![1].selected = o]
                    /\ UNCHANGED <<copies, last>>

(* An evaluation depends on the scopes only through lookup, so it is       *)
(* enough to ask in the outermost one.                                     *)
Asking == last = Nothing /\ Len(scopes) = 1 /\ UNCHANGED <<scopes, copies>>

Evaluate(x, words) ==
    /\ Asking
    /\ last' = [kind |-> "expression", value |-> evaluate(Env(Write(x, 0, words))),
                meant |-> OrMistake(Meaning(Env(<< >>), x))]

(* Text between bars.  A piece is a token of text, or an expression.       *)
Piece(p) == IF p.op = "text" THEN p.text ELSE <<"$", "{">> \o Write(p, 0, FALSE) \o <<"}">>
Reads(p) == IF p.op = "text" THEN p.text ELSE AsString(Meaning(Env(<< >>), p))
Substitute(ps) ==
    /\ Asking
    /\ last' = [kind |-> "text", pieces |-> ps,
                value |-> process_el_2(Env(<<"|">> \o FlattenSeq([i \in DOMAIN ps |-> Piece(ps[i])]) \o <<"|">>)),
                meant |-> FlattenSeq([i \in DOMAIN ps |-> Reads(ps[i])])]

(* A link, and what is asked of it: every place holder that has a          *)
(* parameter filled, and the other parameters in the query.                *)
Link(l) ==
    LET given  == DOMAIN l.params
        holders == {n \in given : Find(l.path, <<"{", n, "}">>) # -1}
        order  == SetToSeq(given)
        text   == <<"@", "{">> \o l.path \o
                  (IF given = {} THEN << >>
                   ELSE <<"(">> \o Between([i \in DOMAIN order |->
                                              <<order[i], "=", "'">> \o l.params[order[i]] \o <<"'">>], <<",">>)
                        \o <<")">>) \o <<"}">>
    IN  /\ Asking
        /\ last' = [kind |-> "link", path |-> l.path, params |-> l.params, holders |-> holders,
                    value |-> evaluate(Env(text))]

Select(first, second) ==
    LET fragment(s) == evaluate_link(Env(<<"~", "{", "x", ":", ":">> \o s \o <<"}">>))
    IN  /\ Asking
        /\ last' = [kind |-> "selector", one |-> first, other |-> second,
                    value |-> [s \in {first, second, first \o second} |-> fragment(s)]]

Next == \/ Enter \/ Leave
        \/ \E as \in Assignments : With(as)
        \/ \E n \in Names : Touch(n)
        \/ \E o \in Objects : select_object(o)
        \/ \E x \in Expressions, words \in BOOLEAN : Evaluate(x, words)
        \/ \E ps \in Substitutions : Substitute(ps)
        \/ \E l \in Links : Link(l)
        \/ \E s, t \in SelectorParts : Select(s, t)

Spec == Init /\ [][Next]_elVars

-----------------------------------------------------------------------------
(* An expression has the value of the tree it was written for: operators   *)
(* bind by their level and group to the left, words and signs are the same *)
(* operators, and an exception anywhere in it, in the branch of a choice   *)
(* that is not taken too, is what the whole gives.                         *)
ValueAsMeant == last.kind = "expression" => last.value = last.meant

(* The chain of scopes does what copying all names on entry would do: a    *)
(* name has the value last given to it in the innermost scope that is      *)
(* still open, whatever was assigned, shadowed, or left; and assignments   *)
(* see those before them.                                                  *)
ScopesAsCopies == \A n \in Names : lookup(scopes, Text(n), FALSE) = copies[1][n]

(* Text between bars keeps every token and every blank, but for those at   *)
(* its very beginning, whatever expressions stand in it.                   *)
TextKept == last.kind = "text" =>
              last.value = IF last.pieces = << >> THEN << >>
                           ELSE SubSeq(last.meant, Span(last.meant, 1, LAMBDA c : c \in Blank), Len(last.meant))

(* The parameters of a link all arrive: a parameter of which the path has  *)
(* a placeholder fills every one of them and is not in the query; each of  *)
(* the others is in the query once.                                        *)
LinkComplete ==
    last.kind = "link" =>
      LET filled == FlattenSeq([i \in DOMAIN last.path |->
                       LET p == last.path
                       IN  IF i < Len(p) /\ i > 1 /\ p[i - 1] = "{" /\ p[i + 1] = "}" /\ p[i] \in last.holders
                           THEN last.params[p[i]]
                           ELSE IF (p[i] = "{" /\ At(p, i + 1) \in last.holders /\ At(p, i + 2) = "}")
                                   \/ (p[i] = "}" /\ At(p, i - 1) \in last.holders /\ At(p, i - 2) = "{")
                           THEN << >> ELSE <<p[i]>>])
          rest   == DOMAIN last.params \ last.holders
          orders == {o \in [1..Cardinality(rest) -> rest] : IsInjective(o)}
          query(o) == Between([i \in DOMAIN o |->
                        <<o[i]>> \o IF last.params[o[i]] = << >> THEN << >>
                                    ELSE <<"=">> \o encode_url(last.params[o[i]])], <<"&">>)
          root   == last.path # << >> /\ last.path[1] = "/" /\ Site.context # << >>
          path   == IF root THEN <<"/">> \o Site.context \o filled ELSE filled
      IN  \E o \in orders :
            last.value = Str(path \o IF rest = {} THEN << >> ELSE <<"?">> \o query(o))

(* The path of a selector is that of its parts put together, and it goes   *)
(* by an id when one of them does.                                         *)
SelectorsCompose ==
    last.kind = "selector" =>
      LET sel(s)  == last.value[s].object[Text("selector")]
          path(s) == AtKey(sel(s), Xpath).string
          byId(s) == Truth(AtKey(sel(s), Text("by-id")))
          both    == last.one \o last.other
      IN  Mistake \notin {last.value[last.one], last.value[last.other]} =>
            /\ last.value[both] # Mistake
            /\ path(both) = path(last.one) \o path(last.other)
            /\ byId(both) <=> byId(last.one) \/ byId(last.other)

(* Nothing that a text, a link or a selector is written from is lost,      *)
(* doubled or put elsewhere.                                               *)
PiecesKept == TextKept /\ LinkComplete /\ SelectorsCompose
=============================================================================
