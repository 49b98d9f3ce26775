----------------------------- MODULE MCLibrary -----------------------------
EXTENDS Library

UpTo(S, n) == UNION {[1..k -> S] : k \in 0..n}

\* Messages of a hash come in pieces around the size of a block; every byte of a
\* piece tells its place and the length of the piece.
MCChunks == {[i \in 1..n |-> 10 * n + i] : n \in {0, 1, 2, 3, 5, 8}}

\* Bytes at the edges of base64 and of the escapes: 0, plus, percent, a letter, 251, 255.
MCData == UpTo({0, 43, 37, 251, 255}, 4) \cup UpTo({97, 190}, 7)
MCWidths == {0, 3, 4, 76}

\* Names that begin one another, and values that are names.
MCNames == {<<"a">>, <<"a", "b">>, <<"b">>}
Pair(n, v, bare) == [name |-> n, value |-> v, bare |-> bare]
MCPairs == {Pair(n, v, FALSE) : n \in MCNames, v \in {<<>>, <<"a">>, <<"b", "a">>}}
           \cup {Pair(n, <<>>, TRUE) : n \in MCNames}
MCQueries == UpTo(MCPairs, 3)

Header(n, v) == [name |-> n, value |-> v]
MCCookies == UpTo({Header("Cookie", <<"a", "=", "x">>),
                   Header("Cookie", <<"a", "=", "y", ";", " ", "b", "=", "z">>),
                   Header("COOKIE", <<"a", "b", "=", "u", ";", "a", "=", "w", ";", "b">>),
                   Header("Host", <<"h">>)}, 4)

\* Contents that look like the start of a part, with blank lines, or with nothing.
Content == {<<>>, <<R!Line("text", "x")>>,
            <<R!Line("disposition", "a"), R!Blank, R!Line("text", "y")>>}
MCForms == UpTo([name : {"a", "b"}, extra : {<<>>, <<R!Line("type", "t")>>}, content : Content], 3)

\* Every short pattern without groups, and short patterns and pairs of alternatives
\* with groups, some of them empty in part, nested, or with a slash or a star at an end.
Sym(c) == [symbol |-> c, options |-> << >>]
Group(options) == [symbol |-> "group", options |-> options]
OneA == <<Sym("a")>>
Parts == {Sym("a"), Sym("/"), Sym("*"), Group(<<OneA, <<Sym("b")>>>>), Group(<< <<Sym("a"), Sym("/")>>, << >> >>),
          Group(<<<<Sym("*"), Sym("*"), Sym("/")>>, <<Sym("?")>>>>),
          Group(<<OneA, <<Group(<<<<Sym("/")>>, <<Sym("b"), Sym("*")>>>>), Sym("a")>>>>)}
MCPatterns == {<<p>> : p \in UpTo({Sym(c) : c \in {"a", "/", "*", "?"}}, 4)} \cup {<<p>> : p \in UpTo(Parts, 2)}
              \cup {<<p, q>> : p, q \in UpTo(Parts \ {Sym("*")}, 1)}
MCPaths == UpTo({"a", "b", "/"}, 3)

Scalars == {J!Null, J!Bool(TRUE), J!Bool(FALSE), J!Integer(2), J!Integer(-1), J!Float(4),
            J!Float(5), J!Float(-199999), J!Float(200001), J!Float(1999995), J!Str(<<>>), J!Str(<<"\"", "\\">>), J!Str(<<"\\", "n">>),
            J!Str(<<"/", "\n", "\f">>), J!Str(<<"2">>)}
Key == {<<>>, <<"a">>, <<"a", "b">>}
MCValues == Scalars \cup {J!Array(a) : a \in UpTo({J!Null, J!Integer(2), J!Float(5), J!Array(<<>>)}, 2)}
            \cup UNION {{J!Object(o) : o \in [S -> {J!Integer(2), J!Str(<<"a">>), J!Array(<<J!Null>>)}]} :
                          S \in {K \in SUBSET Key : Cardinality(K) <= 2}}

\* Pages of one or two nodes below a root, with every two or three attributes that
\* work on one another, and fragments with an argument in a file and in the page.
\* The nodes of a page depend on no constant.
N == INSTANCE TagProcessor WITH Shared <- << >>, CsrfToken <- << >>
W(x) == N!Word(x)
V(x) == <<N!Item("${", x)>>
Z(name, v) == N!Attr("z", name, v)
Show(x) == N!Txt(<<W("x: "), N!Item("[[", x)>>)
Loop(var, list) == <<N!Item("each", var), N!Item("stat", "s"), N!Item("${", list)>>
MCShared == N!Elt("file", <<>>,
    << N!Elt("p", <<Z("fragment", <<N!Item("fragment", "f"), N!Item("arg", "p")>>), N!Attr("", "id", <<W("i")>>)>>,
             <<Show("p"), N!Elt("i", <<Z("each", Loop("v", "list"))>>, <<Show("v")>>)>>),
       N!Elt("q", <<Z("fragment", <<N!Item("fragment", "g"), N!Item("arg", "p")>>), Z("if", V("p"))>>,
             <<N!Elt("b", <<Z("replace", V("p"))>>, <<>>), N!Txt(<<W("end")>>)>>) >>)
MCGlobals == [a |-> N!StringOf(<<W("aa")>>), n |-> N!Null, no |-> N!TruthOf(FALSE),
              m |-> N!Markup(<<N!Elt("em", <<>>, <<N!Txt(<<W("mm")>>)>>)>>),
              o |-> N!ObjectOf(N!StringOf(<<W("oo")>>)),
              list |-> N!ListOf(<<N!StringOf(<<W("l1")>>), N!StringOf(<<>>), N!StringOf(<<W("aa")>>)>>)]
MCToken == <<W("token")>>

Use(file, name, params) == <<N!Item(file, name)>> \o params
Each == Z("each", Loop("v", "list"))
Clauses ==
    {Each, Z("if", V("v")), Z("unless", V("s.last")), Z("with", <<N!Item("with", "v")>> \o V("a")),
     Z("object", V("o")), Z("text", V("v")), Z("utext", V("m")), Z("attr", <<N!Item("attr", "title")>> \o V("v")),
     Z("classappend", V("v")), Z("styleappend", V("a")), Z("title", V("a")), Z("checked", V("v")),
     Z("remove", <<W("tag")>>), Z("remove", <<W("body")>>), Z("remove", <<W("all-but-first")>>), Z("remove", <<W("all")>>),
     Z("inline", <<W("text")>>), Z("inline", <<W("javascript")>>), Z("inline", <<W("none")>>),
     Z("insert", Use("file", "f", V("v"))), Z("replace", Use("file", "f", V("a"))),
     Z("include", Use("file", "f", V("v"))), Z("replace", Use("file", "g", <<N!Item("this", "u")>>)),
     Z("insert", Use("this", "u", <<>>)), Z("assert", V("v")), Z("with", <<N!Item("with", "v"), N!Item("${", "bad")>>),
     Z("replace", Use("nofile", "f", <<>>)), Z("switch", V("v")), Z("if", V("bad"))}
Old == <<N!Attr("", "class", <<W("old")>>), N!Attr("", "style", <<W("old")>>), N!Attr("", "checked", <<W("checked")>>)>>
Body == <<Show("v"), N!Elt("b", <<Z("case", V("a"))>>, <<N!Txt(<<N!Item("[(", "m")>>)>>),
          N!Elt("i", <<Z("case", <<W("*")>>), Z("if", V("v"))>>, <<N!Txt(<<N!Item("[[", "v"), W("and"), N!Item("*{", "member")>>)>>)>>
Distinct(s) == \A i, j \in DOMAIN s : i < j => s[i].name # s[j].name
Two == {c \in Clauses \X Clauses : Distinct(c)}
\* text and utext are given bodies without elements, too.
Kids(c) == IF c[1].name \in {"text", "utext"} \/ c[2].name \in {"text", "utext"} THEN {<<Show("v")>>, Body} ELSE {Body}
MCElements == {N!Elt("z:block", Append(Old, c), Body) : c \in Clauses}
              \cup UNION {{N!Elt("form", Old \o c, k) : k \in Kids(c)} : c \in Two}
              \cup UNION {{N!Elt("form", c \o Old \o <<Each>>, k) : k \in Kids(c)} :
                            c \in {c \in Two : Each \notin N!ToSet(c)}}
Mixed == N!Txt(<<N!Item("[(", "m"), W("tail"), N!Item("[[", "a"), N!Item("[[", "a")>>)
Beside == {N!Elt("form", <<c>>, <<Show("a"), T!CsrfField>>) : c \in Clauses} \cup {Mixed}
\* The parser of pages leaves no two texts side by side.
Between(e, f) == IF Mixed \in {e, f} THEN N!Elt("hr", <<>>, <<>>) ELSE N!Txt(<<W("text")>>)
Target == N!Elt("u", <<Z("ref", <<N!Item("ref", "u")>>)>>, <<Show("a")>>)
MCPages == {N!Elt("html", <<>>, <<e, Target>>) : e \in MCElements}
           \cup {N!Elt("html", <<>>, <<e, Between(e, f), f, Target>>) : e, f \in Beside}
=============================================================================
