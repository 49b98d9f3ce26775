------------------------ MODULE MCExpressionLanguage ------------------------
(* Expressions of up to three operators over every kind of element, texts  *)
(* between bars of up to three pieces, links with up to two parameters,    *)
(* and three scopes.                                                       *)
EXTENDS ExpressionLanguage

One == Lit(Integer(1), <<"1">>)
Two == Lit(Integer(2), <<"2">>)
Ten == Lit(Integer(10), <<"1", "0">>)
Half == Lit(Float(1), <<"0", ".", "5">>)
Yes == Lit(Bool(TRUE), <<"true">>)
No == Lit(Bool(FALSE), <<"false">>)
S(c) == Lit(Str(<<c>>), <<"'", c, "'">>)
None == Lit(Str(<< >>), <<"'", "'">>)
A == Var("a")
B == Var("b")
OneTwo == ListOf(<<One, Two>>)
Operators == UNION {Levels[n] : n \in DOMAIN Levels}
Some == {One, Ten, Half, S("x"), A}
Atoms == Some \cup {Two, Yes, No, None, OneTwo, B, Minus(One), Not(A), Dot(A, "count"), Dot(B, "empty"),
                    AtPlace(A, One), AtPlace(A, Minus(One)), Dot(A, "x"), Chosen("a"), Bin("+", Chosen("x"), A), Call("security", "hasRole", <<S("x")>>),
                    Call("numbers", "formatDecimal", <<Half, Two, One>>), Call("request", "getRequestURI", << >>),
                    Call("request", "getParameter", <<S("a")>>), Call("security", "username", << >>),
                    Call("security", "authorized", << >>), Call("numbers", "formatDiskSize", <<Ten>>)}
Doubles == {Bin(f, l, r) : f \in Operators, l \in Some, r \in Some \cup {OneTwo}}
Triples == {Bin(f, Bin(g, Two, One), Half) : f, g \in Operators}
           \cup {Bin(f, Ten, Bin(g, Two, One)) : f, g \in Operators}
           \cup {Bin(f, Bin(g, A, One), Not(Bin(h, One, Two))) : f, g, h \in {"or", "==", "<", "+", "*"}}
Ternaries == {If(c, a, b) : c \in {A, No, Bin("and", Yes, A)}, a \in {One, Elvis(A, Two)}, b \in {S("x"), If(A, One, Two)}}
           \cup {Elvis(c, Bin("+", a, a)) : c \in {A, B, None}, a \in {One, Yes, If(B, One, Two)}}
           \cup {Bin("+", If(A, One, Two), One), Not(If(A, One, Two)), ListOf(<<If(A, One, Two), Bin("or", A, B)>>)}
MCExpressions == Atoms \cup Doubles \cup Triples \cup Ternaries

Sets(n, x) == [name |-> n, x |-> x]
MCAssignments == {<<Sets("a", One)>>, <<Sets("b", A), Sets("a", S("x"))>>,
                  <<Sets("a", OneTwo), Sets("b", Bin("-", A, One)), Sets("a", Two)>>}
MCObjects == {Object((<<"a">> :> Integer(1)) @@ (<<"x">> :> Integer(2)))}
MCNames == {"a", "b"}

T(s) == [op |-> "text", text |-> <<s>>]
Bits == {T("x"), T(" "), T("1"), T("="), A, Bin("+", One, Two), Var("b")}
MCSubstitutions == {<< >>} \cup UNION {[1..n -> Bits] : n \in 1..3}

Paths == {<<"x">>, <<"/", "x">>, <<"/", "x", "/", "{", "a", "}">>, <<"{", "a", "}", "/", "{", "b", "}", "/", "{", "a", "}">>,
          <<"{", "a", "}", "{", "a", "}">>, <<"{", "c", "}", "/", "{", "b", "}">>}
Given == {<< >>, <<"1">>, <<"&", "x">>}
MCLinks == {[path |-> p, params |-> q] : p \in Paths, q \in UNION {[P -> Given] : P \in SUBSET {"a", "b"}}}

MCSelectorParts == {<<"/", "x">>, <<"/", "/", "x">>, <<"/", "x", "#", "a">>, <<"/", "/", "x", ".", "b", "[", "1", "]">>,
                    <<"/", "text", "(", ")">>, <<"/", "processing-instruction", "(", ")">>, <<"/", "x", "(", "1", ",", "2", ")">>, <<"/", "[", "2", "]", "#", "b">>,
                    <<"/", "#", "a", ".", "b">>, <<"/", "x", "[", "y">>}

MCSite == [context     |-> <<"c">>, uri |-> <<"/", "x">>, parameters |-> <<"a">> :> <<"1">>,
           credentials |-> Object((<<"role">> :> Array(<<Str(<<"x">>)>>)) @@ (<<"username">> :> Str(<<"y">>)))]
=============================================================================
