------------------------------ MODULE MCXPath ------------------------------
(* Documents of a root element with three nodes below it in every shape,   *)
(* elements a and b and texts, and an attribute; expressions of one or two *)
(* steps with predicates and operators.                                    *)
EXTENDS XPath

Shapes == {p \in [1..4 -> 0..3] :
             /\ p[1] = 0 /\ p[2] = 1 /\ p[3] \in {1, 2}
             /\ p[4] \in IF p[3] = 1 THEN {1, 3} ELSE {1, 2, 3}}
Kinds(p) == {k \in [1..4 -> {"element", "text"}] :
               /\ k[1] = "element"
               /\ \A i \in 1..4 : k[i] = "text" => \A j \in 1..4 : p[j] # i}
MCDocuments ==
    UNION {{[kind   |-> [i \in 0..5 |-> IF i = 0 THEN "document" ELSE IF i = 5 THEN "attribute" ELSE k[i]],
             parent |-> [i \in 1..5 |-> IF i = 5 THEN 1 ELSE p[i]],
             name   |-> [i \in 0..5 |-> IF i \in {2, 4} THEN "b" ELSE "a"],
             text   |-> [i \in 0..5 |-> IF i = 5 THEN <<"2">> ELSE <<"b">>]] : k \in Kinds(p)} : p \in Shapes}

A == Step("child", "name", "a")
Star == Step("child", "name", "*")
Node(axis) == Step(axis, "type", "node")
AttrA == Step("attribute", "name", "a")
OneStep == {Step(a, "name", n) : a \in AxisNames, n \in {"b", "*"}}
           \cup {Step(a, "type", n) : a \in AxisNames, n \in {"node", "text"}}
N(k) == [op |-> "number", val |-> k]
L(s) == [op |-> "literal", val |-> s]
Call(f, args) == [op |-> "call", f |-> f, args |-> args]
Bin(f, l, r) == [op |-> "binary", f |-> f, l |-> l, r |-> r]
Neg(x) == [op |-> "negate", l |-> x]
Pred(p, x) == Two("predicate", p, x)
Path(l, r) == Two("path", l, r)
V == [op |-> "variable", val |-> "v"]
Pos == Call("position", << >>)
LastF == Call("last", << >>)

Tests == {N(1), N(2), LastF, Bin("=", Pos, LastF), Bin("<", Pos, N(2)), AttrA, Bin("=", AttrA, N(2)),
          Bin("=", Path(Node("self"), A), L(<<"b">>)), Bin("or", Bin("and", A, Star), AttrA),
          Bin("and", Bin("or", A, Star), AttrA), Bin("=", Bin("mod", Pos, N(2)), N(0)),
          Bin("=", Bin("-", Bin("-", LastF, Pos), N(1)), Bin("-", LastF, Bin("-", Pos, N(1)))),
          Bin(">=", Bin("*", Pos, Bin("+", N(1), N(1))), Neg(Neg(LastF))), Bin("=", Node("self"), V),
          Bin("=", Call("string", << >>), V), Call("not", <<Path(Node("parent"), AttrA)>>),
          Bin("!=", Call("count", <<Two("union", A, Star)>>), N(0)),
          Bin("<", Bin("<=", N(0), N(1)), Bin(">", N(1), N(0))), Bin("=", Pos, Call("number", <<AttrA>>))}
MCExpressions ==
    OneStep
    \cup {Pred(Step(a, "name", "*"), x) : a \in {"child", "ancestor", "preceding"}, x \in Tests}
    \cup {Path(Path(Node("self"), Node("descendant-or-self")), c) : c \in {A, Star, Step("child", "type", "text")}}
    \cup {Path(Root, Path(Path(Node("descendant-or-self"), Pred(Pred(A, AttrA), N(1))), Node("parent"))),
          Path(Path(Star, Node("parent")), Node("parent")), Two("union", Two("union", A, Star), Path(Root, A)),
          Path(Star, Pred(Node("self"), Pred(A, N(1)))), Path(Node("parent"), Node("self")),
          Pred(A, Path(Pred(V, N(1)), A)), Pred(A, Neg(Two("union", A, Star)))}

Strings == {<< >>, <<"a">>, <<"a", "b">>, <<" ", "a", " ">>, <<"a", " ", " ", "a">>}
Eq(x, y) == Bin("=", x, y)
Len2(x) == Call("length", <<x>>)
MCLaws ==
    UNION {{Bin("or", Call("not", <<Call("contains", <<L(s), L(t)>>)>>),
                Bin("or", Eq(Call("concat", <<Call("before", <<L(s), L(t)>>), L(t),
                                              Call("after", <<L(s), L(t)>>)>>), L(s)),
                          Eq(L(t), L(<< >>)))),
            Eq(Len2(Call("concat", <<L(s), L(t)>>)), Bin("+", Len2(L(s)), Len2(L(t)))),
            Call("starts", <<Call("concat", <<L(s), L(t)>>), L(s)>>),
            Eq(Call("translate", <<L(s), L(t), L(t)>>), L(s)),
            Eq(Call("normalize", <<Call("concat", <<Call("normalize", <<L(s)>>), L(<<" ">>),
                                                    Call("normalize", <<L(t)>>)>>)>>),
               Call("normalize", <<Call("concat", <<L(s), L(<<" ", " ">>), L(t)>>)>>))}
            : s \in Strings, t \in Strings}
    \cup {Eq(Pos, N(1))}

MCValues == {String(<<"b">>)}
=============================================================================
