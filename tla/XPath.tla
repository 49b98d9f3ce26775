------------------------------- MODULE XPath -------------------------------
(***************************************************************************)
(* zeep::xml::xpath (xpath.cpp): the abbreviations of a path are expanded  *)
(* (preprocess), its tokens are parsed by recursive descent into           *)
(* expression objects, and these are evaluated at a node of a document.    *)
(*                                                                         *)
(* A document is a record of functions over node numbers.  0 is the        *)
(* document, the others are numbered in document order, with the           *)
(* attributes after all of them.  A node set is what it is in the code, a  *)
(* list: it may hold a node twice and its order is that of the search.     *)
(* Characters are one-character strings, a string is a sequence of them,   *)
(* and numbers are integers: fractions, NaN and infinity are left out.     *)
(***************************************************************************)
EXTENDS Integers, Chars

Null == -1
Doc == 0

Nodes(d) == DOMAIN d.kind
IsElement(d, n) == n # Null /\ d.kind[n] \in {"element", "document"}
Parent(d, n) == IF n = Doc THEN Null ELSE d.parent[n]
InOrder(S) == SetToSortSeq(S, <)
Kids(d, n) == InOrder({m \in Nodes(d) \ {Doc} : d.parent[m] = n /\ d.kind[m] # "attribute"})
Attributes(d, n) == InOrder({m \in Nodes(d) \ {Doc} : d.parent[m] = n /\ d.kind[m] = "attribute"})

(* The neighbour of n among its parent's children, by steps of 1 or -1.    *)
Sibling(d, n, by) ==
    IF Parent(d, n) = Null THEN Null
    ELSE LET s == Kids(d, Parent(d, n))
             i == (CHOOSE j \in DOMAIN s : s[j] = n) + by
         IN  IF i \in DOMAIN s THEN s[i] ELSE Null

RECURSIVE Str(_, _)
Str(d, n) == IF IsElement(d, n)
             THEN FlattenSeq([i \in DOMAIN Kids(d, n) |-> Str(d, Kids(d, n)[i])])
             ELSE d.text[n]

-----------------------------------------------------------------------------
(* The axes.  test is the set of nodes that pass the step's node test.     *)
RECURSIVE IterateChildren(_, _, _, _, _, _)
IterateChildren(d, n, s, deep, test, elementsOnly) ==
    FoldLeft(LAMBDA acc, k :
               IF k \in ToSet(acc) \/ (elementsOnly /\ ~IsElement(d, k)) THEN acc
               ELSE LET a == IF k \in test THEN Append(acc, k) ELSE acc
                    IN  IF deep /\ IsElement(d, k)
                        THEN IterateChildren(d, k, a, TRUE, test, elementsOnly) ELSE a,
             s, Kids(d, n))

RECURSIVE IterateAncestor(_, _, _, _)
IterateAncestor(d, n, s, test) ==
    LET p == Parent(d, n)
    IN  IF p \in {Null, Doc} THEN s
        ELSE IterateAncestor(d, p, IF p \in test THEN Append(s, p) ELSE s, test)

\* Mutant: the search goes on from the parent although the children of the
\* neighbour were not looked at.
RECURSIVE IterateBesideFlat(_, _, _, _, _, _, _)
IterateBesideFlat(d, n, s, by, sibling, test, elementsOnly) ==
    IF n = Null THEN s
    ELSE IF Sibling(d, n, by) = Null
    THEN IF sibling THEN s
         ELSE IterateBesideFlat(d, Parent(d, n), s, by, sibling, test, elementsOnly)
    ELSE LET e == Sibling(d, n, by)
         IN  IterateBesideFlat(d, e, IF IsElement(d, e) /\ e \in test THEN Append(s, e) ELSE s,
                               by, sibling, test, elementsOnly)

(* iterate_preceding (by = -1) and iterate_following (by = 1).             *)
RECURSIVE IterateBeside(_, _, _, _, _, _, _)
IterateBeside(d, n, s, by, sibling, test, elementsOnly) ==
    IF n = Null THEN s
    ELSE IF Sibling(d, n, by) = Null
    THEN IF sibling THEN s
         ELSE IterateBeside(d, Parent(d, n), s, by, sibling, test, elementsOnly)
    ELSE LET e == Sibling(d, n, by)
             a == IF e \in test THEN Append(s, e) ELSE s
             b == IF sibling THEN a ELSE IterateChildren(d, e, a, TRUE, test, elementsOnly)
         IN  IterateBeside(d, e, IF IsElement(d, e) THEN b ELSE s,
                           by, sibling, test, elementsOnly)

(* name_matches and node_type_expression::test.                            *)
NodeTypes == [comment |-> {"comment"}, text |-> {"text"}, pi |-> {"pi"},
              node |-> {"element", "document", "text", "comment", "pi", "attribute"}]
Passing(d, t) ==
    IF t.by = "type" THEN {n \in Nodes(d) : d.kind[n] \in NodeTypes[t.name]}
    ELSE {n \in Nodes(d) : \/ t.name = "*"
                           \/ d.kind[n] \in {"element", "attribute"} /\ d.name[n] = t.name}

If(c, s) == IF c THEN s ELSE << >>

AxisNames == {"ancestor", "ancestor-or-self", "attribute", "child", "descendant",
              "descendant-or-self", "following", "following-sibling", "namespace", "parent",
              "preceding", "preceding-sibling", "self"}

(* step_expression::evaluate: a node that is no element has no axes.       *)
Axis(d, n, axis, test, only) ==
    LET self == If(n \in test, <<n>>)
    IN  IF ~IsElement(d, n) THEN << >> ELSE
        CASE axis = "parent" -> If(Parent(d, n) \in test, <<Parent(d, n)>>)
          [] axis = "ancestor" -> IterateAncestor(d, n, << >>, test)
          [] axis = "ancestor-or-self" -> IterateAncestor(d, n, self, test)
          [] axis = "self" -> self
          [] axis = "child" -> IterateChildren(d, n, << >>, FALSE, test, only)
          [] axis = "descendant" -> IterateChildren(d, n, << >>, TRUE, test, only)
          [] axis = "descendant-or-self" -> IterateChildren(d, n, self, TRUE, test, only)
          [] axis = "following" -> IterateBeside(d, n, << >>, 1, FALSE, test, only)
          [] axis = "following-sibling" -> IterateBeside(d, n, << >>, 1, TRUE, test, only)
          [] axis = "preceding" -> IterateBeside(d, n, << >>, -1, FALSE, test, only)
          [] axis = "preceding-sibling" -> IterateBeside(d, n, << >>, -1, TRUE, test, only)
          [] axis = "attribute" -> SelectSeq(Attributes(d, n), LAMBDA a : a \in test)
          [] axis = "namespace" ->
                SelectSeq(Attributes(d, n), LAMBDA a : a \in test /\ d.name[a] = "xmlns")

-----------------------------------------------------------------------------
(* class object and its conversions.                                       *)
Obj(t, v) == [type |-> t, val |-> v]
NodeSet(s) == Obj("nodes", s)
Bool(b) == Obj("bool", b)
Num(n) == Obj("num", n)
String(s) == Obj("str", s)
Undef == Obj("undef", 0)
Throws == Obj("throws", 0)              \* an exception left evaluate()
Unspecified == Obj("unspecified", 0)    \* depends on a value never set
Fails(o) == o.type \in {"throws", "unspecified"}

(* std::stod: leading white space and then the longest number count.       *)
Stod(s) ==
    LET number(u, k) == IF k = 0 THEN Throws ELSE Num(Natural(SubSeq(u, 1, k)))
        digits(u) == Max({j \in 0..Len(u) : \A i \in 1..j : IsDigit(u[i])})
        begin(u) == number(u, digits(u))
    IN  begin(SubSeq(s, Min({t \in DOMAIN s : s[t] # " "} \cup {Len(s) + 1}), Len(s)))

AsBool(o) == CASE o.type = "num" -> o.val # 0
               [] o.type \in {"nodes", "str"} -> o.val # << >>
               [] o.type = "bool" -> o.val
               [] OTHER -> FALSE

(* as<double>; of an empty node set front() has no meaning.                *)
AsNum(d, o) == CASE o.type = "num" \/ Fails(o) -> o
                 [] o.type = "nodes" -> IF o.val = << >> THEN Unspecified ELSE Stod(Str(d, o.val[1]))
                 [] o.type = "str" -> Stod(o.val)
                 [] o.type = "bool" -> Num(IF o.val THEN 1 ELSE 0)
                 [] OTHER -> Num(0)

(* as<std::string>: std::to_string writes six decimals, a node set all of  *)
(* its nodes' text.                                                        *)
AsStr(d, o) == CASE o.type = "num" -> Decimal(o.val) \o <<".", "0", "0", "0", "0", "0", "0">>
                 [] o.type = "str" -> o.val
                 [] o.type = "bool" -> IF o.val THEN <<"t", "r", "u", "e">>
                                       ELSE <<"f", "a", "l", "s", "e">>
                 [] o.type = "nodes" -> FlattenSeq([i \in DOMAIN o.val |-> Str(d, o.val[i])])
                 [] OTHER -> << >>

(* What is made of two numbers, unless one of them is none.                *)
OfBoth(x, y, Make(_, _)) ==
    IF Fails(x) THEN x ELSE IF Fails(y) THEN y ELSE Make(x.val, y.val)

(* object::operator== and operator<.                                       *)
Equal(d, a, b) ==
    CASE a.type = b.type -> Bool(a.type # "undef" /\ a.val = b.val)
      [] a.type # b.type /\ "num" \in {a.type, b.type} ->
           OfBoth(AsNum(d, a), AsNum(d, b), LAMBDA x, y : Bool(x = y))
      [] a.type # b.type /\ "num" \notin {a.type, b.type} /\ "str" \in {a.type, b.type} ->
           Bool(AsStr(d, a) = AsStr(d, b))
      [] OTHER -> Bool("bool" \in {a.type, b.type} /\ AsBool(a) = AsBool(b))

(* operator< looks at the member that the left side's type names.  In an   *)
(* object of another type that member was never set, unless it is the      *)
(* string, which is then empty; node sets compare by address.              *)
Less(a, b) ==
    CASE a.type = "str" -> Bool(b.type = "str" /\ LexLess(a.val, b.val))
      [] a.type = "num" -> IF b.type = "num" THEN Bool(a.val < b.val) ELSE Unspecified
      [] a.type = "bool" -> IF b.type = "bool" THEN Bool(~a.val /\ b.val) ELSE Unspecified
      [] a.type = "nodes" -> IF b.type # "nodes" \/ b.val = << >> THEN Bool(FALSE)
                             ELSE IF a.val = << >> THEN Bool(TRUE) ELSE Unspecified
      [] OTHER -> Bool(FALSE)

(* The arithmetic operators, after both sides became numbers.              *)
Arithmetic(d, op, a, b) ==
    OfBoth(AsNum(d, a), AsNum(d, b), LAMBDA x, y :
        CASE op = "+" -> Num(x + y)
          [] op = "-" -> Num(x - y)
          [] op = "*" -> Num(x * y)
          [] op = "div" -> IF y <= 0 \/ x % y # 0 THEN Unspecified ELSE Num(x \div y))

(* as<int> takes numbers only; the remainder has the dividend's sign.      *)
Mod(a, b) ==
    LET abs(x) == IF x < 0 THEN -x ELSE x
    IN  IF a.type # "num" \/ b.type # "num" THEN Throws
        ELSE IF b.val = 0 THEN Unspecified
        ELSE Num((IF a.val < 0 THEN -1 ELSE 1) * (abs(a.val) % abs(b.val)))

(* operator_expression::evaluate: both sides are always evaluated.         *)
Operator(d, op, a, b) ==
    IF Fails(a) THEN a ELSE IF Fails(b) THEN b
    ELSE LET not(p) == IF Fails(p) THEN p ELSE Bool(~p.val)
             either(p) == IF Fails(p) \/ p.val THEN p ELSE Equal(d, a, b)
         IN  CASE op = "and" -> Bool(AsBool(a) /\ AsBool(b))
               [] op = "or" -> Bool(AsBool(a) \/ AsBool(b))
               [] op = "=" -> Equal(d, a, b)
               [] op = "!=" -> not(Equal(d, a, b))
               [] op = "<" -> Less(a, b)
               [] op = ">" -> Less(b, a)
               [] op = "<=" -> either(Less(a, b))
               [] op = ">=" -> either(Less(b, a))
               [] op = "mod" -> Mod(a, b)
               [] OTHER -> Arithmetic(d, op, a, b)

-----------------------------------------------------------------------------
(* The core functions on strings.                                          *)
SubstringBefore(s, t) == IF t = << >> \/ Find(s, t) = -1 THEN << >>
                         ELSE SubSeq(s, 1, Find(s, t))

\* Mutant: the position found is taken for the position after.
SubstringAfterFound(s, t) == IF t = << >> THEN s
                             ELSE IF Find(s, t) = -1 THEN << >>
                             ELSE SubSeq(s, Find(s, t) + 2, Len(s))

SubstringAfter(s, t) == IF t = << >> THEN s
                        ELSE IF Find(s, t) = -1 THEN << >>
                        ELSE SubSeq(s, Find(s, t) + Len(t) + 1, Len(s))

NormalizeSpace(s) ==
    LET r == FoldLeft(LAMBDA a, c :
                        IF c # " " THEN [out |-> Append(a.out, c), space |-> FALSE]
                        ELSE [out |-> IF a.space THEN a.out ELSE Append(a.out, c), space |-> TRUE],
                      [out |-> << >>, space |-> TRUE], s)
    IN  IF r.out # << >> /\ r.space THEN Front(r.out) ELSE r.out

Translate(s, f, r) ==
    FoldLeft(LAMBDA a, c : LET i == SelectInSeq(f, LAMBDA x : x = c)
                           IN  IF i = 0 THEN Append(a, c)
                               ELSE IF i <= Len(r) THEN Append(a, r[i]) ELSE a,
             << >>, s)

(* The arguments each function asks for: exactly n, at most one (-100), at *)
(* least -n; of those with 0 the number is not looked at.                  *)
Optional == -100
ArgCount ==
    [last |-> 0, position |-> 0, count |-> 1, id |-> 0, name |-> Optional, string |-> Optional,
     concat |-> -2, starts |-> 2, contains |-> 2, before |-> 2, after |-> 2, substring |-> -2,
     length |-> Optional, normalize |-> Optional, translate |-> 3, boolean |-> 1, not |-> 1,
     true |-> 0, false |-> 0, lang |-> 0, number |-> Optional, sum |-> 0, floor |-> 1,
     ceiling |-> 1, round |-> 1, comment |-> 1]
Accepted(f, n) == CASE ArgCount[f] > 0 -> n = ArgCount[f]
                    [] ArgCount[f] = Optional -> n <= 1
                    [] OTHER -> n >= -ArgCount[f]

(* expression_context::position: the place of the first occurrence.        *)
Position(ctx) == LET i == SelectInSeq(ctx.set, LAMBDA n : n = ctx.node)
                 IN  IF ctx.set = << >> THEN Throws
                     ELSE Num(IF i = 0 THEN Len(ctx.set) ELSE i)

(* The name and id functions look at the first node of their argument.     *)
Subject(ctx, a) == IF a = << >> THEN ctx.node
                   ELSE IF a[1].type # "nodes" \/ a[1].val = << >> THEN Null
                   ELSE a[1].val[1]
Id(d, n) == LET s == SelectSeq(Attributes(d, n), LAMBDA m : d.name[m] = "id")
            IN  IF s = << >> THEN << >> ELSE d.text[s[1]]

(* node::lang and the lang function: the language itself or the part of    *)
(* it before the hyphen.  Letters are taken to be of one case.             *)
RECURSIVE Lang(_, _)
Lang(d, n) ==
    LET s == SelectSeq(Attributes(d, n), LAMBDA m : d.name[m] = "xml:lang")
    IN  IF IsElement(d, n) /\ s # << >> THEN d.text[s[1]]
        ELSE IF Parent(d, n) = Null THEN << >> ELSE Lang(d, Parent(d, n))
SpeaksOf(lang, test) == \/ test = lang
                        \/ Find(lang, <<"-">>) # -1 /\ test = SubSeq(lang, 1, Find(lang, <<"-">>))

(* core_function_expression::evaluate on evaluated arguments: what is      *)
(* asked of nodes, of strings, and of truth values and numbers.            *)
NodeFunctions == {"position", "last", "count", "id", "name"}
NodeFunction(d, f, a, ctx) ==
    LET who == Subject(ctx, a)
    IN  CASE f = "position" -> Position(ctx)
          [] f = "last" -> Num(Len(ctx.set))
          [] f = "count" -> IF a[1].type # "nodes" THEN Throws ELSE Num(Len(a[1].val))
          [] f = "id" -> IF ~IsElement(d, who) THEN Throws ELSE String(Id(d, who))
          [] f = "name" -> IF who = Null THEN Throws
                           ELSE String(IF d.kind[who] \in {"element", "attribute"}
                                       THEN <<d.name[who]>> ELSE << >>)

StringFunctions == {"string", "length", "normalize", "concat", "starts", "contains", "before",
                    "after", "substring", "translate"}
StringFunction(d, f, a, ctx) ==
    LET str(i) == AsStr(d, a[i])
        given == IF a = << >> THEN Str(d, ctx.node) ELSE str(1)
    IN  CASE f = "string" -> String(given)
          [] f = "length" -> Num(Len(given))
          [] f = "normalize" -> String(NormalizeSpace(given))
          [] f = "concat" -> String(FlattenSeq([i \in DOMAIN a |-> str(i)]))
          [] f = "starts" -> Bool(IsPrefix(str(2), str(1)))
          [] f = "contains" -> Bool(Find(str(1), str(2)) # -1)
          [] f = "before" -> String(SubstringBefore(str(1), str(2)))
          [] f = "after" -> String(SubstringAfter(str(1), str(2)))
          [] f = "substring" -> Unspecified      \* function_call makes no expression of it
          [] f = "translate" -> IF a[2].type # "str" \/ a[3].type # "str" THEN Throws
                                ELSE String(Translate(str(1), a[2].val, a[3].val))

TruthFunction(d, f, a, ctx) ==
    CASE f = "boolean" -> Bool(AsBool(a[1]))
      [] f = "not" -> Bool(~AsBool(a[1]))
      [] f = "lang" -> IF a = << >> THEN Unspecified
                       ELSE Bool(SpeaksOf(Lang(d, ctx.node), AsStr(d, a[1])))
      [] f = "true" -> Bool(TRUE)
      [] f = "false" -> Bool(FALSE)
      [] f = "number" -> IF a = << >> THEN Stod(Str(d, ctx.node)) ELSE AsNum(d, a[1])
      [] f \in {"floor", "ceiling", "round"} -> AsNum(d, a[1])
      [] OTHER -> Throws      \* "unimplemented function": sum() and comment()

Function(d, f, a, ctx) ==
    IF \E i \in DOMAIN a : Fails(a[i]) THEN a[SelectInSeq(a, Fails)]
    ELSE IF f \in NodeFunctions THEN NodeFunction(d, f, a, ctx)
    ELSE IF f \in StringFunctions THEN StringFunction(d, f, a, ctx)
    ELSE TruthFunction(d, f, a, ctx)

-----------------------------------------------------------------------------
(* expression::evaluate.  ctx holds the node, the set it is taken from and *)
(* the variables of the context.                                           *)
RECURSIVE Evaluate(_, _, _)

(* path_expression: the right side at every node of the left.              *)
EvaluatePath(d, e, ctx) ==
    LET v == Evaluate(d, e.l, ctx)
        part(n) == Evaluate(d, e.r, [ctx EXCEPT !.node = n, !.set = v.val])
        parts == [i \in DOMAIN v.val |-> part(v.val[i])]
        bad == SelectInSeq(parts, LAMBDA r : r.type # "nodes")
    IN  IF Fails(v) THEN v ELSE IF v.type # "nodes" THEN Throws
        ELSE IF bad # 0 THEN (IF Fails(parts[bad]) THEN parts[bad] ELSE Throws)
        ELSE NodeSet(FlattenSeq([i \in DOMAIN parts |-> parts[i].val]))

(* predicate_expression: a number names a place.                           *)
EvaluatePredicate(d, e, ctx) ==
    LET v == Evaluate(d, e.l, ctx)
        at(n) == [ctx EXCEPT !.node = n, !.set = v.val]
        test(n) == Evaluate(d, e.r, at(n))
        tests == [i \in DOMAIN v.val |-> test(v.val[i])]
        bad == SelectInSeq(tests, Fails)
        holds(i) == IF tests[i].type = "num"
                    THEN Position(at(v.val[i])).val = tests[i].val ELSE AsBool(tests[i])
        chosen == SelectSeq([i \in DOMAIN tests |-> i], holds)
    IN  IF Fails(v) THEN v ELSE IF v.type # "nodes" THEN Throws
        ELSE IF bad # 0 THEN tests[bad]
        ELSE NodeSet([i \in DOMAIN chosen |-> v.val[chosen[i]]])

(* union_expression.                                                       *)
EvaluateUnion(d, e, ctx) ==
    LET a == Evaluate(d, e.l, ctx)
        b == Evaluate(d, e.r, ctx)
    IN  IF Fails(a) THEN a ELSE IF Fails(b) THEN b
        ELSE IF {a.type, b.type} # {"nodes"} THEN Throws ELSE NodeSet(a.val \o b.val)

Negated(v) == IF Fails(v) THEN v ELSE Num(-v.val)

Evaluate(d, e, ctx) ==
    CASE e.op = "step" ->
           NodeSet(Axis(d, ctx.node, e.axis, Passing(d, e.test), e.test.by = "name"))
      [] e.op = "root" -> NodeSet(<<Doc>>)
      [] e.op = "path" -> EvaluatePath(d, e, ctx)
      [] e.op = "predicate" -> EvaluatePredicate(d, e, ctx)
      [] e.op = "union" -> EvaluateUnion(d, e, ctx)
      [] e.op = "literal" -> String(e.val)
      [] e.op = "number" -> Num(e.val)
      [] e.op = "variable" -> IF e.val \in DOMAIN ctx.vars THEN ctx.vars[e.val] ELSE Undef
      [] e.op = "negate" -> Negated(AsNum(d, Evaluate(d, e.l, ctx)))
      [] e.op = "call" ->
           Function(d, e.f, [i \in DOMAIN e.args |-> Evaluate(d, e.args[i], ctx)], ctx)
      [] e.op = "binary" -> Operator(d, e.f, Evaluate(d, e.l, ctx), Evaluate(d, e.r, ctx))

(* xpath::evaluate<node>: the set the context node is taken from is empty. *)
EvaluateAt(d, e, n, vars) ==
    LET Wanted(r) == IF r.type \in {"nodes", "unspecified"} THEN r ELSE Throws
    IN  Wanted(Evaluate(d, e, [node |-> n, set |-> << >>, vars |-> vars]))

-----------------------------------------------------------------------------
(* Paths are written as symbols: a character with a meaning of its own, or *)
(* a word, number, literal or variable in one piece, with its value.       *)
Sym(t, v) == [t |-> t, v |-> v]
Char(c) == Sym(c, 0)
AxisSym(a) == Sym("axis", a)
TypeSym(n) == Sym("type", n)

(* xpath_imp::preprocess.  An abbreviation that is not yet decided when    *)
(* the path ends is lost.                                                  *)
RECURSIVE Expand(_, _)
Expand(s, state) ==
    IF s = << >> THEN << >>
    ELSE LET c == s[1].t
             r == Tail(s)
         IN  CASE state = "dot" ->
                    IF c = "." THEN <<AxisSym("parent"), TypeSym("node")>> \o Expand(r, "step")
                    ELSE <<AxisSym("self"), TypeSym("node")>> \o Expand(s, "step")
               [] state = "slash" ->
                    IF c = "/" THEN <<Char("/"), AxisSym("descendant-or-self"), TypeSym("node"),
                                      Char("/")>> \o Expand(r, "step")
                    ELSE <<Char("/")>> \o Expand(s, "step")
               [] OTHER ->
                    CASE c = "@" -> <<AxisSym("attribute")>> \o Expand(r, "data")
                      [] c = "." /\ state = "step" -> Expand(r, "dot")
                      [] c = "/" -> Expand(r, "slash")
                      [] c = "[" /\ state = "data" -> <<s[1]>> \o Expand(r, "step")
                      [] OTHER -> <<s[1]>> \o Expand(r, "data")
Preprocess(s) == Expand(s, "step")

(* get_next_token: a word is an operator whenever it can be one, and with  *)
(* a parenthesis after it a function; a dot that was not an abbreviation   *)
(* begins a number.                                                        *)
Levels == <<{"or"}, {"and"}, {"=", "!="}, {"<", "<=", ">", ">="}, {"+", "-"}, {"*", "mod", "div"}>>
WordOperators == {"or", "and", "mod", "div"}
Token(s) ==
    CASE s = << >> -> "EOF"
      [] s # << >> /\ s[1].t = "word" ->
           IF s[1].v \in WordOperators THEN s[1].v
           ELSE IF Len(s) > 1 /\ s[2].t = "("
           THEN IF s[1].v \in DOMAIN ArgCount THEN "function" ELSE "invalid"
           ELSE "name"
      [] OTHER -> IF s[1].t = "." THEN "number" ELSE s[1].t

(* The parser: a nonterminal gives the expression it read and what is left *)
(* of the path, or NoParse when match() throws.                            *)
NoParse == [ok |-> FALSE]
Read(e, rest) == [ok |-> TRUE, e |-> e, rest |-> rest]
Then(p, More(_)) == IF p.ok THEN More(p) ELSE NoParse
Step(axis, by, name) == [op |-> "step", axis |-> axis, test |-> [by |-> by, name |-> name]]
Two(op, l, r) == [op |-> op, l |-> l, r |-> r]
Root == [op |-> "root"]

NodeTest(axis, s) ==
    CASE Token(s) = "*" -> Read(Step(axis, "name", "*"), Tail(s))
      [] Token(s) = "type" -> Read(Step(axis, "type", s[1].v), Tail(s))
      [] Token(s) = "name" -> Read(Step(axis, "name", s[1].v), Tail(s))
      [] OTHER -> NoParse

(* match(), for what comes after an expression.                            *)
Closed(p, t) == IF p.ok /\ Token(p.rest) = t THEN Read(p.e, Tail(p.rest)) ELSE NoParse

RECURSIVE ParseBinary(_, _), MoreBinary(_, _), Predicates(_), RelativePath(_), Arguments(_, _)

Predicates(p) ==
    IF ~p.ok \/ Token(p.rest) # "[" THEN p
    ELSE Then(Closed(ParseBinary(1, Tail(p.rest)), "]"),
              LAMBDA x : Predicates(Read(Two("predicate", p.e, x.e), x.rest)))

ParseStep(s) == Predicates(IF Token(s) = "axis" THEN NodeTest(s[1].v, Tail(s))
                           ELSE NodeTest("child", s))

(* relative_location_path's loop, from the steps read so far.              *)
RelativePath(p) ==
    IF ~p.ok \/ Token(p.rest) # "/" THEN p
    ELSE Then(ParseStep(Tail(p.rest)),
              LAMBDA x : RelativePath(Read(Two("path", p.e, x.e), x.rest)))

LocationPath(s) ==
    LET absolute == Token(s) = "/"
    IN  Then(RelativePath(ParseStep(IF absolute THEN Tail(s) ELSE s)),
             LAMBDA p : IF absolute THEN Read(Two("path", Root, p.e), p.rest) ELSE p)

Arguments(a, s) ==
    Then(ParseBinary(1, s),
         LAMBDA x : IF Token(x.rest) = "," THEN Arguments(Append(a, x.e), Tail(x.rest))
                    ELSE Closed(Read(Append(a, x.e), x.rest), ")"))

FunctionCall(s) ==
    Then(IF Token(Tail(Tail(s))) = ")" THEN Read(<< >>, Tail(Tail(Tail(s))))
         ELSE Arguments(<< >>, Tail(Tail(s))),
         LAMBDA a : IF ~Accepted(s[1].v, Len(a.e)) THEN NoParse
                    ELSE Read([op |-> "call", f |-> s[1].v, args |-> a.e], a.rest))

PrimaryExpr(s) ==
    CASE Token(s) = "variable" -> Read([op |-> "variable", val |-> s[1].v], Tail(s))
      [] Token(s) = "literal" -> Read([op |-> "literal", val |-> s[1].v], Tail(s))
      [] Token(s) = "number" -> Read([op |-> "number", val |-> s[1].v], Tail(s))
      [] Token(s) = "function" -> FunctionCall(s)
      [] Token(s) = "(" -> Closed(ParseBinary(1, Tail(s)), ")")

(* path_expr and filter_expr.                                              *)
PathExpr(s) ==
    IF Token(s) \notin {"variable", "literal", "number", "function", "("} THEN LocationPath(s)
    ELSE Then(Predicates(PrimaryExpr(s)),
              LAMBDA p : IF Token(p.rest) # "/" THEN p
                         ELSE Then(RelativePath(ParseStep(Tail(p.rest))),
                                   LAMBDA r : Read(Two("path", p.e, r.e), r.rest)))

RECURSIVE Unions(_), UnaryExpr(_)
Unions(p) == IF ~p.ok \/ Token(p.rest) # "|" THEN p
             ELSE Then(PathExpr(Tail(p.rest)),
                       LAMBDA x : Unions(Read(Two("union", p.e, x.e), x.rest)))

UnaryExpr(s) == IF Token(s) # "-" THEN Unions(PathExpr(s))
                ELSE Then(UnaryExpr(Tail(s)), LAMBDA x : Read([op |-> "negate", l |-> x.e], x.rest))

\* Mutant: an operator takes all that follows it, so that equals group to the right.
MoreBinaryRight(l, p) ==
    IF ~p.ok \/ Token(p.rest) \notin Levels[l] THEN p
    ELSE Then(ParseBinary(l, Tail(p.rest)),
              LAMBDA x : Read([op |-> "binary", f |-> Token(p.rest), l |-> p.e, r |-> x.e], x.rest))

(* expr, and_expr, equality_expr, relational_expr, additive_expr and       *)
(* multiplicative_expr, which differ in the operators of their level.      *)
ParseBinary(l, s) == IF l > Len(Levels) THEN UnaryExpr(s) ELSE MoreBinary(l, ParseBinary(l + 1, s))
MoreBinary(l, p) ==
    IF ~p.ok \/ Token(p.rest) \notin Levels[l] THEN p
    ELSE Then(ParseBinary(l + 1, Tail(p.rest)),
              LAMBDA x : MoreBinary(l, Read([op |-> "binary", f |-> Token(p.rest),
                                             l |-> p.e, r |-> x.e], x.rest)))

(* xpath_imp::parse: location paths with bars between them.                *)
RECURSIVE Alternatives(_)
Alternatives(p) ==
    IF ~p.ok \/ Token(p.rest) # "|" THEN p
    ELSE Then(LocationPath(Tail(p.rest)),
              LAMBDA x : Alternatives(Read(Two("union", p.e, x.e), x.rest)))
Parse(path) == Then(Alternatives(LocationPath(Preprocess(path))),
                    LAMBDA p : IF p.rest = << >> THEN p ELSE NoParse)

-----------------------------------------------------------------------------
(* How a person writes an expression: in full, or with the abbreviations   *)
(* and no parenthesis that is not needed.  at says whether a step may      *)
(* begin with a dot there: not after an operator, a comma or a             *)
(* parenthesis, where the code takes the dot for a number.                 *)
IsSelf(e) == e.op = "step" /\ e.axis = "self" /\ e.test = [by |-> "type", name |-> "node"]
IsParent(e) == e.op = "step" /\ e.axis = "parent" /\ e.test = [by |-> "type", name |-> "node"]
IsDeep(e) == e.op = "step" /\ e.axis = "descendant-or-self"
             /\ e.test = [by |-> "type", name |-> "node"]
LevelOf(e) == CASE e.op = "binary" -> CHOOSE l \in DOMAIN Levels : e.f \in Levels[l]
                [] e.op = "negate" -> 7
                [] e.op = "union" -> 8
                [] e.op \in {"path", "step"} -> 9
                [] OTHER -> 10
Test(t) == IF t.by = "type" THEN TypeSym(t.name)
           ELSE IF t.name = "*" THEN Char("*") ELSE Sym("word", t.name)

RECURSIVE Write(_, _, _, _), OfStep(_)
OfStep(e) == e.op = "step" \/ (e.op = "predicate" /\ OfStep(e.l))
Write(e, level, short, at) ==
    LET within(x, l) == Write(x, l, short, FALSE)
        args == [i \in DOMAIN e.args |-> (IF i = 1 THEN << >> ELSE <<Char(",")>>) \o within(e.args[i], 1)]
    IN  CASE level > LevelOf(e) -> <<Char("(")>> \o within(e, 1) \o <<Char(")")>>
          [] level <= LevelOf(e) /\ e.op = "step" ->
               IF short /\ at /\ IsSelf(e) THEN <<Char(".")>>
               ELSE IF short /\ at /\ IsParent(e) THEN <<Char("."), Char(".")>>
               ELSE IF short /\ e.axis = "attribute" THEN <<Char("@"), Test(e.test)>>
               ELSE IF short /\ e.axis = "child" THEN <<Test(e.test)>>
               ELSE <<AxisSym(e.axis), Test(e.test)>>
          [] e.op = "path" ->
               IF e.l = Root THEN <<Char("/")>> \o Write(e.r, 9, short, TRUE)
               ELSE IF short /\ e.l.op = "path" /\ IsDeep(e.l.r) /\ e.l.l # Root
               THEN Write(e.l.l, 9, short, at) \o <<Char("/"), Char("/")>> \o Write(e.r, 9, short, TRUE)
               ELSE Write(e.l, 9, short, at) \o <<Char("/")>> \o Write(e.r, 9, short, TRUE)
          [] e.op = "predicate" ->
               (IF OfStep(e.l) THEN Write(e.l, 9, short, FALSE) ELSE Write(e.l, 10, short, FALSE))
               \o <<Char("[")>> \o Write(e.r, 1, short, TRUE) \o <<Char("]")>>
          [] level <= LevelOf(e) /\ e.op = "union" ->
               Write(e.l, 8, short, at) \o <<Char("|")>> \o within(e.r, 9)
          [] level <= LevelOf(e) /\ e.op = "negate" -> <<Char("-")>> \o within(e.l, 7)
          [] level <= LevelOf(e) /\ e.op = "binary" ->
               Write(e.l, LevelOf(e), short, at) \o <<Char(e.f)>> \o within(e.r, LevelOf(e) + 1)
          [] e.op = "call" -> <<Sym("word", e.f), Char("(")>> \o FlattenSeq(args) \o <<Char(")")>>
          [] OTHER -> <<Sym(e.op, e.val)>>

(* A lone dot that ends a path is written out, for preprocess loses it.    *)
Written(e, short) ==
    LET Ended(w) == IF Last(w).t = "." /\ (Len(w) = 1 \/ w[Len(w) - 1].t # ".")
                    THEN Front(w) \o <<AxisSym("self"), TypeSym("node")>> ELSE w
    IN  Ended(Write(e, 8, short, TRUE))

-----------------------------------------------------------------------------
(* A program makes an xpath from a path, sets variables in a context, and  *)
(* evaluates the one at nodes of a document with the other.                *)
CONSTANTS Documents,     \* the documents searched
          Expressions,   \* the expressions asked for
          Laws,          \* predicates that hold at every node
          Values         \* what the variable v is set to

VARIABLES doc,      \* the document
          query,    \* the expression meant, and what parsing its path gave
          vars,     \* context_imp::m_variables
          answer    \* the node and the result of the last evaluation

xpathVars == <<doc, query, vars, answer>>

Nothing == [node |-> Null, result |-> Undef]

Init == /\ doc \in Documents
        /\ query = [meant |-> Root, parsed |-> NoParse]
        /\ vars = << >>
        /\ answer = Nothing

(* Neither an xpath nor its evaluation changes anything else: one query to *)
(* a behaviour shows all there is.                                         *)
SetVariable(v) == /\ vars = << >> /\ query.meant = Root
                  /\ vars' = [v |-> v]
                  /\ UNCHANGED <<doc, query, answer>>

Construct(e, short) == /\ query.meant = Root
                       /\ query' = [meant |-> e, parsed |-> Parse(Written(e, short))]
                       /\ UNCHANGED <<doc, vars, answer>>

EvaluateQuery(n) == /\ query.parsed.ok /\ answer = Nothing
                    /\ answer' = [node |-> n, result |-> EvaluateAt(doc, query.parsed.e, n, vars)]
                    /\ UNCHANGED <<doc, query, vars>>

HereWhen(x) == Two("predicate", Step("self", "type", "node"), x)

Next == \/ \E e \in Expressions, short \in BOOLEAN : Construct(e, short)
        \/ \E x \in Laws : vars = << >> /\ Construct(HereWhen(x), FALSE)
        \/ \E v \in Values : SetVariable(v)
        \/ \E n \in Nodes(doc) : EvaluateQuery(n)

Spec == Init /\ [][Next]_xpathVars

-----------------------------------------------------------------------------
(* Every expression is read as it was meant, however it was written: each  *)
(* abbreviation stands for what the comment in preprocess says, operators  *)
(* bind by their level and group to the left, predicates belong to their   *)
(* step.                                                                   *)
ReadAsMeant == query.meant # Root => query.parsed.ok /\ query.parsed.e = query.meant

(* What XPath 1.0 puts on an axis, by place in the document: node numbers  *)
(* grow in document order and ancestors are those met going up.  A test by *)
(* name is for the kind of node the axis is about: attributes on their own *)
(* axis, elements on all others.                                           *)
RECURSIVE Up(_, _)
Up(d, n) == IF Parent(d, n) = Null THEN {} ELSE {Parent(d, n)} \cup Up(d, Parent(d, n))
Reference(d, n, axis) ==
    LET all   == {m \in Nodes(d) : d.kind[m] # "attribute"}
        under == {m \in all : n \in Up(d, m)}
        beside == {m \in all : d.kind[n] # "attribute" /\ Parent(d, m) = Parent(d, n)}
    IN  CASE axis = "parent" -> {Parent(d, n)} \ {Null}
          [] axis = "ancestor" -> Up(d, n)
          [] axis = "ancestor-or-self" -> {n} \cup Up(d, n)
          [] axis = "self" -> {n}
          [] axis = "child" -> {m \in under : Parent(d, m) = n}
          [] axis = "descendant" -> under
          [] axis = "descendant-or-self" -> {n} \cup under
          [] axis = "following" -> {m \in all : m > n} \ under
          [] axis = "preceding" -> {m \in all : m < n} \ Up(d, n)
          [] axis = "following-sibling" -> {m \in beside : m > n}
          [] axis = "preceding-sibling" -> {m \in beside : m < n}
          [] axis = "attribute" -> {m \in Nodes(d) \ all : Parent(d, m) = n}
LooksBack == {"ancestor", "ancestor-or-self", "preceding", "preceding-sibling"}
Beside == {"following", "preceding", "following-sibling", "preceding-sibling"}
Principal(axis) == IF axis = "attribute" THEN "attribute" ELSE "element"
PassingInXPath(d, axis, t) ==
    {n \in Nodes(d) : IF t.by = "type" THEN d.kind[n] \in NodeTypes[t.name]
                      ELSE d.kind[n] = Principal(axis) /\ t.name \in {"*", d.name[n]}}
InXPath(d, n, e) == Reference(d, n, e.axis) \cap PassingInXPath(d, e.axis, e.test)
Along(axis, S) == IF axis \in LooksBack THEN Reverse(InOrder(S)) ELSE InOrder(S)

(* From an element, a step gives the nodes of its axis that pass the test, *)
(* each once and going away from the node.  lib-xml.qbk:123 calls this an  *)
(* implementation of XPath 1.0; where the code departs from that, nothing  *)
(* is said: it leaves the document out of the ancestors (xpath.cpp:464)    *)
(* and takes it for an element where the test is a star (672-690), sees no *)
(* text beside a node (488, 516), finds nothing from a node that is no     *)
(* element (665), and on the preceding axis puts an element before what is *)
(* inside it (492).                                                        *)
Steps == query.parsed.ok /\ query.parsed.e.op = "step" /\ answer.node # Null
         /\ query.parsed.e.axis # "namespace"
AxesComplete ==
    LET e     == query.parsed.e
        apart == IF e.axis \in {"ancestor", "ancestor-or-self"} \/ e.test.name = "*" THEN {Doc} ELSE {}
        found == SelectSeq(answer.result.val, LAMBDA m : m \notin apart)
        ref   == InXPath(doc, answer.node, e) \ apart
    IN  Steps /\ IsElement(doc, answer.node) /\ (e.axis \in Beside => e.test.by = "name") =>
          /\ IsInjective(found) /\ ToSet(found) = ref
          /\ e.axis # "preceding" => found = Along(e.axis, ref)

(* A predicate keeps, of the step's elements and in their order, the one   *)
(* at the place a number or last() names, the preceding axis again set     *)
(* aside; and any other predicate and its negation share the elements      *)
(* between them, unless one of them throws.                                *)
Predicate ==
    LET e    == query.parsed.e
        base == InXPath(doc, answer.node, e.l)
        not  == EvaluateAt(doc, Two("predicate", e.l, [op |-> "call", f |-> "not", args |-> <<e.r>>]),
                           answer.node, vars)
        all  == Along(e.l.axis, base)
        place == IF e.r.op = "number" THEN e.r.val ELSE Len(all)
        kept == answer.result.val
    IN  query.parsed.ok /\ e.op = "predicate" /\ e.l.op = "step" /\ answer.result.type = "nodes"
        /\ IsElement(doc, answer.node) =>
          IF e.r.op = "number" \/ (e.r.op = "call" /\ e.r.f = "last")
          THEN e.l.axis # "preceding" => kept = If(place \in DOMAIN all, <<all[place]>>)
          ELSE /\ not.type = "nodes"
               /\ ToSet(kept) \cap ToSet(not.val) = {} /\ ToSet(kept) \cup ToSet(not.val) = base
               /\ e.l.axis # "preceding" => kept = Along(e.l.axis, ToSet(kept))

(* The functions keep the laws that tie them together, written as XPath    *)
(* predicates: an element with such a predicate selects itself.            *)
Lawful == query.parsed.ok /\ query.parsed.e \in {HereWhen(x) : x \in Laws}
          /\ IsElement(doc, answer.node) =>
             answer.result.val = <<answer.node>>

(* A path that goes down finds every node once: //x is every x below.      *)
DownwardOnce ==
    LET e == query.parsed.e
    IN  query.parsed.ok /\ e.op = "path" /\ answer.node # Null
        /\ e.r.op = "step" /\ e.r.axis = "child"
        /\ e.l.op = "path" /\ e.l.l = [op |-> "step", axis |-> "self", test |-> [by |-> "type", name |-> "node"]]
        /\ IsDeep(e.l.r) =>
           /\ IsInjective(answer.result.val)
           /\ ToSet(answer.result.val) = InXPath(doc, answer.node, [e.r EXCEPT !.axis = "descendant"])

(* What a query finds is what it asks for: the nodes of its axis, those of *)
(* them the predicate is true of, and each of them once.  (A union, and a  *)
(* path but for one that goes down, may hold a node twice in the code,     *)
(* which puts lists behind each other, 1627 and 1044; sets in XPath do     *)
(* not, and nothing is said of these.)                                     *)
Selects == AxesComplete /\ Predicate /\ DownwardOnce
=============================================================================
