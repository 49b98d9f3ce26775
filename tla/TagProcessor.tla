---------------------------- MODULE TagProcessor ----------------------------
(***************************************************************************)
(* Templates: tag_processor_v2 (tag-processor-v2.cpp), which rewrites the  *)
(* tree of a page in place, and the csrf fields that template-processor    *)
(* adds to its forms.                                                      *)
(*                                                                         *)
(* A node is a text or an element.  The text of a node and the value of an *)
(* attribute are sequences of items, records of a kind and a name:         *)
(*   "word"         a piece of text; SP, Semi and Quote are single         *)
(*                  characters, every other word is longer;                *)
(*   "${", "*{"     an expression: a variable, or a member of the selected *)
(*                  object;                                                *)
(*   "[[", "[("     an expression in a text;                               *)
(*   "this", "file" a fragment, of the page or of the file Shared;         *)
(*   others         what the handler of the attribute looks for.           *)
(* The variable bad stands for an expression that throws.  A scope is a    *)
(* function from names to values: that the chain of scopes is one, is what *)
(* ExpressionLanguage is checked for.                                      *)
(***************************************************************************)
EXTENDS Integers, FiniteSets, SequencesExt

CONSTANTS Shared,     \* the element of the template file that fragments are taken from
          CsrfToken   \* value of the cookie csrf-token, a sequence of items

-----------------------------------------------------------------------------
(* Nodes and values.                                                       *)
\* (TLC evaluates the elements of a concatenation once, those of a function anew.)
Flat(seqs) == FlattenSeq(seqs \o << >>)

Item(k, x) == [k |-> k, x |-> x]
Word(x) == Item("word", x)
SP == Word(" ")
Semi == Word(";")
Quote == Word("\"")
IsShort(i) == i \in {SP, Semi, Quote}

Txt(s) == [t |-> "text", s |-> s]
Attr(ns, name, v) == [ns |-> ns, name |-> name, v |-> v]
Elt(name, attrs, kids) == [t |-> "element", name |-> name, attrs |-> attrs, kids |-> kids]

(* A value has its text, the nodes this text is parsed to if there is      *)
(* markup in it, and its elements if it is a list.  An object has one      *)
(* member.  A node set is the argument of a fragment that is a fragment.   *)
Value(kind, text, markup, list) == [kind |-> kind, text |-> text, markup |-> markup, list |-> list]
Null == Value("null", << >>, << >>, << >>)
StringOf(text) == Value("string", text, << >>, << >>)
Markup(nodes) == Value("string", <<Word("<...>")>>, nodes, << >>)
ListOf(list) == Value("list", << >>, << >>, list)
ObjectOf(member) == Value("object", << >>, << >>, <<member>>)
TruthOf(b) == Value("boolean", <<Word(IF b THEN "true" ELSE "false")>>, << >>, << >>)
ErrorValue == StringOf(<<Word("Error parsing expression")>>)

Truth(v) == CASE v.kind = "null" -> FALSE
              [] v.kind = "string" -> v.text # << >>
              [] v.kind = "boolean" -> v.text = <<Word("true")>>
              [] v.kind = "list" -> v.list # << >>
              [] OTHER -> TRUE

Items(v) == IF v.kind = "list" THEN v.list ELSE << >>

IsExpr(i) == i.k \in {"${", "*{", "[[", "[("}
IsBad(i) == i.x = "bad"
Lookup(scope, name) == IF name \in DOMAIN scope THEN scope[name] ELSE Null
put(scope, name, v) == [n \in DOMAIN scope \cup {name} |-> IF n = name THEN v ELSE scope[n]]

(* The selected object is kept under the name *; selecting anything else   *)
(* leaves the object of an outer scope in view.  No variable has the name  *)
(* of its member.                                                          *)
select_object(scope, v) == IF v.kind = "object" THEN put(scope, "*", v) ELSE scope
ValueOf(i, scope) == LET sel == Lookup(scope, "*")
                     IN  IF i.k # "*{" THEN Lookup(scope, i.x)
                         ELSE IF sel.kind = "object" THEN sel.list[1] ELSE Null

(* evaluate_el: an expression that throws has the error as its value.      *)
evaluate_el(i, scope) == IF IsBad(i) THEN ErrorValue ELSE ValueOf(i, scope)

(* process_el: the text of the value, or the text it was, if that throws.  *)
process_el(v, scope) == IF IsExpr(v[1]) /\ ~IsBad(v[1]) THEN ValueOf(v[1], scope).text ELSE v

-----------------------------------------------------------------------------
(* process_text.  Expressions are looked for from the left.  After one was *)
(* replaced the search goes on gap characters behind its value, and an     *)
(* expression that begins before that is left as it is.  If [(..)] gives markup, *)
(* its nodes and then the rest of the text are put behind the text, which  *)
(* itself becomes that rest, processed.  An expression that throws is      *)
(* never got past; the pages have none in their texts.                     *)
RECURSIVE Expand(_, _, _, _, _)
Expand(done, s, scope, skip, gap) ==
    IF s = << >> THEN [text |-> done, after |-> << >>]
    ELSE LET i == Head(s)
             v == ValueOf(i, scope)
         IN  IF ~IsExpr(i) THEN Expand(Append(done, i), Tail(s), scope, IF IsShort(i) THEN skip - 1 ELSE 0, gap)
             ELSE IF skip > 0 THEN Expand(Append(done, i), Tail(s), scope, 0, gap)
             ELSE IF i.k = "[(" /\ v.markup # << >>
             THEN LET r == Expand(<< >>, Tail(s), scope, 0, gap)
                  IN  [text |-> r.text, after |-> v.markup \o <<Txt(Tail(s))>> \o r.after]
             ELSE Expand(done \o v.text, Tail(s), scope, gap, gap)
process_text(s, scope) == Expand(<< >>, s, scope, 0, 2)

(* process_attr_inline, for inline="text": as process_text, without the    *)
(* mistake in counting, and the loop comes by the nodes it has added.      *)
RECURSIVE InlineText(_, _)
InlineText(kids, scope) ==
    IF kids = << >> THEN << >>
    ELSE IF Head(kids).t # "text" THEN <<Head(kids)>> \o InlineText(Tail(kids), scope)
    ELSE LET r == Expand(<< >>, Head(kids).s, scope, 0, 0)
         IN  <<Txt(r.text)>> \o InlineText(r.after \o Tail(kids), scope)

(* The same for a script: values in JSON notation; [(..)] stays.           *)
Notation(v) == IF v.kind = "null" THEN <<Word("null")>>
               ELSE IF v.kind = "string" THEN <<Quote>> \o v.text \o <<Quote>> ELSE v.text
InlineScript(kids, scope) ==
    [n \in DOMAIN kids |-> IF kids[n].t # "text" THEN kids[n]
        ELSE Txt(Flat([j \in DOMAIN kids[n].s |->
                   LET i == kids[n].s[j]
                   IN  IF i.k = "[[" THEN Notation(evaluate_el(i, scope)) ELSE <<i>>]))]
process_attr_inline(kids, type, scope) ==
    CASE type = "javascript" -> InlineScript(kids, scope)
      [] type = "none" -> kids
      [] OTHER -> InlineText(kids, scope)

-----------------------------------------------------------------------------
(* Attributes.                                                             *)
\* Mutant: a condition is looked at before the loop that binds its variable.
PrecedenceIfFirst(a) ==
    CASE a.name \in {"insert", "replace"} -> -10
      [] a.name \in {"if", "unless", "switch", "case"} -> -9
      [] a.name = "each" -> -8
      [] a.name \in {"object", "with"} -> -7
      [] OTHER -> 0

attribute_precedence(a) ==
    CASE a.name \in {"insert", "replace"} -> -10
      [] a.name = "each" -> -9
      [] a.name \in {"if", "unless", "switch", "case"} -> -8
      [] a.name \in {"object", "with"} -> -7
      [] a.name \in {"attr", "classappend", "styleappend"} -> -6
      [] a.name \in {"text", "utext"} -> 1
      [] a.name = "fragment" -> 2
      [] a.name = "remove" -> 3
      [] OTHER -> 0

(* node_list::sort: each place in turn is exchanged with every later one   *)
(* that is to come before it.                                              *)
Exchange(s, i, j) == [s EXCEPT ![i] = s[j], ![j] = s[i]]
SortAttributes(attrs) ==
    LET places == [i \in DOMAIN attrs |-> i]
        from(i, s) == FoldLeft(LAMBDA t, j : IF i < j /\ attribute_precedence(t[j]) < attribute_precedence(t[i])
                                             THEN Exchange(t, i, j) ELSE t, s, places)
    IN  FoldLeft(LAMBDA s, i : from(i, s), attrs, places)

PlaceOf(e, ns, name) == {i \in DOMAIN e.attrs : e.attrs[i].ns = ns /\ e.attrs[i].name = name}
Has(e, ns, name) == PlaceOf(e, ns, name) # {}
AttrOf(e, ns, name) == e.attrs[CHOOSE i \in PlaceOf(e, ns, name) : TRUE].v
EraseAttr(e, ns, name) == [e EXCEPT !.attrs = SelectSeq(@, LAMBDA a : a.ns # ns \/ a.name # name)]
set_attribute(e, name, v) ==
    IF Has(e, "", name) THEN [e EXCEPT !.attrs[CHOOSE i \in PlaceOf(e, "", name) : TRUE].v = v]
    ELSE [e EXCEPT !.attrs = Append(@, Attr("", name, v))]

Trim(s) == LET at == {i \in DOMAIN s : s[i] # SP}
           IN  IF at = {} THEN << >> ELSE SubSeq(s, Min(at), Max(at))
AppendTo(e, name, s, sep(_)) ==
    LET old == IF Has(e, "", name) THEN Trim(AttrOf(e, "", name)) ELSE << >>
    IN  IF s = << >> THEN e
        ELSE set_attribute(e, name, IF old = << >> THEN s ELSE old \o sep(old) \o s)
process_attr_classappend(e, v, scope) ==
    AppendTo(e, "class", Trim(process_el(v, scope)), LAMBDA old : <<SP>>)
process_attr_styleappend(e, v, scope) ==
    LET s == Trim(process_el(v, scope))
    IN  AppendTo(e, "style", IF s = << >> \/ Last(s) = Semi THEN s ELSE Append(s, Semi),
                 LAMBDA old : IF Last(old) = Semi THEN <<SP>> ELSE <<Semi, SP>>)

Directives == {"insert", "replace", "include", "each", "if", "unless", "switch", "object", "with", "attr",
               "classappend", "styleappend", "text", "utext", "fragment", "ref", "remove", "inline", "assert"}
BooleanAttributes == {"checked", "disabled", "selected", "hidden"}
process_attr_boolean_value(e, name, v, scope) ==
    IF Truth(evaluate_el(v[1], scope)) THEN set_attribute(e, name, <<Word(name)>>)
    ELSE EraseAttr(e, "", name)

Elements(kids) == SelectSeq(kids, LAMBDA n : n.t = "element")
(* set_content, on texts that are not adjacent.                            *)
SetText(kids, s) == Append(Elements(kids), Txt(s))
process_attr_text(e, v, scope, escaped) ==
    LET val == evaluate_el(v[1], scope)
        parsed == IF val.markup # << >> /\ val.kind = "string" THEN val.markup
                  ELSE IF val.text = << >> THEN << >> ELSE <<Txt(val.text)>>
    IN  IF val.kind = "null" THEN e
        ELSE IF escaped THEN [e EXCEPT !.kids = SetText(@, val.text)]
        ELSE [e EXCEPT !.kids = SetText(@, << >>) \o parsed]

(* The elements below a node, in document order.                           *)
RECURSIVE Below(_)
Below(e) == Flat([i \in DOMAIN e.kids |->
                IF e.kids[i].t = "element" THEN <<e.kids[i]>> \o Below(e.kids[i]) ELSE << >>])

Wild(v) == v = <<Word("*")>>
process_attr_switch(e, v, scope) ==
    LET val   == evaluate_el(v[1], scope).text
        cases == SelectSeq(Below(e), LAMBDA c : Has(c, "z", "case"))
        of(i) == AttrOf(cases[i], "z", "case")
        fits  == {i \in DOMAIN cases : ~Wild(of(i)) /\ (of(i) = val \/ process_el(of(i), scope) = val)}
        wild  == {i \in DOMAIN cases : Wild(of(i))}
        pick  == IF fits # {} THEN Min(fits) ELSE Max(wild)
    IN  [e EXCEPT !.kids = IF fits \cup wild = {} THEN << >> ELSE <<EraseAttr(cases[pick], "z", "case")>>]

-----------------------------------------------------------------------------
(* Fragments.                                                              *)
FragmentName(e) == IF Has(e, "z", "fragment") THEN AttrOf(e, "z", "fragment")[1].x
                   ELSE IF Has(e, "z", "ref") THEN AttrOf(e, "z", "ref")[1].x ELSE ""

(* resolve_fragment_spec: copies of the elements of that name or with that *)
(* fragment, without their id; no name here begins another.                *)
FragmentsIn(root, name) ==
    LET all == SelectSeq(<<root>> \o Below(root), LAMBDA e : name \in {e.name, FragmentName(e)})
    IN  [i \in DOMAIN all |-> EraseAttr(all[i], "", "id")]
resolve_fragment_spec(i, page, scope) ==
    CASE i.k = "this" -> FragmentsIn(page, i.x)
      [] i.k = "file" -> FragmentsIn(Shared, i.x)
      [] OTHER -> LET v == ValueOf(i, scope) IN IF v.kind = "nodes" THEN v.markup ELSE << >>
(* A string that is no specification, and a file that does not exist.      *)
Unresolvable(i, scope) == i.k = "nofile" \/ (IsExpr(i) /\ evaluate_el(i, scope).kind = "string")

RECURSIVE TextOf(_)
TextOf(nodes) == Flat([i \in DOMAIN nodes |->
                    IF nodes[i].t = "text" THEN nodes[i].s ELSE TextOf(nodes[i].kids)])
NodeSet(nodes) == Value("nodes", TextOf(nodes), nodes, << >>)

(* The arguments of a fragment get the parameters of the call, in the      *)
(* scope of the call; a parameter that is a fragment is a node set.        *)
Bound(e, params, page, scope) ==
    LET args == IF Has(e, "z", "fragment") THEN Tail(AttrOf(e, "z", "fragment")) ELSE << >>
        val(i) == IF i.k \in {"this", "file"} THEN NodeSet(resolve_fragment_spec(i, page, scope))
                  ELSE evaluate_el(i, scope)
    IN  FoldLeft(LAMBDA s, k : put(s, args[k].x, val(params[k])), scope,
                 [k \in 1..Min({Len(args), Len(params)}) |-> k])
Stripped(e) == EraseAttr(EraseAttr(e, "z", "ref"), "z", "fragment")

(* element::flatten_text.                                                  *)
flatten_text(kids) ==
    FoldLeft(LAMBDA acc, n : IF n.t = "text" /\ acc # << >> /\ Last(acc).t = "text"
                             THEN Append(Front(acc), Txt(Last(acc).s \o n.s)) ELSE Append(acc, n), << >>, kids)

-----------------------------------------------------------------------------
(* process_node.  The children of an element are a list with a place in    *)
(* it: before are the nodes up to that place, rest those after the node    *)
(* that is being processed, which the caller's iterator stands on.  What a *)
(* handler puts in front of its element is added to before.                *)
State(act, e, before, rest, scope) ==
    [act |-> act, e |-> e, before |-> before, rest |-> rest, scope |-> scope, inlined |-> FALSE]
Throw(st) == [st EXCEPT !.act = "throw"]
ErrorText == Txt(<<Word("Error processing element")>>)
Statistics(scope, stat, i, n) == put(put(scope, stat \o ".first", TruthOf(i = 1)), stat \o ".last", TruthOf(i = n))

RECURSIVE ProcessNode(_, _, _, _, _), ProcessKids(_, _, _, _, _), ProcessAttrs(_, _, _, _), ProcessAll(_, _, _, _, _)

(* Nodes put in before one after the other, each processed at once.        *)
ProcessAll(nodes, before, rest, scope, page) ==
    FoldLeft(LAMBDA r, n : ProcessNode(n, r.before, r.rest, scope, page),
             [before |-> before, rest |-> rest], nodes)

process_attr_each(e, v, st, page) ==
    LET bind(list, i) ==
            LET s == put(st.scope, v[1].x, list[i])
            IN  IF v[2].k = "stat" THEN Statistics(s, v[2].x, i, Len(list)) ELSE s
        turns(list) ==
            FoldLeft(LAMBDA r, i : ProcessNode(EraseAttr(e, "z", "each"), r.before, r.rest, bind(list, i), page),
                     [before |-> st.before, rest |-> <<e>> \o st.rest], [i \in DOMAIN list |-> i])
        done(r) == [st EXCEPT !.act = "remove", !.before = r.before, !.rest = Tail(r.rest)]
    IN  IF v[1].k # "each" THEN Throw(st) ELSE done(turns(Items(evaluate_el(Last(v), st.scope))))

(* process_attr_include.  What is inserted in the element is processed     *)
(* here, and again with its other children.                                *)
process_attr_include(e, tia, v, st, page) ==
    LET scopeFor(t) == IF t.t = "text" THEN st.scope ELSE Bound(t, Tail(v), page, st.scope)
        nodes(t) == IF t.t = "text" THEN <<t>> ELSE IF tia = "include" THEN t.kids ELSE <<Stripped(t)>>
        all(found, start) == FoldLeft(LAMBDA r, t : ProcessAll(nodes(t), r.before, r.rest, scopeFor(t), page),
                                      start, found)
        replaced(r) == [st EXCEPT !.act = "remove", !.before = flatten_text(r.before),
                                  !.rest = flatten_text(Tail(r.rest))]
        inserted(r) == [st EXCEPT !.e.kids = flatten_text(r.before)]
        given(found) ==
            IF tia = "replace" /\ found # << >>
            THEN replaced(all(found, [before |-> st.before, rest |-> <<e>> \o st.rest]))
            ELSE inserted(all(found, [before |-> e.kids, rest |-> << >>]))
    IN  IF Unresolvable(v[1], st.scope) THEN Throw(st)
        ELSE given(resolve_fragment_spec(v[1], page, st.scope))

process_attr_if(v, st, unless) ==
    [st EXCEPT !.act = IF Truth(evaluate_el(v[1], st.scope)) = unless THEN "remove" ELSE "none"]
process_attr_assert(v, st) == IF IsBad(v[1]) \/ ~Truth(ValueOf(v[1], st.scope)) THEN Throw(st) ELSE st
process_attr_with(v, st) ==
    IF IsBad(v[2]) THEN Throw(st) ELSE [st EXCEPT !.scope = put(@, v[1].x, ValueOf(v[2], st.scope))]
process_attr_attr(v, st) ==
    IF IsBad(v[2]) THEN Throw(st) ELSE [st EXCEPT !.e = set_attribute(@, v[1].x, ValueOf(v[2], st.scope).text)]
process_attr_generic(name, v, st) == [st EXCEPT !.e = set_attribute(@, name, process_el(v, st.scope))]

Handle(a, st, page) ==
    LET v == a.v
        scope == st.scope
    IN  CASE a.name = "object" -> [st EXCEPT !.scope = select_object(@, evaluate_el(v[1], scope))]
          [] a.name = "inline" -> [st EXCEPT !.e.kids = process_attr_inline(@, v[1].x, scope), !.inlined = TRUE]
          [] a.name \in {"if", "unless"} -> process_attr_if(v, st, a.name = "unless")
          [] a.name = "assert" -> process_attr_assert(v, st)
          [] a.name = "with" -> process_attr_with(v, st)
          [] a.name = "attr" -> process_attr_attr(v, st)
          [] a.name = "classappend" -> [st EXCEPT !.e = process_attr_classappend(@, v, scope)]
          [] a.name = "styleappend" -> [st EXCEPT !.e = process_attr_styleappend(@, v, scope)]
          [] a.name = "switch" -> [st EXCEPT !.e = process_attr_switch(@, v, scope)]
          [] a.name \in {"text", "utext"} -> [st EXCEPT !.e = process_attr_text(@, v, scope, a.name = "text")]
          [] a.name = "each" -> process_attr_each(st.e, v, st, page)
          [] a.name \in {"include", "insert", "replace"} -> process_attr_include(st.e, a.name, v, st, page)
          [] a.name \in BooleanAttributes -> [st EXCEPT !.e = process_attr_boolean_value(@, a.name, v, scope)]
          [] OTHER -> process_attr_generic(a.name, v, st)

(* The loop over the attributes, from place k on.  An exception ends it,   *)
(* but not the processing of the element.                                  *)
ProcessAttrs(st, k, inlined, page) ==
    LET after(a, h) ==
            CASE h.act = "remove" -> h
              [] h.act = "throw" -> [h EXCEPT !.before = Append(@, ErrorText), !.inlined = inlined]
              [] OTHER -> ProcessAttrs([h EXCEPT !.e = EraseAttr(@, "z", a.name)],
                                       CHOOSE i \in PlaceOf(h.e, "z", a.name) : TRUE,
                                       inlined \/ h.inlined, page)
        process(a) == IF a.ns # "z" \/ a.name \in {"remove", "ref", "fragment"}
                      THEN ProcessAttrs(st, k + 1, inlined, page)
                      ELSE after(a, Handle(a, st, page))
    IN  IF k > Len(st.e.attrs) THEN [st EXCEPT !.inlined = inlined] ELSE process(st.e.attrs[k])

ProcessNode(n, before, rest, scope, page) ==
    LET text(r) == [before |-> before \o <<Txt(r.text)>> \o r.after, rest |-> rest]
        kids(st) == ProcessKids(<< >>, st.e.kids, st.scope, st.inlined, page)
        made(st) == [before |-> IF st.act = "remove" THEN st.before
                                ELSE Append(st.before, [st.e EXCEPT !.kids = kids(st)]),
                     rest   |-> st.rest]
        sorted   == [n EXCEPT !.attrs = SortAttributes(@)]
    IN  IF n.t = "text" THEN text(process_text(n.s, scope))
        ELSE made(ProcessAttrs(State("none", sorted, before, rest, scope), 1, FALSE, page))

ProcessKids(before, rest, scope, inlined, page) ==
    LET on(r) == ProcessKids(r.before, r.rest, scope, inlined, page)
    IN  IF rest = << >> THEN before
        ELSE on(IF inlined /\ Head(rest).t = "text"
                THEN [before |-> Append(before, Head(rest)), rest |-> Tail(rest)]
                ELSE ProcessNode(Head(rest), before, Tail(rest), scope, page))

-----------------------------------------------------------------------------
(* post_process: what is left of an element, as nodes of its parent.  The  *)
(* children that take the place of a block or of a removed tag are not     *)
(* looked at again, and with the tag the texts go too.                     *)
process_attr_remove(kids, mode) ==
    CASE mode = "body" -> SelectSeq(kids, LAMBDA n : n.t # "element")
      [] mode = "all-but-first" ->
            LET first == {i \in DOMAIN kids : kids[i].t = "element" /\ \A j \in 1..i - 1 : kids[j].t # "element"}
            IN  Flat([i \in DOMAIN kids |-> IF kids[i].t = "element" /\ i \notin first THEN << >> ELSE <<kids[i]>>])
      [] OTHER -> kids
RECURSIVE post_process(_)
post_process(n) ==
    LET mode == IF n.t = "element" /\ Has(n, "z", "remove") THEN AttrOf(n, "z", "remove")[1].x ELSE ""
        kids == process_attr_remove(n.kids, mode)
    IN  CASE n.t = "text" -> <<n>>
          [] n.t = "element" /\ mode = "all" -> << >>
          [] n.t = "element" /\ mode = "tag" -> Elements(n.kids)
          [] n.t = "element" /\ n.name = "z:block" -> kids
          [] OTHER -> <<[n EXCEPT !.attrs = SelectSeq(@, LAMBDA a : a.ns # "z"),
                                  !.kids = Flat([i \in DOMAIN kids |-> post_process(kids[i])])]>>

(* process_tags: every form without one gets an input for the csrf token.  *)
CsrfField == Elt("input", <<Attr("", "name", <<Word("_csrf")>>), Attr("", "value", CsrfToken),
                           Attr("", "type", <<Word("hidden")>>)>>, << >>)
IsCsrfField(n) == n.t = "element" /\ n.name = "input" /\ Has(n, "", "name") /\ AttrOf(n, "", "name") = <<Word("_csrf")>>
RECURSIVE Decorate(_)
Decorate(n) ==
    IF n.t = "text" THEN n
    ELSE LET kids == [i \in DOMAIN n.kids |-> Decorate(n.kids[i])]
         IN  [n EXCEPT !.kids = IF n.name = "form" /\ CsrfToken # << >> /\ ~\E i \in DOMAIN kids : IsCsrfField(kids[i])
                                THEN Append(kids, CsrfField) ELSE kids]

process_xml(page, scope) == post_process(ProcessNode(page, << >>, << >>, scope, page).before[1])[1]
process_tags(page, scope) == Decorate(process_xml(page, scope))

-----------------------------------------------------------------------------
(* What a template means, without iterators and without the order of       *)
(* attributes: a node stands for a sequence of nodes.  They are compared   *)
(* in a normal form, where texts are not empty, no two are adjacent, and   *)
(* the attributes that have a value are a function.                        *)
RECURSIVE Normal(_)
AttrMap(all) ==
    LET attrs == SelectSeq(all, LAMBDA a : a.v # << >>)
    IN  [k \in {<<attrs[i].ns, attrs[i].name>> : i \in DOMAIN attrs} |->
            attrs[CHOOSE i \in DOMAIN attrs : <<attrs[i].ns, attrs[i].name>> = k].v]
NormalElt(n) == [t |-> "element", name |-> n.name, attrs |-> AttrMap(n.attrs), kids |-> Normal(n.kids)]
Normal(nodes) == flatten_text(Flat([i \in DOMAIN nodes |->
                    IF nodes[i].t = "text" THEN IF nodes[i].s = << >> THEN << >> ELSE <<nodes[i]>>
                    ELSE <<NormalElt(nodes[i])>>]))

MeantText(s, scope) ==
    Flat([j \in DOMAIN s |->
        LET v == ValueOf(s[j], scope)
        IN  IF ~IsExpr(s[j]) THEN <<Txt(<<s[j]>>)>>
            ELSE IF s[j].k = "[(" /\ v.markup # << >> THEN v.markup ELSE <<Txt(v.text)>>])

(* The attributes an element ends up with.                                 *)
Closed(s) == IF s = << >> \/ Last(s) = Semi THEN s ELSE Append(s, Semi)
Joined(s, t) == IF s = << >> \/ t = << >> THEN s \o t ELSE s \o <<SP>> \o t
MeantAttr(e, name, scope) ==
    LET old == IF Has(e, "", name) THEN AttrOf(e, "", name) ELSE << >>
        val(n) == evaluate_el(Last(AttrOf(e, "z", n)), scope)
        more(n) == Has(e, "z", n) /\ val(n).text # << >>
    IN  CASE Has(e, "z", name) -> IF name \notin BooleanAttributes THEN process_el(AttrOf(e, "z", name), scope)
                                  ELSE IF Truth(val(name)) THEN <<Word(name)>> ELSE << >>
          [] name = "class" /\ more("classappend") -> Joined(old, val("classappend").text)
          [] name = "style" /\ more("styleappend") -> Joined(Closed(old), Closed(val("styleappend").text))
          [] Has(e, "z", "attr") /\ AttrOf(e, "z", "attr")[1].x = name -> val("attr").text
          [] OTHER -> old

RECURSIVE Meaning(_, _, _)
MeantFragments(v, part, scope, page) ==
    LET nodes(t) == IF part = "kids" THEN t.kids ELSE <<Stripped(t)>>
        meant(ns, inner) == Flat([j \in DOMAIN ns |-> Meaning(ns[j], inner, page)])
        all(found) == Flat([i \in DOMAIN found |->
                              meant(nodes(found[i]), Bound(found[i], Tail(v), page, scope))])
    IN  all(resolve_fragment_spec(v[1], page, scope))

InnerScope(e, scope) ==
    LET v(name) == AttrOf(e, "z", name)
    IN  IF Has(e, "z", "with") THEN put(scope, v("with")[1].x, ValueOf(v("with")[2], scope))
        ELSE IF Has(e, "z", "object") THEN select_object(scope, ValueOf(v("object")[1], scope)) ELSE scope

(* What takes the place of the body of an element, if not null.            *)
Replacement(e, inner) ==
    LET by == IF Has(e, "z", "text") THEN "text" ELSE "utext"
    IN  IF Has(e, "z", by) THEN evaluate_el(AttrOf(e, "z", by)[1], inner) ELSE Null
Shown(e, val) == IF val.kind = "null" THEN << >>
                 ELSE IF Has(e, "z", "utext") /\ val.markup # << >> /\ val.kind = "string" THEN val.markup
                 ELSE <<Txt(val.text)>>

MeantKid(e, n, inner, page) ==
    IF n.t # "text" \/ ~Has(e, "z", "inline") THEN Meaning(n, inner, page)
    ELSE CASE AttrOf(e, "z", "inline")[1].x = "text" -> MeantText(n.s, inner)
           [] AttrOf(e, "z", "inline")[1].x = "javascript" -> InlineScript(<<n>>, inner)
           [] OTHER -> <<n>>
MeantKids(e, val, kids, inner, page) ==
    IF val.kind # "null" THEN Shown(e, val)
    ELSE Flat([i \in DOMAIN kids |-> MeantKid(e, kids[i], inner, page)])

MeantAs(e, kids, inner) ==
    LET names == SelectSeq([i \in DOMAIN e.attrs |-> e.attrs[i].name], LAMBDA n : n \notin Directives)
                 \o <<"class", "style", "title">>
        mode  == IF Has(e, "z", "remove") THEN AttrOf(e, "z", "remove")[1].x ELSE ""
    IN  CASE mode = "all" -> << >>
          [] mode = "tag" -> Elements(kids)
          [] e.name = "z:block" -> process_attr_remove(kids, mode)
          [] OTHER -> <<Elt(e.name, [i \in DOMAIN names |-> Attr("", names[i], MeantAttr(e, names[i], inner))],
                            process_attr_remove(kids, mode))>>

MeantElement(e, scope, inner, page) ==
    LET given == IF Has(e, "z", "switch") THEN process_attr_switch(e, AttrOf(e, "z", "switch"), scope).kids
                 ELSE e.kids
        kids  == IF Has(e, "z", "include")
                 THEN given \o MeantFragments(AttrOf(e, "z", "include"), "kids", inner, page) ELSE given
    IN  MeantAs(e, MeantKids(e, Replacement(e, inner), kids, inner, page), inner)
Meaning(n, scope, page) ==
    LET z(name) == n.t = "element" /\ Has(n, "z", name)
        v(name) == AttrOf(n, "z", name)
        fragments(name) == MeantFragments(v(name), "whole", scope, page)
        turn(list, i) == Statistics(put(scope, v("each")[1].x, list[i]), "s", i, Len(list))
        turns(list) == Flat([i \in DOMAIN list |-> Meaning(EraseAttr(n, "z", "each"), turn(list, i), page)])
    IN  CASE n.t = "text" -> MeantText(n.s, scope)
          [] z("replace") /\ resolve_fragment_spec(v("replace")[1], page, scope) # << >> -> fragments("replace")
          [] z("insert") -> Meaning([EraseAttr(n, "z", "insert") EXCEPT !.kids = @ \o fragments("insert")], scope, page)
          [] z("each") -> turns(Items(evaluate_el(Last(v("each")), scope)))
          [] z("if") /\ ~Truth(evaluate_el(v("if")[1], scope)) -> << >>
          [] z("unless") /\ Truth(evaluate_el(v("unless")[1], scope)) -> << >>
          [] OTHER -> MeantElement(n, scope, InnerScope(n, scope), page)

(* The pages a meaning is given to: nothing in them throws; expressions    *)
(* stand two characters apart in a text, and [(..)] on its own; and below  *)
(* a block or a tag that is removed nothing waits for post_process.  Of    *)
(* attributes of the same precedence that get in each other's way there    *)
(* is one at most.                                                         *)
Rivals == {{"text", "utext"}, {"insert", "replace"}, {"with", "object"}, {"title", "attr"}}
Apart(s) == /\ \A j \in DOMAIN s : s[j].k = "[(" => Len(s) = 1
            /\ \A j, k \in DOMAIN s : j < k /\ IsExpr(s[j]) /\ IsExpr(s[k]) =>
                  k > j + 2 \/ (k = j + 2 /\ ~IsShort(s[j + 1]))
Ordinary(page) ==
    LET all == ToSet(<<page>> \o Below(page))
        Late(e) == e.name = "z:block" \/ \E n \in {"remove", "fragment", "ref"} : Has(e, "z", n)
    IN  \A e \in all :
          /\ ~Has(e, "z", "assert")
          /\ \A R \in Rivals : \E n \in R : ~Has(e, "z", n)
          /\ \A i \in DOMAIN e.attrs : \A j \in DOMAIN e.attrs[i].v :
                e.attrs[i].v[j].k # "nofile" /\ ~IsBad(e.attrs[i].v[j])
          /\ \A i \in DOMAIN e.kids : e.kids[i].t = "text" => Apart(e.kids[i].s)
          /\ e.name = "z:block" \/ (Has(e, "z", "remove") /\ AttrOf(e, "z", "remove")[1].x = "tag")
                => \A b \in ToSet(Below(e)) : ~Late(b)

(* Where text and utext have nothing but texts to replace.                 *)
TextsReplaced(page) ==
    \A e \in ToSet(<<page>> \o Below(page)) :
        (\E n \in {"text", "utext"} : Has(e, "z", n)) =>
            Elements(e.kids) = << >> /\ \A n \in {"insert", "include"} : ~Has(e, "z", n)
=============================================================================
