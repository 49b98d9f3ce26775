---------------------------- MODULE RequestData ----------------------------
(***************************************************************************)
(* What a handler reads from a request (request.cpp): its headers, cookies *)
(* and parameters, from the query, from a form, or from the parts of a     *)
(* multipart payload.                                                      *)
(*                                                                         *)
(* Names and values are sequences of symbols.  A header name has a plain   *)
(* form and one in another case: Lower tells which names are the same      *)
(* when case is ignored.                                                   *)
(***************************************************************************)
EXTENDS Integers, SequencesExt, Folds

Lower(name) == IF name = "COOKIE" THEN "Cookie" ELSE IF name = "NAME" THEN "name" ELSE name
iequals(a, b) == Lower(a) = Lower(b)
FirstWhere(s, P(_)) == IF \E i \in DOMAIN s : P(s[i])
                       THEN s[Min({i \in DOMAIN s : P(s[i])})] ELSE [name |-> "", value |-> << >>]

set_header(headers, name, value) ==
    LET at == {i \in DOMAIN headers : iequals(headers[i].name, name)}
    IN  IF at = {} THEN Append(headers, [name |-> name, value |-> value])
        ELSE [headers EXCEPT ![Min(at)].value = value]
get_header(headers, name) == FirstWhere(headers, LAMBDA h : iequals(h.name, name)).value
(* Unlike the other two this one looks at the case.                        *)
remove_header(headers, name) == SelectSeq(headers, LAMBDA h : h.name # name)

-----------------------------------------------------------------------------
(* Text cut at separators, and at the first equals sign.                   *)
SplitAt(s, seps) ==
    LET cuts == SetToSortSeq({0, Len(s) + 1} \cup {i \in DOMAIN s : s[i] \in seps}, <)
    IN  [k \in 1..(Len(cuts) - 1) |-> SubSeq(s, cuts[k] + 1, cuts[k + 1] - 1)]
Trim(s) == LET in == {i \in DOMAIN s : s[i] # " "}
           IN  IF in = {} THEN << >> ELSE SubSeq(s, Min(in), Max(in))
EqualsAt(s) == IF \E i \in DOMAIN s : s[i] = "=" THEN Min({i \in DOMAIN s : s[i] = "="}) ELSE 0
NameIn(s) == SubSeq(s, 1, EqualsAt(s) - 1)
ValueIn(s) == SubSeq(s, EqualsAt(s) + 1, Len(s))

(* get_cookie reads headers named exactly Cookie; set_cookie collects them *)
(* in any case, the last of a name counting, and leaves one header.        *)
CookiesOf(value) == SelectSeq([i \in DOMAIN SplitAt(value, {";"}) |-> Trim(SplitAt(value, {";"})[i])],
                              LAMBDA c : EqualsAt(c) # 0)
get_cookie(headers, name) ==
    LET all == FlattenSeq([i \in DOMAIN headers |->
                             IF headers[i].name = "Cookie" THEN CookiesOf(headers[i].value) ELSE << >>])
        at  == {i \in DOMAIN all : NameIn(all[i]) = name}
    IN  IF at = {} THEN << >> ELSE ValueIn(all[Min(at)])

set_cookie(headers, name, value) ==
    LET all  == FlattenSeq([i \in DOMAIN headers |->
                              IF iequals(headers[i].name, "Cookie") THEN CookiesOf(headers[i].value) ELSE << >>])
                \o <<name \o <<"=">> \o value>>
        latest(i) == \A j \in DOMAIN all : NameIn(all[j]) = NameIn(all[i]) => j <= i
        kept == SetToSeq({all[i] : i \in {i \in DOMAIN all : latest(i)}})     \* a std::map
        text == FlattenSeq([i \in DOMAIN kept |-> IF i = 1 THEN kept[i] ELSE <<";", " ">> \o kept[i]])
    IN  set_header(SelectSeq(headers, LAMBDA h : ~iequals(h.name, "Cookie")), "Cookie", text)

-----------------------------------------------------------------------------
(* Parameters of a query or a form.  The escapes are those of Encodings;   *)
(* here a name or a value is a symbol that stands for itself.              *)
NotFound == <<"not found">>

(* get_urlencode_parameter: the first that is the name alone, which then   *)
(* is its own value, or has a value that is not empty.                     *)
get_urlencode_parameter(s, name) ==
    LET ps == SplitAt(s, {"&", ";"})
        n  == Len(name)
        at == {i \in DOMAIN ps : /\ Len(ps[i]) = n \/ (Len(ps[i]) > n + 1 /\ ps[i][n + 1] = "=")
                                 /\ SubSeq(ps[i], 1, n) = name}
        p  == ps[Min(at)]
    IN  IF at = {} THEN NotFound ELSE IF p = name THEN name ELSE SubSeq(p, n + 2, Len(p))

(* get_parameters: what has no equals sign has no name and no value.       *)
get_parameters(s) ==
    LET ps == SelectSeq(SplitAt(s, {"&", ";"}), LAMBDA p : p # << >>)
    IN  [i \in DOMAIN ps |-> IF EqualsAt(ps[i]) = 0 THEN [name |-> << >>, value |-> << >>]
                             ELSE [name |-> NameIn(ps[i]), value |-> ValueIn(ps[i])]]

-----------------------------------------------------------------------------
(* A multipart payload, line by line.  The readers go through it with a    *)
(* state, the name of the part they are in, and the content so far; the    *)
(* name is not forgotten when a part begins.                               *)
Line(kind, text) == [kind |-> kind, text |-> text]
Boundary == Line("boundary", "")
LastLine == Line("last", "")
Blank == Line("blank", "")

Reader == [state |-> "SKIP", contentName |-> "", content |-> << >>, found |-> FALSE, done |-> FALSE]

\* Mutant: the content of a part that is not asked for is read as headers.
ReadLineInHeader(r, line, name) ==
    IF r.done THEN r
    ELSE IF line.kind \in {"boundary", "last"}
    THEN IF r.state = "CONTENT" \/ line.kind = "last" THEN [r EXCEPT !.done = TRUE, !.state = "HEADER"]
         ELSE [r EXCEPT !.state = "HEADER"]
    ELSE IF r.state = "HEADER"
    THEN CASE line.kind = "blank" /\ r.contentName = name -> [r EXCEPT !.found = TRUE, !.state = "CONTENT"]
           [] line.kind = "disposition" -> [r EXCEPT !.contentName = line.text]
           [] OTHER -> r
    ELSE IF r.state = "CONTENT" THEN [r EXCEPT !.content = Append(@, line)] ELSE r

(* One line, in get_parameter_ex and in file_param_parser::next.  A        *)
(* boundary ends the content that was looked for.                          *)
ReadLine(r, line, name) ==
    IF r.done THEN r
    ELSE IF line.kind \in {"boundary", "last"}
    THEN IF r.state = "CONTENT" \/ line.kind = "last" THEN [r EXCEPT !.done = TRUE, !.state = "HEADER"]
         ELSE [r EXCEPT !.state = "HEADER"]
    ELSE IF r.state = "HEADER"
    THEN CASE line.kind = "blank" /\ r.contentName = name -> [r EXCEPT !.found = TRUE, !.state = "CONTENT"]
           [] line.kind = "blank" /\ r.contentName # name -> [r EXCEPT !.state = "SKIP"]
           [] line.kind = "disposition" -> [r EXCEPT !.contentName = line.text]
           [] OTHER -> r
    ELSE IF r.state = "CONTENT" THEN [r EXCEPT !.content = Append(@, line)] ELSE r

(* The multipart branch of get_parameter_ex: nothing unless the content    *)
(* was ended by a boundary.                                                *)
get_multipart_parameter(lines, name) ==
    LET r == FoldLeft(LAMBDA acc, l : ReadLine(acc, l, name), Reader, lines)
    IN  IF r.found /\ r.done THEN r.content ELSE << >>

(* file_param_parser::next from line i on.  It stops at the boundary line  *)
(* and reads on from there, in the state HEADER; the line it finds there   *)
(* begins at the start of the payload, and so is a boundary again.         *)
RECURSIVE NextFile(_, _, _, _)
NextFile(lines, i, r, name) ==
    IF r.done THEN [r |-> r, at |-> i]
    ELSE IF i > Len(lines) THEN [r |-> r, at |-> i]
    ELSE NextFile(lines, i + 1, ReadLine(r, lines[i], name), name)

RECURSIVE Files(_, _, _)
Files(lines, from, name) ==
    LET n == NextFile(lines, from, [Reader EXCEPT !.state = IF from = 1 THEN "SKIP" ELSE "HEADER"], name)
    IN  IF ~(n.r.found /\ n.r.done) THEN << >> ELSE <<n.r.content>> \o Files(lines, n.at, name)
get_file_parameters(lines, name) == Files(lines, 1, name)

(* How a client writes the parts.                                          *)
Written(parts) ==
    FlattenSeq([i \in DOMAIN parts |->
        <<Boundary, Line("disposition", parts[i].name)>> \o parts[i].extra \o <<Blank>> \o parts[i].content])
    \o <<LastLine>>
Named(parts, name) == SelectSeq(parts, LAMBDA p : p.name = name)

-----------------------------------------------------------------------------
(* get_accept.  A header value is a sequence of media ranges with a        *)
(* quality in tenths.                                                      *)
get_accept(ranges, type) ==
    LET exact == {i \in DOMAIN ranges : ranges[i].type = type}
        upto  == IF exact = {} THEN Len(ranges) ELSE Min(exact)
        wild  == {ranges[i].q : i \in {i \in 1..upto : ranges[i].type \in {<<type[1], "*">>, <<"*", "*">>}}}
    IN  IF exact # {} THEN ranges[Min(exact)].q ELSE Max(wild \cup {0})
=============================================================================
