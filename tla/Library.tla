------------------------------ MODULE Library ------------------------------
(***************************************************************************)
(* The functions of the library that handlers call and that keep no state: *)
(* encodings, request data, glob patterns, JSON and templates, one call at *)
(* a time, beside a hash object that is used from call to call (Hash).     *)
(*                                                                         *)
(* A call is a record of what is called and its arguments.  Every property *)
(* compares what the code computes with a definition that does not follow  *)
(* the code.                                                               *)
(***************************************************************************)
EXTENDS Hash, FiniteSets

CONSTANTS Data,        \* sequences of bytes to encode
          Widths,      \* widths of the lines of base64 text
          Queries,     \* parameters of a query: sequences of a name and a value
          Names,       \* names that are asked for
          Cookies,     \* the headers of a request
          Forms,       \* the parts of multipart payloads
          Patterns,    \* patterns of glob: sequences of alternatives
          Paths,       \* what they are matched with
          Values,      \* JSON elements
          Pages,       \* templates
          Globals,     \* the scope they are processed in
          Shared, CsrfToken

VARIABLE call

G == INSTANCE Glob
J == INSTANCE JsonParser
E == INSTANCE Encodings
R == INSTANCE RequestData
T == INSTANCE TagProcessor

vars == <<hashVars, call>>

Idle == [f |-> "idle"]
Calls ==
    [f : {"encode"}, data : Data, width : Widths]
    \cup [f : {"get_parameter"}, query : Queries, name : Names]
    \cup [f : {"set_cookie"}, headers : Cookies, name : Names, value : Names]
    \cup [f : {"get_file_parameters"}, parts : Forms, name : {"a", "b"}]
    \cup [f : {"glob_match"}, pattern : Patterns, path : Paths]
    \cup [f : {"serialize"}, element : Values]
    \cup [f : {"compare"}, x : Values, y : Values]
    \cup [f : {"process_tags"}, page : Pages]

LibraryInit == Init /\ call = Idle

Call == /\ call = Idle /\ ~updated /\ finals = 0
        /\ call' \in Calls
        /\ UNCHANGED hashVars

Return == /\ call # Idle
          /\ call' = Idle
          /\ UNCHANGED hashVars

Hashing == call = Idle /\ Next /\ UNCHANGED call

LibraryNext == Call \/ Return \/ Hashing

LibrarySpec == LibraryInit /\ [][LibraryNext]_vars

-----------------------------------------------------------------------------
(* base64 with lines, base64url and the escapes of URLs give back what was *)
(* encoded, whatever its length; no line is longer than asked for, and the *)
(* text for a URL needs no escapes.  (Three exceptions: when the last line *)
(* is just full, encode_base64 has counted one line break too many, and    *)
(* its assertion crypto.cpp:245 fails; decode_base64 does not look for the *)
(* second pad on the next line; and encode_url lets a plus through, which  *)
(* decode_url reads as a space.)                                           *)
EncodingsInvert == call.f = "encode" =>
    LET b64   == E!encode_base64(call.data, call.width)
        url   == E!encode_base64url(call.data)
        lines == R!SplitAt(b64, {E!NL})
        torn  == \E i \in 2..Len(b64) - 1 : SubSeq(b64, i - 1, i + 1) = <<E!Pad, E!NL, E!Pad>>
        full  == call.width > 0 /\ (((Len(call.data) + 2) \div 3) * 4) % call.width = 0
    IN  /\ (b64 = E!Aborted /\ full) \/ torn \/ E!decode_base64(b64) = call.data
        /\ E!decode_base64url(url) = call.data
        /\ \A i \in DOMAIN url : E!IsAcceptable(url[i])
        /\ call.width > 0 => \A i \in DOMAIN lines : Len(lines[i]) <= call.width
        /\ E!decode_url(E!encode_url(call.data))
             = [i \in DOMAIN call.data |-> IF call.data[i] = E!Plus THEN E!Space ELSE call.data[i]]

(* A parameter has the value of the first pair that is named exactly so,   *)
(* wherever its name begins another name or is a value; a name without an  *)
(* equals sign is its own value.  (Names that are given with an equals     *)
(* sign and no value are set aside: request.hpp:214 says that they are     *)
(* present, and the code, request.cpp:205, does not find them.)            *)
QueryText(q) ==
    LET text(p) == IF p.bare THEN p.name ELSE p.name \o <<"=">> \o p.value
    IN  J!Between([i \in DOMAIN q |-> text(q[i])], <<"&">>)
ParametersFound == call.f = "get_parameter" =>
    LET q  == call.query
        at == {i \in DOMAIN q : q[i].name = call.name}
        p  == q[CHOOSE i \in at : \A j \in at : i <= j]
    IN  (\A i \in at : q[i].bare \/ q[i].value # << >>) =>
          R!get_urlencode_parameter(QueryText(q), call.name)
            = IF at = {} THEN R!NotFound ELSE IF p.bare THEN p.name ELSE p.value

(* After set_cookie the cookie has the new value, however many headers and *)
(* cookies of that name there were and in whatever case, and every other   *)
(* cookie has the value that was set last.  Other headers stay.            *)
CookieReplaced == call.f = "set_cookie" =>
    LET before == call.headers
        after  == R!set_cookie(before, call.name, call.value)
        isCookie(h) == R!iequals(h.name, "Cookie")
        all    == R!FlattenSeq([i \in DOMAIN before |->
                     IF isCookie(before[i]) THEN R!CookiesOf(before[i].value) ELSE << >>])
        named(n) == {i \in DOMAIN all : R!NameIn(all[i]) = n}
        last(n)  == CHOOSE i \in named(n) : \A j \in named(n) : j <= i
    IN  /\ R!get_cookie(after, call.name) = call.value
        /\ \A i \in DOMAIN all :
              LET n == R!NameIn(all[i])
              IN  n # call.name => R!get_cookie(after, n) = R!ValueIn(all[last(n)])
        /\ Cardinality({i \in DOMAIN after : isCookie(after[i])}) = 1
        /\ SelectSeq(after, LAMBDA h : ~isCookie(h)) = SelectSeq(before, LAMBDA h : ~isCookie(h))

(* A part of a form is found by its name with exactly its content, and all *)
(* of them by get_file_parameters in their order, whatever the contents of *)
(* other parts look like: headers, blank lines, nothing at all.            *)
PartsFound == call.f = "get_file_parameters" =>
    LET lines == R!Written(call.parts)
        named == R!Named(call.parts, call.name)
    IN  /\ R!get_multipart_parameter(lines, call.name)
             = IF named = << >> THEN << >> ELSE named[1].content
        /\ R!get_file_parameters(lines, call.name) = [i \in DOMAIN named |-> named[i].content]

(* What a client sent is what a handler gets when it asks by name.         *)
RequestRead == ParametersFound /\ CookieReplaced /\ PartsFound

(* A pattern is a sequence of alternatives, each made of symbols and of    *)
(* groups, whose options are made so in turn.                              *)
RECURSIVE PatternText(_), StandsFor(_)
PatternText(p) ==
    LET options(g) == J!Between([i \in DOMAIN g |-> PatternText(g[i])], <<",">>)
    IN  R!FlattenSeq([i \in DOMAIN p |-> IF p[i].options = << >> THEN <<p[i].symbol>>
                                         ELSE <<"{">> \o options(p[i].options) \o <<"}">>])
StandsFor(p) ==
    LET first == IF Head(p).options = << >> THEN {<<Head(p).symbol>>}
                 ELSE UNION {StandsFor(Head(p).options[i]) : i \in DOMAIN Head(p).options}
    IN  IF p = << >> THEN {<< >>} ELSE {a \o b : a \in first, b \in StandsFor(Tail(p))}

(* glob.cpp accepts a path exactly when, for some alternative and some     *)
(* option of each group, the path can be cut into pieces that fit the      *)
(* items of the pattern: no way of matching is missed by the order in      *)
(* which a star is tried, and none is lost or added by the expansion of    *)
(* the groups.  A slash at the end stands for all that is below it; three  *)
(* stars in a row have no meaning.                                         *)
GlobAgrees == call.f = "glob_match" =>
    LET p     == call.pattern
        text  == J!Between([i \in DOMAIN p |-> PatternText(p[i])], <<";">>)
        below == IF R!Last(text) = "/" THEN <<"*", "*">> ELSE << >>
        words == UNION {{w \o IF i = Len(p) THEN below ELSE << >> : w \in StandsFor(p[i])} : i \in DOMAIN p}
        clear(w) == \A i \in 1..Len(w) - 2 : \E j \in i..i + 2 : w[j] # "*"
    IN  text # << >> /\ (\A w \in words : clear(w)) =>
          (G!glob_match(call.path, text) <=> \E w \in words : G!Denotes(G!Items(w), call.path))

(* An element that is written and read again is equal to what it was, but  *)
(* for floats of more than six digits, which are rounded, and for empty    *)
(* arrays and objects, which the parser leaves null.                       *)
InSixDigits(h) == IF h % 2 = 0 \/ h \in -199999..199999 THEN h
                  ELSE CHOOSE e \in {h - 1, h + 1} : e % 4 = 0
RECURSIVE Reread(_)
Reread(v) == CASE J!Type(v) = "array" /\ v.array # << >> -> J!Array([i \in DOMAIN v.array |-> Reread(v.array[i])])
               [] J!Type(v) = "object" /\ v.object # << >> ->
                    J!Object([k \in DOMAIN v.object |-> Reread(v.object[k])])
               [] J!Type(v) \in {"array", "object"} /\ J!IsEmpty(v) -> J!Null
               [] J!Type(v) = "number_float" -> J!Float(InSixDigits(v.number_float))
               [] OTHER -> v
RoundTrip == call.f = "serialize" =>
    LET same(r) == ~J!Fails(r) /\ J!Equal(r, Reread(call.element))
    IN  same(J!ParseJson(J!Serialize(call.element)))

(* operator< orders elements of any types, so that they can be sorted and  *)
(* kept in sets: of two elements either one is less or they are equal, as  *)
(* operator== has it, and the order is transitive.                         *)
Ordered == call.f = "compare" =>
    LET x == call.x
        y == call.y
    IN  /\ (~J!Less(x, y) /\ ~J!Less(y, x)) <=> J!Equal(x, y)
        /\ ~(J!Less(x, y) /\ J!Less(y, x))
        /\ \A z \in Values : J!Less(x, y) /\ J!Less(y, z) => J!Less(x, z)

(* Elements survive being written, and compare as they should.             *)
ValuesKept == RoundTrip /\ Ordered

(* A page becomes what its template means: loops, conditions and fragments *)
(* in whatever combination and nesting, each in its own scope and in the   *)
(* order of the page.  (What a fragment has added to the body of an        *)
(* element is processed a second time with that body; with a tag that is   *)
(* removed its own texts go.)  Pages are set aside where text or utext     *)
(* meets elements: it replaces the body of the tag, lib-http.qbk:598, and  *)
(* the code leaves the elements of the body where they are.                *)
MadeAsMeant == call.f = "process_tags" /\ T!Ordinary(call.page) /\ T!TextsReplaced(call.page) =>
    T!Normal(<<T!process_xml(call.page, Globals)>>) = T!Normal(T!Meaning(call.page, Globals, call.page))

(* Every form has one field for the csrf token.                            *)
OneFieldForForms == call.f = "process_tags" /\ T!Ordinary(call.page) =>
    LET fields(e) == {i \in DOMAIN e.kids : T!IsCsrfField(e.kids[i])}
    IN  \A e \in T!ToSet(T!Below(T!process_tags(call.page, Globals))) : e.name = "form" => Cardinality(fields(e)) = 1

(* What becomes of a node does not depend on the nodes beside it, whether  *)
(* they are taken out, multiplied, replaced, or stopped by an exception:   *)
(* the iterator that goes over the nodes is never led astray.              *)
SiblingsApart == call.f = "process_tags" =>
    LET kids == call.page.kids
        made == [nodes \in {kids} \cup {<<kids[i]>> : i \in DOMAIN kids} |->
                   T!ProcessKids(<< >>, nodes, Globals, FALSE, call.page)]
        apart(all) == T!Normal(all[kids]) = T!Normal(T!Flat([i \in DOMAIN kids |-> all[<<kids[i]>>]]))
    IN  apart(made)

(* Templates: a page is made of what its nodes mean, each for itself.      *)
PageAsMeant == MadeAsMeant /\ OneFieldForForms /\ SiblingsApart
=============================================================================
