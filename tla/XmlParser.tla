----------------------------- MODULE XmlParser ------------------------------
(***************************************************************************)
(* parser_imp::element and parser_imp::content of lib-xml/src/parser.cpp:  *)
(* the part of the XML parser that reads the elements of a document, keeps *)
(* a validator for every open element, replaces entity references by their *)
(* text and keeps account of ID and IDREF attributes.                      *)
(*                                                                         *)
(* The C++ stack is the variable frames: the document, the open elements   *)
(* and the entities whose text is being read.  A token is what             *)
(* get_next_content returns; a start tag is one token with its attributes, *)
(* an attribute value a sequence of names of one length.  The declarations *)
(* are given; the tokens of the document are chosen as they are read.      *)
(* Namespaces are left out.                                                *)
(***************************************************************************)
EXTENDS Integers, Sequences, FiniteSets, SequencesExt, FiniteSetsExt

\* The states of doctype.cpp, by the virtual functions the parser calls:
\* DocType.tla has what they do.
CONSTANTS allow(_, _),              \* the answer of a state to a child's name
          allow_empty(_),           \* whether the content may be empty
          get_content_spec(_),      \* "Any", "Empty", "Mixed" or "Children"
          content_spec_any,
          content_spec_element(_)

CONSTANT Scenarios      \* records [dtd, validating, vocabulary, limit]; limit is
                        \* the number of tokens a document may have

\* The tokens of a document and of the texts of its entities.
TokensOf(s) ==
    s.vocabulary \cup
        UNION {ToSet(s.dtd.entities[n].text) : n \in DOMAIN s.dtd.entities}

ASSUME ScenariosAssumption ==
    \A s \in Scenarios :
        /\ IsFiniteSet(DOMAIN s.dtd.entities)
        /\ \A n \in DOMAIN s.dtd.entities :
                s.dtd.entities[n].text \in Seq(TokensOf(s))
        /\ \A tok \in TokensOf(s) :
                /\ tok.atts \in Seq(ToSet(tok.atts))
                /\ \A a \in ToSet(tok.atts) : a.value \in Seq(ToSet(a.value))

VARIABLES scenario,     \* the declarations, m_validating, the tokens that occur
          imp,          \* m_ids, m_unresolved_ids, whether an invalidation was reported,
                        \* and the verdict: "parsing", "accepted", "malformed", "invalid"
                        \* or "undefined" (the behaviour is)
          frames,       \* the active calls of parse, element and content
          doc,          \* history: the elements read, in document order
          length        \* history: tokens read from the document itself

vars == <<scenario, imp, frames, doc, length>>

dtd == scenario.dtd
validating == scenario.validating

NoDecl == [type |-> "none"]

\* Tokens.
Tag(name, atts, empty) == [t |-> "stag", name |-> name, atts |-> atts, empty |-> empty]
Token(t, name) == [t |-> t, name |-> name, atts |-> <<>>, empty |-> FALSE]
DataTokens == {"text", "space", "charref", "spaceref", "cdata", "comment"}

Frame(kind, name, valid, node, text) ==
    [kind |-> kind, name |-> name, valid |-> valid, node |-> node, text |-> text]

-----------------------------------------------------------------------------
(* not_well_formed throws, not_valid throws only when validating; a parser   *)
(* that has thrown does nothing more.                                        *)

Going(p) == p.verdict = "parsing"

NotWellFormed(p, bad) == IF Going(p) /\ bad THEN [p EXCEPT !.verdict = "malformed"] ELSE p

NotValid(p, bad) ==
    IF ~(Going(p) /\ bad) THEN p
    ELSE IF validating THEN [p EXCEPT !.verdict = "invalid"]
    ELSE [p EXCEPT !.reported = TRUE]

-----------------------------------------------------------------------------
(* validator: the states of one element, and whether it may end *)

NewValidator(spec) == [state |-> spec, done |-> allow_empty(spec)]

ValidatorAllow(v, name) == allow(v.state, name)

Advanced(v, a) == [v EXCEPT !.state = a.state, !.done = a.done]

-----------------------------------------------------------------------------
(* Declarations *)

IsDeclared(name) == name \in DOMAIN dtd.elements

\* Without a declaration, or a content specification in it, anything is
\* allowed.
get_element(name) ==
    IF IsDeclared(name) THEN dtd.elements[name]
    ELSE [allowed |-> content_spec_any, atts |-> <<>>]

RootValidator ==
    NewValidator(IF IsDeclared(dtd.root) THEN content_spec_element(dtd.root)
                 ELSE content_spec_any)

XmlSpaceAttr ==
    [type |-> "Enumerated", default |-> "None", value |-> <<>>,
     enum |-> {<<"preserve">>, <<"default">>}, external |-> FALSE]

AttributeDecl(element, name) ==
    LET atts == get_element(element).atts
    IN  CASE name \in DOMAIN atts                -> atts[name]
          [] name \notin DOMAIN atts /\ ~validating /\ name = "xml:space" -> XmlSpaceAttr
          [] OTHER                               -> NoDecl

IsUnparsedEntity(name) == name \in DOMAIN dtd.entities /\ ~dtd.entities[name].parsed

ValidateValue(d, value) ==
    /\ CASE d.type \in {"CDATA", "IDREFS"} -> TRUE
         [] d.type \in {"ID", "IDREF"}     -> Len(value) <= 1
         [] d.type = "ENTITY"              -> Len(value) = 1 /\ IsUnparsedEntity(value[1])
         [] d.type = "ENTITIES"            -> value # <<>> /\ \A i \in DOMAIN value :
                                                                IsUnparsedEntity(value[i])
         [] d.type = "NMTOKEN"             -> Len(value) = 1
         [] d.type = "NMTOKENS"            -> value # <<>>
         [] d.type \in {"Enumerated", "Notation"} -> value \in d.enum
    /\ d.default = "Fixed" => value = d.value

-----------------------------------------------------------------------------
(* Attributes *)

\* The references taken from a list of names: all but the last are cut with
\* substr(b, e), which is e characters from b, so the i-th takes i names.
RefsIn(value) ==
    {SubSeq(value, i, Min({2 * i - 1, Len(value)})) : i \in 1 .. Len(value) - 1}
        \cup {SubSeq(value, i, i) : i \in {Len(value)} \ {0}}

\* Mutant of DeclareId: a reference that was waiting for the ID keeps waiting.
DeclareIdKeeps(p, value) ==
    LET q == NotValid(p, value \in p.ids)
    IN  IF Going(q) THEN [q EXCEPT !.ids = @ \cup {value}] ELSE q

DeclareId(p, value) ==
    LET q == NotValid(p, value \in p.ids)
    IN  IF Going(q)
        THEN [q EXCEPT !.ids = @ \cup {value}, !.unresolved = @ \ {value}]
        ELSE q

ReferToId(p, value, refs) ==
    LET q == NotValid(p, value = <<>>)
    IN  IF Going(q) THEN [q EXCEPT !.unresolved = @ \cup (refs \ q.ids)] ELSE q

TakeIds(p, d, value) ==
    CASE d.type = "ID"     -> DeclareId(p, value)
      [] d.type = "IDREF"  -> ReferToId(p, value, {value})
      [] d.type = "IDREFS" -> ReferToId(p, value, RefsIn(value))
      [] OTHER             -> p

ReadAttribute(p, tag, i) ==
    LET x == tag.atts[i]
        d == AttributeDecl(tag.name, x.name)
        once     == NotWellFormed(p, \E j \in 1 .. i - 1 : tag.atts[j].name = x.name)
        declared == NotValid(once, d = NoDecl /\ validating)
        bad      == d # NoDecl /\ ~ValidateValue(d, x.value)
        checked  == IF d = XmlSpaceAttr THEN NotWellFormed(declared, bad)
                    ELSE NotValid(declared, bad)
    IN  TakeIds(checked, d, x.value)

Given(tag) == {tag.atts[i].name : i \in DOMAIN tag.atts}

\* The declared attributes that the tag leaves to their default.
Defaulted(tag) ==
    LET atts == get_element(tag.name).atts
    IN  {n \in DOMAIN atts \ Given(tag) :
            atts[n].default # "Required" /\ atts[n].value # <<>>}

MissingAttributes(p, tag) ==
    LET atts == get_element(tag.name).atts
        required == NotValid(p, \E n \in DOMAIN atts \ Given(tag) : atts[n].default = "Required")
    IN  NotValid(required, \E n \in Defaulted(tag) :
                                validating /\ dtd.standalone /\ atts[n].external)

ReadAttributes(p, tag) ==
    LET read[i \in 0 .. Len(tag.atts)] ==
            IF i = 0 THEN p ELSE ReadAttribute(read[i - 1], tag, i)
    IN  MissingAttributes(read[Len(tag.atts)], tag)

-----------------------------------------------------------------------------
(* Where the next token comes from *)

\* The entity whose text is read, 0 for the document itself.
Source == Max({0} \cup {i \in DOMAIN frames : frames[i].kind = "entity"})

\* The frame whose validator content() was called with.
Owner == Max({i \in DOMAIN frames : frames[i].kind # "entity"})

Top == frames[Len(frames)]

\* m_entities_on_stack.
EntitiesOnStack == {frames[i].name : i \in {j \in DOMAIN frames : frames[j].kind = "entity"}}

\* The tokens get_next_content may return now: the text of an entity is
\* given, that of the document is not.
Lookahead ==
    IF Source = 0 THEN {tok \in scenario.vocabulary : length < scenario.limit}
    ELSE {frames[Source].text[i] : i \in 1 .. Min({1, Len(frames[Source].text)})}

Consumed == IF Source = 0 THEN frames ELSE [frames EXCEPT ![Source].text = Tail(@)]

CountToken == length' = IF Source = 0 THEN length + 1 ELSE length

\* Outside the root element.
Outside == Len(frames) = 1

OwnerSpec == get_content_spec(frames[Owner].valid.state)

\* History: the element that is being read has this child, that data.
WithChild(name) ==
    [i \in DOMAIN doc |->
        IF i = frames[Owner].node THEN [doc[i] EXCEPT !.children = Append(@, name)] ELSE doc[i]]
WithData(kinds) ==
    [i \in DOMAIN doc |->
        IF i = frames[Owner].node THEN [doc[i] EXCEPT !.data = @ \cup kinds] ELSE doc[i]]

-----------------------------------------------------------------------------

Init ==
    /\ scenario \in Scenarios
    /\ frames = <<Frame("document", "", RootValidator, 0, <<>>)>>
    /\ imp = NotValid([verdict |-> "parsing", reported |-> FALSE, ids |-> {}, unresolved |-> {}],
                      dtd.has /\ ~IsDeclared(dtd.root) /\ validating)
    /\ doc = <<>>
    /\ length = 0

\* What element() finds wrong with the start tag, given the answer of the
\* enclosing element's validator; an empty element ends here too.
CheckTag(tag, a) ==
    LET known == NotValid(NotValid(imp, ~a.result),
                          dtd.has /\ ~IsDeclared(tag.name) /\ validating)
        read  == ReadAttributes(known, tag)
    IN  NotValid(read, tag.empty /\ validating /\ IsDeclared(tag.name)
                           /\ ~NewValidator(get_element(tag.name).allowed).done)

StartTag ==
    \E tag \in Lookahead :
        LET a    == ValidatorAllow(frames[Owner].valid, tag.name)
            next == [Consumed EXCEPT ![Owner].valid = Advanced(@, a)]
            sub  == NewValidator(get_element(tag.name).allowed)
        IN  /\ Going(imp) /\ tag.t = "stag"
            /\ ~(Outside /\ doc # <<>>)
            /\ imp' = IF a.ub THEN [imp EXCEPT !.verdict = "undefined"] ELSE CheckTag(tag, a)
            /\ frames' = IF tag.empty THEN next
                         ELSE Append(next, Frame("element", tag.name, sub, Len(doc) + 1, <<>>))
            /\ doc' = Append(WithChild(tag.name),
                             [name |-> tag.name, atts |-> tag.atts, children |-> <<>>,
                              data |-> {}, open |-> ~tag.empty, opened |-> Source,
                              closed |-> Source])
            /\ CountToken
            /\ UNCHANGED scenario

\* Mutant of EndTag: an end tag in the text of an entity ends the element that
\* contains the reference.
EndTagAnywhere ==
    \E tag \in Lookahead :
        LET e     == frames[Owner]
            wrong == e.kind # "element" \/ e.name # tag.name
        IN  /\ Going(imp) /\ tag.t = "etag"
            /\ imp' = NotValid(NotWellFormed(imp, wrong),
                               validating /\ IsDeclared(e.name) /\ ~e.valid.done)
            /\ frames' = IF wrong THEN Consumed ELSE RemoveAt(Consumed, Owner)
            /\ doc' = IF wrong THEN doc
                      ELSE [doc EXCEPT ![e.node].open = FALSE, ![e.node].closed = Source]
            /\ CountToken
            /\ UNCHANGED scenario

EndTag ==
    \E tag \in Lookahead :
        LET wrong == Top.kind # "element" \/ Top.name # tag.name
        IN  /\ Going(imp) /\ tag.t = "etag"
            /\ imp' = NotValid(NotWellFormed(imp, wrong),
                               validating /\ IsDeclared(Top.name) /\ ~Top.valid.done)
            /\ frames' = IF wrong THEN Consumed ELSE Front(Consumed)
            /\ doc' = IF wrong THEN doc
                      ELSE [doc EXCEPT ![Top.node].open = FALSE, ![Top.node].closed = Source]
            /\ CountToken
            /\ UNCHANGED scenario

\* Character data, references to characters, CDATA sections and comments that
\* the content specification has no place for.
Misplaced(spec, kind) ==
    CASE spec = "Empty"    -> TRUE
      [] spec = "Children" -> kind \in {"text", "spaceref", "cdata"}
      [] OTHER             -> FALSE

Data ==
    \E tok \in Lookahead :
        /\ Going(imp) /\ tok.t \in DataTokens /\ ~Outside
        /\ imp' = NotValid(imp, Misplaced(OwnerSpec, tok.t))
        /\ frames' = Consumed
        /\ doc' = WithData({tok.t})
        /\ CountToken
        /\ UNCHANGED scenario

\* misc(): comments and white space around the root element.
Misc ==
    \E tok \in Lookahead :
        /\ Going(imp) /\ Outside
        /\ tok.t \notin {"stag", "etag"} \/ (tok.t = "stag" /\ doc # <<>>)
        /\ imp' = NotWellFormed(imp, tok.t \notin {"space", "comment"})
        /\ CountToken
        /\ UNCHANGED <<scenario, frames, doc>>

CheckEntity(p, name) ==
    IF name \in EntitiesOnStack \/ name \notin DOMAIN dtd.entities
    THEN NotWellFormed(p, TRUE)
    ELSE LET e == dtd.entities[name]
             alone == NotValid(p, e.external /\ dtd.standalone)
         IN  NotWellFormed(alone, (e.outside /\ dtd.standalone) \/ ~e.parsed)

\* The text of the entity is read in place of the reference, with the
\* validator of the element the reference is in.
Reference ==
    \E tok \in Lookahead :
        LET text    == IF tok.name \in DOMAIN dtd.entities THEN dtd.entities[tok.name].text ELSE <<>>
            onlyspace == OwnerSpec = "Children" /\ text = <<Token("space", "")>>
            empty   == NotValid(imp, OwnerSpec = "Empty")
        IN  /\ Going(imp) /\ tok.t = "ref" /\ ~Outside
            /\ imp' = NotValid(CheckEntity(empty, tok.name), onlyspace)
            /\ frames' = Append(Consumed, Frame("entity", tok.name,
                                                NewValidator(content_spec_any), 0, text))
            /\ doc' = WithData({"ref"} \cup {k \in {"spaceref"} : onlyspace})
            /\ CountToken
            /\ UNCHANGED scenario

EntityEnd ==
    /\ Going(imp) /\ Source # 0 /\ frames[Source].text = <<>>
    /\ imp' = NotWellFormed(imp, Top.kind # "entity")
    /\ frames' = IF Top.kind = "entity" THEN Front(frames) ELSE frames
    /\ UNCHANGED <<scenario, doc, length>>

\* Mutant of DocumentEnd: the references without an ID are forgotten.
DocumentEndTrusts ==
    /\ Going(imp) /\ Source = 0
    /\ imp' = LET p == NotWellFormed(imp, ~Outside \/ doc = <<>>)
              IN  IF Going(p) THEN [p EXCEPT !.verdict = "accepted"] ELSE p
    /\ UNCHANGED <<scenario, frames, doc, length>>

DocumentEnd ==
    /\ Going(imp) /\ Source = 0
    /\ imp' = LET p == NotWellFormed(imp, ~Outside \/ doc = <<>>)
                  q == NotValid(p, imp.unresolved # {})
              IN  IF Going(q) THEN [q EXCEPT !.verdict = "accepted"] ELSE q
    /\ UNCHANGED <<scenario, frames, doc, length>>

Finished == ~Going(imp) /\ UNCHANGED vars

Parse == StartTag \/ EndTag \/ Data \/ Misc \/ Reference \/ EntityEnd \/ DocumentEnd

Next == Parse \/ Finished

Spec == Init /\ [][Next]_vars

-----------------------------------------------------------------------------
(* Properties *)

(* What the declarations say of the attributes, read from doc.               *)
AttributesFit(e) ==
    LET atts == get_element(e.name).atts
    IN  /\ \A i \in DOMAIN e.atts :
                /\ e.atts[i].name \in DOMAIN atts
                /\ ValidateValue(atts[e.atts[i].name], e.atts[i].value)
                /\ atts[e.atts[i].name].type \in {"IDREF", "IDREFS"} => e.atts[i].value # <<>>
        /\ \A n \in DOMAIN atts :
                atts[n].default = "Required" => \E i \in DOMAIN e.atts : e.atts[i].name = n

\* The attributes of these types in the document: the tag, and the place in it.
Places(types) ==
    UNION {{i} \X {j \in DOMAIN doc[i].atts :
                        LET atts == get_element(doc[i].name).atts
                            n    == doc[i].atts[j].name
                        IN  n \in DOMAIN atts /\ atts[n].type \in types} : i \in DOMAIN doc}

Value(x) == doc[x[1]].atts[x[2]].value

UniqueIds == \A x, y \in Places({"ID"}) : Value(x) = Value(y) => x = y

RefsResolved ==
    \A x \in Places({"IDREF", "IDREFS"}) : \A k \in DOMAIN Value(x) :
        \E y \in Places({"ID"}) : Value(y) = <<Value(x)[k]>>

\* Of a document a validating parser accepts, every element is declared, every
\* attribute is declared and has a value of its type, none that is required is
\* missing, no ID is given twice, and an ID that is referred to is given, before or
\* after, in whatever element and entity.
AttributesRight ==
    validating /\ imp.verdict = "accepted" =>
        /\ dtd.has => IsDeclared(dtd.root)
        /\ \A i \in DOMAIN doc : /\ dtd.has => IsDeclared(doc[i].name)
                                 /\ AttributesFit(doc[i])
        /\ UniqueIds
        /\ RefsResolved

\* An element ends in the entity, or the document, in which it began; and entities
\* that refer to each other are not replaced without end: no entity is inside itself.
EntitiesNest ==
    /\ \A i \in DOMAIN doc : doc[i].closed = doc[i].opened
    /\ Cardinality({i \in DOMAIN frames : frames[i].kind = "entity"})
          <= Cardinality(DOMAIN dtd.entities) + 1
=============================================================================
