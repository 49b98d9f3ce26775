---------------------------- MODULE MCXmlParser -----------------------------
(***************************************************************************)
(* Small instances of XmlParser: declarations and the tokens of the        *)
(* documents read with them.                                               *)
(***************************************************************************)
EXTENDS XmlDocument

Attribute(name, value) == [name |-> name, value |-> value]
AttDecl(type, default, value) ==
    [type |-> type, default |-> default, value |-> value, enum |-> {<<"x">>, <<"y">>},
     external |-> TRUE]
Entity(text) == [text |-> text, parsed |-> TRUE, external |-> FALSE, outside |-> FALSE]

Open(n)  == Tag(n, <<>>, FALSE)
Void(n)  == Tag(n, <<>>, TRUE)
Close(n) == Token("etag", n)
Ref(n)   == Token("ref", n)
Chars    == {Token(k, "") : k \in DataTokens}

Element(allowed) == [allowed |-> allowed, atts |-> <<>>]

DTD(elements, entities) ==
    [has |-> TRUE, root |-> "r", standalone |-> FALSE, elements |-> elements,
     entities |-> entities]

Scenario(d, tokens, n) ==
    {[dtd |-> d, validating |-> v, vocabulary |-> tokens, limit |-> n] : v \in BOOLEAN}

-----------------------------------------------------------------------------
(* Content models over two or three names, each used once, which makes them *)
(* deterministic.                                                           *)

Repeated(S) == S \cup {Optional(s) : s \in S} \cup {Many(s) : s \in S} \cup {Some(s) : s \in S}
Pairs(S, T) == {Sequence(<<s, t>>) : s \in S, t \in T} \cup {Choice(<<s, t>>) : s \in S, t \in T}

Flat   == Repeated(Pairs(Repeated({Elem("a")}), Repeated({Elem("b")})))
Deeper == Pairs(Repeated(Pairs({Elem("a")}, {Optional(Elem("b")), Many(Elem("b"))})),
                {Elem("c")})

ContentScenarios(specs) ==
    UNION {Scenario(DTD([r |-> Element(s), a |-> Element(EmptySpec), b |-> Element(PCData),
                         c |-> Element(AnySpec)], <<>>),
                    {Open("r"), Close("r"), Void("a"), Void("b"), Void("c")}, 6) : s \in specs}

-----------------------------------------------------------------------------
(* Entities: a child, white space, an element in two halves, a cycle, a nest *)

Entities ==
    [child |-> Entity(<<Void("a")>>),
     space |-> Entity(<<Token("space", "")>>),
     head  |-> Entity(<<Open("b")>>),
     tail  |-> Entity(<<Close("b")>>),
     ping  |-> Entity(<<Token("comment", ""), Ref("pong")>>),
     pong  |-> Entity(<<Ref("ping")>>),
     nest  |-> Entity(<<Open("b"), Ref("child"), Close("b")>>),
     file  |-> [Entity(<<>>) EXCEPT !.parsed = FALSE],
     far   |-> [Entity(<<Void("a")>>) EXCEPT !.external = TRUE, !.outside = TRUE]]

EntityDTD ==
    DTD([r |-> Element(Many(Choice(<<Elem("a"), Elem("b")>>))), a |-> Element(EmptySpec),
         b |-> Element(Mixed(<<Elem("a")>>))], Entities)

EntityTokens ==
    {Open("r"), Close("r"), Open("a"), Close("a"), Open("b"), Close("b"), Ref("nowhere")}
        \cup {Ref(n) : n \in DOMAIN Entities} \cup Chars

EntityScenarios ==
    Scenario(EntityDTD, EntityTokens, 5)
        \cup Scenario([EntityDTD EXCEPT !.standalone = TRUE],
                      {Open("r"), Close("r"), Ref("far"), Ref("child")}, 5)

-----------------------------------------------------------------------------
(* Attributes *)

AttributeDTD ==
    DTD([r |-> Element(AnySpec),
         a |-> [allowed |-> EmptySpec,
                atts |-> [id   |-> AttDecl("ID", "Implied", <<>>),
                          ref  |-> AttDecl("IDREF", "Implied", <<>>),
                          refs |-> AttDecl("IDREFS", "Implied", <<>>)]],
         b |-> [allowed |-> EmptySpec,
                atts |-> [must |-> AttDecl("Enumerated", "Required", <<>>),
                          one  |-> AttDecl("CDATA", "Fixed", <<"x">>),
                          data |-> AttDecl("ENTITY", "Implied", <<>>),
                          list |-> AttDecl("ENTITIES", "Implied", <<>>),
                          word |-> AttDecl("NMTOKEN", "Implied", <<>>)]]],
        Entities)

With(n, atts) == Tag(n, atts, TRUE)

AttributeTokens ==
    {Open("r"), Close("r"),
     With("a", <<Attribute("id", <<"x">>)>>), With("a", <<Attribute("id", <<"y">>)>>),
     With("a", <<Attribute("ref", <<"x">>)>>), With("a", <<Attribute("ref", <<>>)>>),
     With("a", <<Attribute("refs", <<"x", "y">>)>>),
     With("a", <<Attribute("refs", <<"y">>), Attribute("id", <<"y">>)>>),
     With("a", <<Attribute("id", <<"z">>), Attribute("id", <<"y">>)>>),
     With("a", <<Attribute("xml:space", <<"x">>)>>),
     With("b", <<>>), With("b", <<Attribute("must", <<"z">>)>>),
     With("b", <<Attribute("must", <<"x">>), Attribute("one", <<"y">>)>>),
     With("b", <<Attribute("must", <<"x">>), Attribute("data", <<"file">>)>>),
     With("b", <<Attribute("list", <<"file", "nest">>), Attribute("must", <<"y">>)>>),
     With("b", <<Attribute("word", <<"x">>), Attribute("must", <<"y">>)>>),
     With("d", <<>>)}

AttributeScenarios ==
    Scenario(AttributeDTD, AttributeTokens, 5)
        \cup Scenario([AttributeDTD EXCEPT !.standalone = TRUE], AttributeTokens, 5)
        \cup Scenario([AttributeDTD EXCEPT !.has = FALSE, !.root = "", !.elements = <<>>],
                      {Open("r"), Close("r"), Void("a"), With("a", <<Attribute("id", <<"x">>)>>)}, 5)
        \cup Scenario([AttributeDTD EXCEPT !.root = "s"], {Open("r"), Open("s")}, 5)

-----------------------------------------------------------------------------
(* Values for the CONSTANTS *)

AllScenarios == ContentScenarios(Flat \cup Deeper) \cup EntityScenarios \cup AttributeScenarios

=============================================================================
