---------------------------- MODULE XmlDocument -----------------------------
(***************************************************************************)
(* XmlParser with the states of DocType, and what the two promise          *)
(* together: the documents accepted and refused are those the declarations *)
(* say.  The configuration gives the constants of XmlParser the operators  *)
(* of DocType.                                                             *)
(***************************************************************************)
EXTENDS XmlParser, DocType

-----------------------------------------------------------------------------
(* Reference: what the declarations say of the document, read from doc *)

Allowed(e) == get_element(e.name).allowed

\* Content other than elements that is in its place.  (parser_imp lets a
\* reference to a character other than white space pass in element content.)
DataFits(e) ==
    CASE ContentSpec(Allowed(e)) = "Empty"    -> e.data = {}
      [] ContentSpec(Allowed(e)) = "Children" -> e.data \subseteq {"space", "comment", "ref", "charref"}
      [] OTHER                                -> TRUE

\* Nothing read so far keeps the document from being valid.
Possible ==
    /\ \A i \in DOMAIN doc :
        /\ dtd.has => IsDeclared(doc[i].name)
        /\ Viable(Allowed(doc[i]), doc[i].children)
        /\ DataFits(doc[i])
        /\ AttributesFit(doc[i])
    /\ UniqueIds
    /\ dtd.has => IsDeclared(dtd.root)
    /\ dtd.has /\ doc # <<>> => doc[1].name = dtd.root

\* Every element that has ended has the children its declaration asks for.
ChildrenComplete ==
    \A i \in DOMAIN doc :
        doc[i].open \/ ~IsDeclared(doc[i].name) \/ Complete(Allowed(doc[i]), doc[i].children)

-----------------------------------------------------------------------------
(* Properties *)

\* A document a validating parser accepts has no element out of place, no
\* misplaced text, no childless element that needs children, no ID given twice
\* and no reference to an ID that is nowhere in it, before or after, whatever
\* entities its parts came from.
Sound ==
    /\ AttributesRight
    /\ validating /\ imp.verdict = "accepted" =>
        /\ Possible
        /\ \A i \in DOMAIN doc : doc[i].children = <<>> => Complete(Allowed(doc[i]), <<>>)

\* A document a validating parser refuses as invalid does have a fault (for
\* declarations the states recognise): no legal order of children, use of an
\* entity or of an ID is refused.  And it always comes to a verdict: a sequence is
\* never asked through an iterator at its end.
Justified ==
    /\ \/ ~validating \/ imp.verdict # "invalid"
       \/ \E n \in DOMAIN dtd.elements : ~Recognised(dtd.elements[n].allowed)
       \/ dtd.standalone
       \/ ~Possible \/ ~ChildrenComplete \/ ~RefsResolved
    /\ validating => imp.verdict # "undefined"
=============================================================================
