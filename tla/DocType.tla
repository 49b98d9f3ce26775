------------------------------ MODULE DocType -------------------------------
(***************************************************************************)
(* The validation states of lib-xml/src/doctype.cpp: a content             *)
(* specification, as an ELEMENT declaration writes it, is turned into a    *)
(* tree of states that is asked, child by child, whether the child is      *)
(* allowed and whether the content may end.                                *)
(*                                                                         *)
(* A specification and the state made from it are one record: kind, name   *)
(* and subs describe the specification, at is the state's own memory       *)
(* (m_done of an element, m_state of a repetition, the position of m_next  *)
(* in a sequence, that of m_sub in a choice; 0 is where reset puts it).    *)
(*                                                                         *)
(* The module ends with the reference: the language a specification        *)
(* stands for, written from the meaning of the operators and not from the  *)
(* states.                                                                 *)
(***************************************************************************)
EXTENDS Integers, Sequences, FiniteSets, SequencesExt, FiniteSetsExt

Spec0(kind, name, subs) == [kind |-> kind, name |-> name, subs |-> subs, at |-> 0]

AnySpec     == Spec0("any", "", <<>>)
EmptySpec   == Spec0("empty", "", <<>>)
Elem(n)     == Spec0("element", n, <<>>)
Sequence(l) == Spec0("seq", "", l)
Choice(l)   == Spec0("choice", "", l)
Optional(s) == Spec0("?", "", <<s>>)
Many(s)     == Spec0("*", "", <<s>>)
Some(s)     == Spec0("+", "", <<s>>)

\* (#PCDATA) and (#PCDATA|a|b)*, as contentspec builds them.
PCData   == Spec0("mixed", "", <<>>)
Mixed(l) == Many(Spec0("mixed", "", l))

Repetitions == {"?", "*", "+"}

\* get_content_spec: a repetition and a group take the type of what they were
\* made from.
RECURSIVE ContentSpec(_)
ContentSpec(s) ==
    CASE s.kind = "any"     -> "Any"
      [] s.kind = "empty"   -> "Empty"
      [] s.kind = "mixed"   -> "Mixed"
      [] s.kind = "element" -> "Children"
      [] OTHER              -> ContentSpec(s.subs[1])

RECURSIVE Reset(_)
Reset(s) == [s EXCEPT !.at = 0, !.subs = [i \in DOMAIN @ |-> Reset(@[i])]]

RECURSIVE AllowEmpty(_)
AllowEmpty(s) ==
    CASE s.kind \in {"any", "empty", "?", "*", "mixed"} -> TRUE
      [] s.kind = "element" -> FALSE
      [] s.kind = "+"       -> AllowEmpty(s.subs[1])
      [] s.kind = "seq"     -> \A i \in DOMAIN s.subs : AllowEmpty(s.subs[i])
      [] s.kind = "choice"  -> \E i \in DOMAIN s.subs : AllowEmpty(s.subs[i])

\* What allow returns, with the state it leaves; ub says that it went through
\* an iterator that is at the end of its list.
Answer(s, result, done) == [state |-> s, result |-> result, done |-> done, ub |-> FALSE]

AllowElement(s, name) ==
    LET now == s.at = 0 /\ s.name = name
    IN  Answer([s EXCEPT !.at = IF now THEN 1 ELSE @], now, now \/ s.at = 1)

\* The answer of a state whose i-th part answered a.
Via(s, i, a, at, done) ==
    [a EXCEPT !.state = [s EXCEPT !.subs[i] = a.state, !.at = at], !.done = done]

RECURSIVE Allow(_, _), AllowSeq(_, _, _), AllowChoice(_, _, _)

\* A sequence passes on to its next part when the present one refuses and says
\* it is done.
AllowSeq(s, i, name) ==
    LET a     == Allow(s.subs[i], name)
        moved == Via(s, i, a, i, a.done)
    IN  CASE a.ub \/ a.result \/ ~a.done -> moved
          [] i = Len(s.subs)             -> Via(s, i, a, i + 1, TRUE)
          [] OTHER                       -> AllowSeq(moved.state, i + 1, name)

\* A choice keeps the first part that accepts; when there is none the answer is
\* that of the last part.
AllowChoice(s, i, name) ==
    LET a     == Allow(s.subs[i], name)
        tried == Via(s, i, a, IF a.result THEN i ELSE 0, a.done)
    IN  IF a.ub \/ a.result \/ i = Len(s.subs)
        THEN tried
        ELSE AllowChoice(tried.state, i + 1, name)

\* The three repetitions: what is repeated is asked, and asked again from the
\* start when it refuses because it is done.
AllowRepeated(s, name) ==
    LET first == Allow(s.subs[1], name)
        again == s.at > 0 /\ s.kind # "?" /\ ~first.ub /\ ~first.result /\ first.done
        a     == IF again THEN Allow(Reset(first.state), name) ELSE first
        at    == CASE a.result /\ s.at = 0                            -> 1
                   [] a.result /\ s.at = 1 /\ again /\ s.kind = "+"   -> 2
                   [] OTHER                                           -> s.at
        ends  == \/ s.at = 0 /\ s.kind # "+"
                 \/ again /\ (s.kind = "*" \/ s.at = 2)
    IN  Via(s, 1, a, at, a.done \/ (~a.result /\ ends))

Allow(s, name) ==
    CASE s.kind = "any"     -> Answer(s, TRUE, TRUE)
      [] s.kind = "empty"   -> Answer(s, FALSE, TRUE)
      [] s.kind = "element" -> AllowElement(s, name)
      [] s.kind \in Repetitions -> AllowRepeated(s, name)
      [] s.kind = "seq" ->
            IF s.at > Len(s.subs)
            THEN [Answer(s, FALSE, FALSE) EXCEPT !.ub = TRUE]
            ELSE AllowSeq(s, IF s.at = 0 THEN 1 ELSE s.at, name)
      [] s.kind \in {"choice", "mixed"} ->
            IF s.at > 0
            THEN LET a == Allow(s.subs[s.at], name) IN Via(s, s.at, a, s.at, a.done)
            ELSE IF s.subs = <<>> THEN Answer(s, FALSE, FALSE) ELSE AllowChoice(s, 1, name)

-----------------------------------------------------------------------------
(* Reference: the language of a specification, by the residuals that are    *)
(* left of it after each child (the partial derivatives of an expression).  *)

RECURSIVE Nullable(_)
Nullable(s) ==
    CASE s.kind \in {"?", "*", "any", "empty", "mixed"} -> TRUE
      [] s.kind = "element" -> FALSE
      [] s.kind \in {"+", "choice"} -> \E i \in DOMAIN s.subs : Nullable(s.subs[i])
      [] s.kind = "seq" -> \A i \in DOMAIN s.subs : Nullable(s.subs[i])

RECURSIVE Residuals(_, _)
Residuals(s, name) ==
    CASE s.kind = "any"     -> {s}
      [] s.kind = "empty"   -> {}
      [] s.kind = "element" -> {r \in {EmptySpec} : s.name = name}
      [] s.kind = "?"       -> Residuals(s.subs[1], name)
      [] s.kind \in {"*", "+"} ->
            {Sequence(<<r, Many(s.subs[1])>>) : r \in Residuals(s.subs[1], name)}
      [] s.kind \in {"choice", "mixed"} ->
            UNION {Residuals(s.subs[i], name) : i \in DOMAIN s.subs}
      [] s.kind = "seq" ->
            UNION {{Sequence(<<r>> \o SubSeq(s.subs, i + 1, Len(s.subs))) :
                        r \in Residuals(s.subs[i], name)} :
                   i \in {j \in DOMAIN s.subs : \A k \in 1 .. j - 1 : Nullable(s.subs[k])}}

\* What is left of spec after the children, in their order.
After(spec, children) ==
    FoldLeft(LAMBDA R, name : UNION {Residuals(r, name) : r \in R}, {spec}, children)

\* The children are the beginning of content the specification describes.
Viable(spec, children) == After(spec, children) # {}

\* The children are content the specification describes.
Complete(spec, children) == \E r \in After(spec, children) : Nullable(r)

\* The specifications whose valid content the states accept.  A `+' that was
\* satisfied once does not say it is done when it refuses, so what follows it in
\* the content is refused too; and a choice that accepts none of its parts
\* answers for the last one only.
RECURSIVE Recognised(_)
Recognised(s) ==
    /\ s.kind = "choice" => \A i \in 1 .. Len(s.subs) - 1 : ~Nullable(s.subs[i])
    /\ \A i \in DOMAIN s.subs : s.subs[i].kind # "+" /\ Recognised(s.subs[i])
=============================================================================
