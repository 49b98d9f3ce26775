--------------------------- MODULE XmlParserProofs ---------------------------
(***************************************************************************)
(* Proofs about XmlParser, for all declarations, all documents and         *)
(* whatever the states of doctype.cpp answer.                              *)
(***************************************************************************)
EXTENDS XmlParser, RecursionTheorems, SequenceTheorems, FiniteSetTheorems

-----------------------------------------------------------------------------
(* Lists and records *)

IsList(s) == Len(s) \in Nat /\ s = [i \in 1 .. Len(s) |-> s[i]]

LEMMA ListInSeq ==
    ASSUME NEW s, IsList(s)
    PROVE  s \in Seq({s[i] : i \in 1 .. Len(s)}) /\ DOMAIN s = 1 .. Len(s)
BY DEF IsList

LEMMA SeqIsList ==
    ASSUME NEW T, NEW s \in Seq(T)
    PROVE  IsList(s)
BY DEF IsList

\* Append and Front, element by element.
LEMMA Appended ==
    ASSUME NEW s, IsList(s), NEW x
    PROVE  /\ IsList(Append(s, x)) /\ Len(Append(s, x)) = Len(s) + 1
           /\ \A i \in 1 .. Len(s) : Append(s, x)[i] = s[i]
           /\ Append(s, x)[Len(s) + 1] = x
<1> DEFINE T == {s[i] : i \in 1 .. Len(s)} \cup {x}
<1>1. s \in Seq(T) /\ x \in T
  BY ListInSeq DEF IsList
<1> HIDE DEF T
<1>2. /\ Append(s, x) \in Seq(T) /\ Len(Append(s, x)) = Len(s) + 1
      /\ \A i \in 1 .. Len(s) : Append(s, x)[i] = s[i]
      /\ Append(s, x)[Len(s) + 1] = x
  BY <1>1
<1>3. IsList(Append(s, x))
  BY <1>2, SeqIsList
<1>4. QED
  BY <1>2, <1>3

LEMMA FrontOf ==
    ASSUME NEW s, IsList(s), Len(s) > 0
    PROVE  /\ IsList(Front(s)) /\ Len(Front(s)) = Len(s) - 1
           /\ \A i \in 1 .. Len(s) - 1 : Front(s)[i] = s[i]
<1> DEFINE T == {s[i] : i \in 1 .. Len(s)}
<1>1. s \in Seq(T) /\ Len(s) \in Nat
  BY ListInSeq DEF IsList
<1> HIDE DEF T
<1>2. PICK n \in Nat : n = Len(s) - 1
  BY <1>1
<1>3. \A i \in 1 .. n : s[i] \in T
  BY <1>1, <1>2
<1>4. /\ SubSeq(s, 1, n) \in Seq(T) /\ Len(SubSeq(s, 1, n)) = n
      /\ \A i \in 1 .. n : SubSeq(s, 1, n)[i] = s[i]
  <2>1. (n - 1) + 1 = n /\ \A i \in 1 .. n : (1 + i) - 1 = i
    OBVIOUS
  <2>2. QED
    BY <1>2, <1>3, <2>1, SubSeqProperties
<1>5. QED
  BY <1>2, <1>4, SeqIsList DEF Front

Verdicts == {"parsing", "accepted", "malformed", "invalid", "undefined"}

Imps(V) ==
    [verdict : Verdicts, reported : BOOLEAN, ids : SUBSET V, unresolved : SUBSET V]

IsImp(p) == p \in Imps(p.ids \cup p.unresolved)

IsFrame(f) == f = Frame(f.kind, f.name, f.valid, f.node, f.text)

IsRead(e) ==
    e = [name |-> e.name, atts |-> e.atts, children |-> e.children, data |-> e.data,
         open |-> e.open, opened |-> e.opened, closed |-> e.closed]

Accepted(p) == p.verdict = "accepted"

\* Nothing but the end of the document makes a parser go on or accept.
Onward(p, q) == (Going(q) => Going(p)) /\ (Accepted(q) => Accepted(p))

\* What not_well_formed and not_valid let pass.
LEMMA Checks ==
    ASSUME NEW p, IsImp(p), NEW bad \in BOOLEAN
    PROVE  /\ IsImp(NotWellFormed(p, bad)) /\ IsImp(NotValid(p, bad))
           /\ Onward(p, NotWellFormed(p, bad)) /\ Onward(p, NotValid(p, bad))
           /\ Going(NotWellFormed(p, bad)) => Going(p) /\ ~bad
           /\ Going(NotValid(p, bad)) => Going(p) /\ (validating => ~bad)
           /\ NotWellFormed(p, bad).ids = p.ids
           /\ NotWellFormed(p, bad).unresolved = p.unresolved
           /\ NotValid(p, bad).ids = p.ids
           /\ NotValid(p, bad).unresolved = p.unresolved
BY DEF IsImp, Imps, Verdicts, NotWellFormed, NotValid, Going, Onward, Accepted

\* A check leaves the account of the IDs alone.
LEMMA Checked ==
    ASSUME NEW p, IsImp(p), NEW bad \in BOOLEAN, NEW q,
           q = NotWellFormed(p, bad) \/ q = NotValid(p, bad)
    PROVE  IsImp(q) /\ Onward(p, q) /\ q.ids = p.ids /\ q.unresolved = p.unresolved
BY Checks

-----------------------------------------------------------------------------
(* The attributes of a tag *)

IsTag(tag) ==
    /\ tag.atts \in Seq(ToSet(tag.atts))
    /\ \A a \in ToSet(tag.atts) : a.value \in Seq(ToSet(a.value))

\* The IDs a value of an attribute declares, and those it refers to.
IdsOf(d, value) == IF d.type = "ID" THEN {value} ELSE {}

RefsOf(d, value) ==
    CASE d.type = "IDREF"  -> {value}
      [] d.type = "IDREFS" -> RefsIn(value)
      [] OTHER             -> {}

\* p becomes q when these IDs are declared and these referred to: no ID is lost,
\* and no reference is forgotten before its ID is there.
Within(p, q, ids, refs) ==
    /\ IsImp(q) /\ Onward(p, q)
    /\ q.ids \subseteq p.ids \cup ids /\ q.unresolved \subseteq p.unresolved \cup refs

Kept(p, q, ids, refs) ==
    /\ q.ids = p.ids \cup ids /\ ids \cap p.ids = {}
    /\ p.unresolved \cup refs \subseteq q.ids \cup q.unresolved

LEMMA IdsTaken ==
    ASSUME NEW p, IsImp(p), NEW d, NEW value, NEW q, q = TakeIds(p, d, value)
    PROVE  /\ Within(p, q, IdsOf(d, value), RefsOf(d, value))
           /\ Going(q) /\ validating =>
                /\ Kept(p, q, IdsOf(d, value), RefsOf(d, value))
                /\ d.type \in {"IDREF", "IDREFS"} => value # <<>>
<1>1. CASE d.type = "ID"
  <2>1. q = DeclareId(p, value)
    BY <1>1 DEF TakeIds
  <2>2. PICK known \in BOOLEAN : known <=> value \in p.ids
    OBVIOUS
  <2>3. PICK r : r = NotValid(p, known)
    OBVIOUS
  <2>4. /\ IsImp(r) /\ Onward(p, r) /\ (Going(r) => Going(p) /\ (validating => value \notin p.ids))
        /\ r.ids = p.ids /\ r.unresolved = p.unresolved
    BY <2>2, <2>3, Checks
  <2>5. q = IF Going(r)
            THEN [r EXCEPT !.ids = @ \cup {value}, !.unresolved = @ \ {value}]
            ELSE r
    BY <2>1, <2>2, <2>3 DEF DeclareId
  <2>6. IdsOf(d, value) = {value} /\ RefsOf(d, value) = {}
    BY <1>1 DEF IdsOf, RefsOf
  <2>7. CASE Going(r)
    <3>1. /\ q.verdict = r.verdict /\ q.reported = r.reported
          /\ q.ids = p.ids \cup {value} /\ q.unresolved = p.unresolved \ {value}
          /\ q = [verdict |-> q.verdict, reported |-> q.reported, ids |-> q.ids,
                  unresolved |-> q.unresolved]
      BY <2>4, <2>5, <2>7 DEF IsImp, Imps
    <3>2. IsImp(q)
      BY <2>4, <3>1 DEF IsImp, Imps
    <3>3. QED
      BY <1>1, <2>4, <2>6, <2>7, <3>1, <3>2 DEF Within, Kept, Going, Onward, Accepted
  <2>8. CASE ~Going(r)
    BY <1>1, <2>4, <2>5, <2>6, <2>8 DEF Within
  <2>9. QED
    BY <2>7, <2>8
<1>2. ASSUME NEW refs, q = ReferToId(p, value, refs)
      PROVE  /\ Within(p, q, {}, refs)
             /\ Going(q) /\ validating => Kept(p, q, {}, refs) /\ value # <<>>
  <2>1. PICK r : r = NotValid(p, value = <<>>)
    OBVIOUS
  <2>2. /\ IsImp(r) /\ Onward(p, r) /\ (Going(r) => Going(p) /\ (validating => value # <<>>))
        /\ r.ids = p.ids /\ r.unresolved = p.unresolved
    BY <2>1, Checks
  <2>3. q = IF Going(r) THEN [r EXCEPT !.unresolved = @ \cup (refs \ r.ids)] ELSE r
    BY <1>2, <2>1 DEF ReferToId
  <2>4. CASE Going(r)
    <3>1. /\ q.verdict = r.verdict /\ q.reported = r.reported
          /\ q.ids = p.ids /\ q.unresolved = p.unresolved \cup (refs \ p.ids)
          /\ q = [verdict |-> q.verdict, reported |-> q.reported, ids |-> q.ids,
                  unresolved |-> q.unresolved]
      BY <2>2, <2>3, <2>4 DEF IsImp, Imps
    <3>2. IsImp(q)
      BY <2>2, <3>1 DEF IsImp, Imps
    <3>3. QED
      BY <2>2, <2>4, <3>1, <3>2 DEF Within, Kept, Going, Onward, Accepted
  <2>5. CASE ~Going(r)
    BY <2>2, <2>3, <2>5 DEF Within
  <2>6. QED
    BY <2>4, <2>5
<1>3. CASE d.type \in {"IDREF", "IDREFS"}
  <2>1. IdsOf(d, value) = {}
    BY <1>3 DEF IdsOf
  <2>2. q = ReferToId(p, value, RefsOf(d, value))
    BY <1>3 DEF TakeIds, RefsOf
  <2>3. QED
    BY <1>2, <2>1, <2>2
<1>4. CASE d.type \notin {"ID", "IDREF", "IDREFS"}
  <2>1. q = p
    BY <1>4 DEF TakeIds
  <2>2. IdsOf(d, value) = {} /\ RefsOf(d, value) = {}
    BY <1>4 DEF IdsOf, RefsOf
  <2>3. QED
    BY <1>4, <2>1, <2>2 DEF Within, Kept, Onward
<1>5. QED
  BY <1>1, <1>3, <1>4

\* The declaration of the i-th attribute of a tag.
DeclOf(tag, i) == AttributeDecl(tag.name, tag.atts[i].name)
IdsAt(tag, i)  == IdsOf(DeclOf(tag, i), tag.atts[i].value)
RefsAt(tag, i) == RefsOf(DeclOf(tag, i), tag.atts[i].value)

\* What is asked of it.
Fits(tag, i) ==
    /\ DeclOf(tag, i) # NoDecl
    /\ ValidateValue(DeclOf(tag, i), tag.atts[i].value)
    /\ DeclOf(tag, i).type \in {"IDREF", "IDREFS"} => tag.atts[i].value # <<>>

LEMMA AttributeRead ==
    ASSUME NEW p, IsImp(p), NEW tag, NEW i, NEW q, q = ReadAttribute(p, tag, i)
    PROVE  /\ Within(p, q, IdsAt(tag, i), RefsAt(tag, i))
           /\ Going(q) /\ validating => Kept(p, q, IdsAt(tag, i), RefsAt(tag, i)) /\ Fits(tag, i)
<1> DEFINE x == tag.atts[i]
           twice == \E j \in 1 .. i - 1 : tag.atts[j].name = x.name
<1>1. PICK d : d = DeclOf(tag, i)
  OBVIOUS
<1>2. PICK bad \in BOOLEAN : bad <=> d # NoDecl /\ ~ValidateValue(d, x.value)
  OBVIOUS
<1>3. PICK once : once = NotWellFormed(p, twice)
  OBVIOUS
<1>4. /\ IsImp(once) /\ Onward(p, once)
      /\ once.ids = p.ids /\ once.unresolved = p.unresolved
  BY <1>3, Checks
<1>5. PICK declared : declared = NotValid(once, d = NoDecl /\ validating)
  OBVIOUS
<1>6. /\ IsImp(declared) /\ Onward(p, declared)
      /\ Going(declared) => Going(p) /\ (validating => d # NoDecl)
      /\ declared.ids = p.ids /\ declared.unresolved = p.unresolved
  <2>1. (d = NoDecl /\ validating) \in BOOLEAN
    OBVIOUS
  <2>2. QED
    BY <1>4, <1>5, <2>1, Checks DEF Onward
<1>7. PICK checked : checked = IF d = XmlSpaceAttr THEN NotWellFormed(declared, bad)
                               ELSE NotValid(declared, bad)
  OBVIOUS
<1>8. /\ IsImp(checked) /\ Onward(p, checked)
      /\ Going(checked) => Going(p) /\ (validating => d # NoDecl /\ ~bad)
      /\ checked.ids = p.ids /\ checked.unresolved = p.unresolved
  <2>1. CASE d = XmlSpaceAttr
    BY <1>6, <1>7, <2>1, Checks DEF Onward
  <2>2. CASE d # XmlSpaceAttr
    BY <1>6, <1>7, <2>2, Checks DEF Onward
  <2>3. QED
    BY <2>1, <2>2
<1>9. q = TakeIds(checked, d, x.value)
  BY <1>1, <1>2, <1>3, <1>5, <1>7 DEF ReadAttribute, DeclOf
<1>10. /\ Within(checked, q, IdsAt(tag, i), RefsAt(tag, i))
       /\ Going(q) /\ validating =>
            /\ Kept(checked, q, IdsAt(tag, i), RefsAt(tag, i))
            /\ d.type \in {"IDREF", "IDREFS"} => x.value # <<>>
  BY <1>1, <1>8, <1>9, IdsTaken DEF IdsAt, RefsAt
<1>11. QED
  BY <1>1, <1>2, <1>8, <1>10 DEF Within, Kept, Fits, Onward
\* The first k attributes of the tag were read, and p has become q.
Taken(p, q, tag, k) ==
    /\ \A i \in 1 .. k : /\ Fits(tag, i) /\ IdsAt(tag, i) \cap p.ids = {}
                         /\ \A j \in 1 .. i - 1 : IdsAt(tag, i) \cap IdsAt(tag, j) = {}
    /\ q.ids = p.ids \cup UNION {IdsAt(tag, i) : i \in 1 .. k}
    /\ p.unresolved \cup UNION {RefsAt(tag, i) : i \in 1 .. k} \subseteq q.ids \cup q.unresolved

LEMMA TakenNext ==
    ASSUME NEW p, NEW q, NEW r, NEW tag, NEW k \in Nat, k > 0, Taken(p, q, tag, k - 1),
           Kept(q, r, IdsAt(tag, k), RefsAt(tag, k)), Fits(tag, k)
    PROVE  Taken(p, r, tag, k)
<1>1. /\ \A i : i \in 1 .. k <=> i \in 1 .. k - 1 \/ i = k
      /\ k \in 1 .. k /\ 1 .. k - 1 \subseteq 1 .. k
  OBVIOUS
<1>2. PICK G : G = [i \in 1 .. k |-> IdsAt(tag, i)]
  OBVIOUS
<1>3. PICK R : R = [i \in 1 .. k |-> RefsAt(tag, i)]
  OBVIOUS
<1>4. /\ q.ids = p.ids \cup UNION {G[i] : i \in 1 .. k - 1}
      /\ p.unresolved \cup UNION {R[i] : i \in 1 .. k - 1} \subseteq q.ids \cup q.unresolved
      /\ r.ids = q.ids \cup G[k] /\ G[k] \cap q.ids = {}
      /\ q.unresolved \cup R[k] \subseteq r.ids \cup r.unresolved
  BY <1>1, <1>2, <1>3 DEF Taken, Kept
<1>5. /\ UNION {G[i] : i \in 1 .. k} = (UNION {G[i] : i \in 1 .. k - 1}) \cup G[k]
      /\ UNION {R[i] : i \in 1 .. k} = (UNION {R[i] : i \in 1 .. k - 1}) \cup R[k]
  <2>1. ASSUME NEW F
        PROVE  UNION {F[i] : i \in 1 .. k} = (UNION {F[i] : i \in 1 .. k - 1}) \cup F[k]
    <3>1. 1 .. k = (1 .. k - 1) \cup {k}
      BY <1>1
    <3>2. \A B : UNION {F[i] : i \in B \cup {k}} = (UNION {F[i] : i \in B}) \cup F[k]
      OBVIOUS
    <3>3. QED
      BY <3>1, <3>2
  <2>2. QED
    BY <2>1
<1>6. /\ r.ids = p.ids \cup UNION {G[i] : i \in 1 .. k}
      /\ p.unresolved \cup UNION {R[i] : i \in 1 .. k} \subseteq r.ids \cup r.unresolved
  BY <1>4, <1>5
<1>7. /\ UNION {G[i] : i \in 1 .. k} = UNION {IdsAt(tag, i) : i \in 1 .. k}
      /\ UNION {R[i] : i \in 1 .. k} = UNION {RefsAt(tag, i) : i \in 1 .. k}
  BY <1>2, <1>3
<1>8. ASSUME NEW i \in 1 .. k
      PROVE  /\ Fits(tag, i) /\ G[i] \cap p.ids = {}
             /\ \A j \in 1 .. i - 1 : G[i] \cap G[j] = {}
  <2>1. CASE i = k
    BY <1>4, <2>1
  <2>2. CASE i # k
    <3>1. i \in 1 .. k - 1 /\ 1 .. i - 1 \subseteq 1 .. k
      BY <2>2
    <3>2. QED
      BY <1>2, <3>1 DEF Taken
  <2>3. QED
    BY <2>1, <2>2
<1>9. \A i \in 1 .. k : 1 .. i - 1 \subseteq 1 .. k
  OBVIOUS
<1>10. QED
  BY <1>2, <1>6, <1>7, <1>8, <1>9 DEF Taken

LEMMA ImpsAre ==
    ASSUME NEW V, NEW q
    PROVE  q \in Imps(V) <=> IsImp(q) /\ q.ids \subseteq V /\ q.unresolved \subseteq V
BY DEF Imps, IsImp

\* The loop over the attributes of the tag.
LEMMA AttributesLoop ==
    ASSUME NEW p, IsImp(p), NEW tag, IsTag(tag)
    PROVE  \E q : /\ ReadAttributes(p, tag) = MissingAttributes(q, tag)
                  /\ IsImp(q) /\ Onward(p, q)
                  /\ Going(q) /\ validating => Taken(p, q, tag, Len(tag.atts))
<1>n. PICK n \in Nat : n = Len(tag.atts)
  BY DEF IsTag
<1> DEFINE body(w) == [i \in 0 .. n |-> IF i = 0 THEN p ELSE ReadAttribute(w[i - 1], tag, i)]
           read == CHOOSE w : w = body(w)
           V == p.ids \cup p.unresolved \cup
                    UNION {IdsAt(tag, i) \cup RefsAt(tag, i) : i \in 1 .. n}
           OK(q, k) == Onward(p, q) /\ (Going(q) /\ validating => Taken(p, q, tag, k))
           S == [k \in 0 .. n |-> {q \in Imps(V) : OK(q, k)}]
           step == [k \in 1 .. n |-> [q \in S[k - 1] |-> ReadAttribute(q, tag, k)]]
<1>0. /\ 0 \in 0 .. n /\ n \in 0 .. n /\ (n # 0 => n \in 1 .. n)
      /\ \A k \in 1 .. n : k - 1 \in 0 .. n /\ k \in 0 .. n /\ k \in Nat /\ k > 0 /\ k # 0
      /\ \A k \in 0 .. n : k = 0 \/ k \in 1 .. n
  OBVIOUS
<1>1. p \in Imps(V)
  BY ImpsAre
<1>2. \A i \in 1 .. n : IdsAt(tag, i) \subseteq V /\ RefsAt(tag, i) \subseteq V
  OBVIOUS
<1> HIDE DEF V
<1>3. p \in S[0]
  <2>1. UNION {IdsAt(tag, i) : i \in 1 .. 0} = {} /\ UNION {RefsAt(tag, i) : i \in 1 .. 0} = {}
    OBVIOUS
  <2>2. Taken(p, p, tag, 0)
    BY <2>1 DEF Taken
  <2>3. QED
    BY <1>0, <1>1, <2>2 DEF Onward
<1>4. ASSUME NEW k \in 1 .. n, NEW q \in S[k - 1] PROVE ReadAttribute(q, tag, k) \in S[k]
  <2>1. q \in Imps(V) /\ OK(q, k - 1) /\ IsImp(q) /\ q.ids \subseteq V /\ q.unresolved \subseteq V
    BY <1>0, ImpsAre
  <2>2. PICK r : r = ReadAttribute(q, tag, k)
    OBVIOUS
  <2>3. /\ Within(q, r, IdsAt(tag, k), RefsAt(tag, k))
        /\ Going(r) /\ validating => Kept(q, r, IdsAt(tag, k), RefsAt(tag, k)) /\ Fits(tag, k)
    BY <2>1, <2>2, AttributeRead
  <2>4. r \in Imps(V)
    BY <1>2, <2>1, <2>3, ImpsAre DEF Within
  <2>5. OK(r, k)
    BY <1>0, <2>1, <2>3, TakenNext DEF Within, Onward
  <2>6. QED
    BY <1>0, <2>2, <2>4, <2>5
<1>5. \A q \in S[n] : IsImp(q) /\ OK(q, n)
  BY <1>0, ImpsAre
<1>6. \A k \in 1 .. n : \A q \in S[k - 1] : step[k][q] = ReadAttribute(q, tag, k)
  OBVIOUS
<1> HIDE DEF S, OK, step
<1>7. Steps(n, S, p, step)
  BY <1>3, <1>4, <1>6 DEF Steps
<1>8. PICK f : Runs(f, n, S, p, step)
  BY <1>7, Recursion
<1>9. \A k \in 1 .. n : f[k - 1] \in S[k - 1] /\ f[k] = ReadAttribute(f[k - 1], tag, k)
  BY <1>6, <1>8 DEF Runs
<1>10. \A w : /\ body(w) = [k \in 0 .. n |-> body(w)[k]] /\ body(w)[0] = p
              /\ \A k \in 1 .. n : body(w)[k] = ReadAttribute(w[k - 1], tag, k)
  BY <1>0
<1> HIDE DEF body
<1>11. f = body(f)
  <2>1. \A k \in 0 .. n : f[k] = body(f)[k]
    BY <1>0, <1>8, <1>9, <1>10 DEF Runs
  <2>2. QED
    BY <2>1, <1>8, <1>10 DEF Runs
<1>12. read = body(read)
  BY <1>11
<1> HIDE DEF read
<1>13. read[0] = p /\ \A k \in 1 .. n : read[k] = ReadAttribute(read[k - 1], tag, k)
  BY <1>10, <1>12
<1>14. \A k \in 0 .. n : read[k] \in S[k]
  <2>1. \A k \in 1 .. n : read[k - 1] \in S[k - 1] => read[k] \in S[k]
    BY <1>4, <1>13
  <2>2. QED
    BY <1>3, <1>13, <2>1, UpTo
<1>15. ReadAttributes(p, tag) = MissingAttributes(read[n], tag)
  BY <1>n DEF ReadAttributes, read, body
<1>16. IsImp(read[n]) /\ OK(read[n], n)
  BY <1>0, <1>5, <1>14
<1>17. QED
  BY <1>n, <1>15, <1>16 DEF OK

\* Every attribute that is declared as required is there.
RequiredGiven(tag) ==
    \A n \in DOMAIN get_element(tag.name).atts :
        get_element(tag.name).atts[n].default = "Required" => n \in Given(tag)

LEMMA AttributesRead ==
    ASSUME NEW p, IsImp(p), NEW tag, IsTag(tag), NEW q, q = ReadAttributes(p, tag)
    PROVE  /\ IsImp(q) /\ Onward(p, q)
           /\ Going(q) /\ validating => Taken(p, q, tag, Len(tag.atts)) /\ RequiredGiven(tag)
<1>1. PICK r : /\ q = MissingAttributes(r, tag)
               /\ IsImp(r) /\ Onward(p, r)
               /\ Going(r) /\ validating => Taken(p, r, tag, Len(tag.atts))
  BY AttributesLoop
<1> DEFINE atts == get_element(tag.name).atts
           absent == \E n \in DOMAIN atts \ Given(tag) : atts[n].default = "Required"
           outside == \E n \in Defaulted(tag) : validating /\ dtd.standalone /\ atts[n].external
<1>2. PICK required : required = NotValid(r, absent)
  OBVIOUS
<1>3. /\ IsImp(required) /\ Onward(r, required) /\ (Going(required) => Going(r) /\ (validating => ~absent))
      /\ required.ids = r.ids /\ required.unresolved = r.unresolved
  BY <1>1, <1>2, Checks
<1>4. PICK bad \in BOOLEAN : q = NotValid(required, bad)
  <2>1. q = NotValid(required, outside) /\ outside \in BOOLEAN
    BY <1>1, <1>2 DEF MissingAttributes
  <2>2. QED
    BY <2>1
<1> HIDE DEF atts, absent, outside
<1>5. /\ IsImp(q) /\ Onward(required, q)
      /\ q.ids = r.ids /\ q.unresolved = r.unresolved
  BY <1>3, <1>4, Checks
<1>6. QED
  BY <1>1, <1>3, <1>5 DEF Taken, RequiredGiven, absent, atts, Onward

-----------------------------------------------------------------------------
(* The stack of open elements and entities *)

EntitiesAmong(fr, n) == {j \in 1 .. n : fr[j].kind = "entity"}

Innermost(fr, n) == Max({0} \cup EntitiesAmong(fr, n))

\* What is on the stack fr: an element is in the entity it began in, and the
\* entities are declared ones, each another one; but a parser that does not go on
\* may leave a reference it has refused at the end.
ElementsInPlace(fr, d) ==
    \A i \in 1 .. Len(fr) : fr[i].kind = "element" =>
        fr[i].node \in 1 .. Len(d) /\ d[fr[i].node].opened = Innermost(fr, i - 1)

EntitiesApart(fr, declared, go) ==
    \A j \in EntitiesAmong(fr, Len(fr)) : go \/ j # Len(fr) =>
        /\ fr[j].name \in declared
        /\ \A k \in EntitiesAmong(fr, j - 1) : fr[k].name # fr[j].name

IsStack(fr) ==
    /\ IsList(fr) /\ Len(fr) > 0 /\ fr[1].kind = "document"
    /\ \A i \in 1 .. Len(fr) : IsFrame(fr[i])

Stack(fr, d, declared, go) ==
    IsStack(fr) /\ ElementsInPlace(fr, d) /\ EntitiesApart(fr, declared, go)

Like(fr, gr) ==
    /\ IsList(gr) /\ Len(gr) = Len(fr)
    /\ \A i \in 1 .. Len(fr) : /\ IsFrame(gr[i]) /\ gr[i].kind = fr[i].kind
                               /\ gr[i].name = fr[i].name /\ gr[i].node = fr[i].node

IsHistory(d) == IsList(d) /\ \A i \in 1 .. Len(d) : IsRead(d[i]) /\ d[i].closed = d[i].opened

\* The history only grows, and an element keeps its tag and the entity it began in.
Extends(d, e) ==
    /\ Len(d) <= Len(e)
    /\ \A i \in 1 .. Len(d) : /\ e[i].opened = d[i].opened
                              /\ e[i].name = d[i].name /\ e[i].atts = d[i].atts

\* The entities of the first n frames are the same in a stack alike.
LEMMA SameEntities ==
    ASSUME NEW fr, NEW gr, NEW n \in Nat, \A i \in 1 .. n : gr[i].kind = fr[i].kind
    PROVE  \A i \in 0 .. n : /\ EntitiesAmong(gr, i) = EntitiesAmong(fr, i)
                             /\ Innermost(gr, i) = Innermost(fr, i)
BY DEF EntitiesAmong, Innermost

LEMMA AlikeStack ==
    ASSUME NEW fr, NEW gr, NEW d, NEW e, NEW declared, NEW go \in BOOLEAN,
           IsHistory(d), IsHistory(e), Extends(d, e),
           Stack(fr, d, declared, TRUE), Like(fr, gr)
    PROVE  Stack(gr, e, declared, go)
<1>1. PICK n \in Nat : n = Len(fr) /\ n = Len(gr) /\ n > 0
  BY DEF Like, Stack, IsStack, IsList
<1>2. /\ \A i \in 1 .. n : gr[i].kind = fr[i].kind /\ gr[i].name = fr[i].name
                           /\ gr[i].node = fr[i].node
      /\ \A i \in 0 .. n : EntitiesAmong(gr, i) = EntitiesAmong(fr, i)
                           /\ Innermost(gr, i) = Innermost(fr, i)
  BY <1>1, SameEntities DEF Like
<1>3. IsStack(gr)
  BY <1>1, <1>2 DEF Like, Stack, IsStack
<1>4. ElementsInPlace(gr, e)
  <2> SUFFICES ASSUME NEW i \in 1 .. n, gr[i].kind = "element"
               PROVE  gr[i].node \in 1 .. Len(e) /\ e[gr[i].node].opened = Innermost(gr, i - 1)
    BY <1>1 DEF ElementsInPlace
  <2>1. fr[i].node \in 1 .. Len(d) /\ d[fr[i].node].opened = Innermost(fr, i - 1)
    BY <1>1, <1>2 DEF Stack, ElementsInPlace
  <2>2. i - 1 \in 0 .. n
    OBVIOUS
  <2>3. Len(d) \in Nat /\ Len(e) \in Nat /\ Len(d) <= Len(e)
    BY DEF IsHistory, IsList, Extends
  <2>4. QED
    BY <1>2, <2>1, <2>2, <2>3 DEF Extends
<1>5. EntitiesApart(gr, declared, go)
  <2> SUFFICES ASSUME NEW j \in EntitiesAmong(gr, n)
               PROVE  /\ gr[j].name \in declared
                      /\ \A k \in EntitiesAmong(gr, j - 1) : gr[k].name # gr[j].name
    BY <1>1 DEF EntitiesApart
  <2>1. j \in EntitiesAmong(fr, n) /\ j \in 1 .. n /\ j - 1 \in 0 .. n
    BY <1>2 DEF EntitiesAmong
  <2>2. /\ fr[j].name \in declared
        /\ \A k \in EntitiesAmong(fr, j - 1) : k \in 1 .. n /\ fr[k].name # fr[j].name
    BY <1>1, <2>1 DEF Stack, EntitiesApart, EntitiesAmong
  <2>3. QED
    BY <1>2, <2>1, <2>2
<1>6. QED
  BY <1>3, <1>4, <1>5 DEF Stack

LEMMA PushedElement ==
    ASSUME NEW fr, NEW d, NEW declared, NEW f, Stack(fr, d, declared, TRUE), IsFrame(f),
           f.kind = "element", f.node \in 1 .. Len(d),
           d[f.node].opened = Innermost(fr, Len(fr))
    PROVE  Stack(Append(fr, f), d, declared, TRUE)
<1>1. PICK n \in Nat : n = Len(fr) /\ n > 0
  BY DEF Stack, IsStack, IsList
<1>2. PICK gr : gr = Append(fr, f)
  OBVIOUS
<1>3. /\ IsList(gr) /\ Len(gr) = n + 1 /\ gr[n + 1] = f
      /\ \A i \in 1 .. n : gr[i] = fr[i]
  BY <1>1, <1>2, Appended DEF Stack, IsStack
<1>4. \A i \in 0 .. n : EntitiesAmong(gr, i) = EntitiesAmong(fr, i)
                        /\ Innermost(gr, i) = Innermost(fr, i)
  BY <1>3, SameEntities
<1>5. IsStack(gr)
  BY <1>1, <1>3 DEF Stack, IsStack
<1>6. ElementsInPlace(gr, d)
  <2> SUFFICES ASSUME NEW i \in 1 .. n + 1, gr[i].kind = "element"
               PROVE  gr[i].node \in 1 .. Len(d) /\ d[gr[i].node].opened = Innermost(gr, i - 1)
    BY <1>3 DEF ElementsInPlace
  <2>1. CASE i = n + 1
    BY <1>1, <1>3, <1>4, <2>1
  <2>2. CASE i # n + 1
    <3>1. i \in 1 .. n /\ i - 1 \in 0 .. n
      BY <2>2
    <3>2. QED
      BY <1>1, <1>3, <1>4, <3>1 DEF Stack, ElementsInPlace
  <2>3. QED
    BY <2>1, <2>2
<1>7. EntitiesApart(gr, declared, TRUE)
  <2> SUFFICES ASSUME NEW j \in EntitiesAmong(gr, n + 1)
               PROVE  /\ gr[j].name \in declared
                      /\ \A k \in EntitiesAmong(gr, j - 1) : gr[k].name # gr[j].name
    BY <1>3 DEF EntitiesApart
  <2>1. j \in 1 .. n /\ j - 1 \in 0 .. n /\ fr[j].kind = "entity"
    BY <1>3 DEF EntitiesAmong
  <2>2. /\ fr[j].name \in declared
        /\ \A k \in EntitiesAmong(fr, j - 1) : k \in 1 .. n /\ fr[k].name # fr[j].name
    BY <1>1, <2>1 DEF Stack, EntitiesApart, EntitiesAmong
  <2>3. QED
    BY <1>3, <1>4, <2>1, <2>2
<1>8. QED
  BY <1>2, <1>5, <1>6, <1>7 DEF Stack

LEMMA PushedEntity ==
    ASSUME NEW fr, NEW d, NEW declared, NEW f, Stack(fr, d, declared, TRUE), IsFrame(f),
           NEW go \in BOOLEAN, f.kind = "entity",
           go => /\ f.name \in declared
                 /\ \A k \in EntitiesAmong(fr, Len(fr)) : fr[k].name # f.name
    PROVE  Stack(Append(fr, f), d, declared, go)
<1>1. PICK n \in Nat : n = Len(fr) /\ n > 0
  BY DEF Stack, IsStack, IsList
<1>2. PICK gr : gr = Append(fr, f)
  OBVIOUS
<1>3. /\ IsList(gr) /\ Len(gr) = n + 1 /\ gr[n + 1] = f
      /\ \A i \in 1 .. n : gr[i] = fr[i]
  BY <1>1, <1>2, Appended DEF Stack, IsStack
<1>4. \A i \in 0 .. n : EntitiesAmong(gr, i) = EntitiesAmong(fr, i)
                        /\ Innermost(gr, i) = Innermost(fr, i)
  BY <1>3, SameEntities
<1>5. IsStack(gr)
  BY <1>1, <1>3 DEF Stack, IsStack
<1>6. ElementsInPlace(gr, d)
  <2> SUFFICES ASSUME NEW i \in 1 .. n + 1, gr[i].kind = "element"
               PROVE  gr[i].node \in 1 .. Len(d) /\ d[gr[i].node].opened = Innermost(gr, i - 1)
    BY <1>3 DEF ElementsInPlace
  <2>1. i \in 1 .. n /\ i - 1 \in 0 .. n
    BY <1>3
  <2>2. QED
    BY <1>1, <1>3, <1>4, <2>1 DEF Stack, ElementsInPlace
<1>7. EntitiesApart(gr, declared, go)
  <2> SUFFICES ASSUME NEW j \in EntitiesAmong(gr, n + 1), go \/ j # n + 1
               PROVE  /\ gr[j].name \in declared
                      /\ \A k \in EntitiesAmong(gr, j - 1) : gr[k].name # gr[j].name
    BY <1>3 DEF EntitiesApart
  <2>1. CASE j = n + 1
    <3>1. \A k \in EntitiesAmong(fr, n) : k \in 1 .. n
      BY DEF EntitiesAmong
    <3>2. QED
      BY <1>1, <1>3, <1>4, <2>1, <3>1
  <2>2. CASE j # n + 1
    <3>1. j \in 1 .. n /\ j - 1 \in 0 .. n /\ fr[j].kind = "entity"
      BY <1>3, <2>2 DEF EntitiesAmong
    <3>2. /\ fr[j].name \in declared
          /\ \A k \in EntitiesAmong(fr, j - 1) : k \in 1 .. n /\ fr[k].name # fr[j].name
      BY <1>1, <3>1 DEF Stack, EntitiesApart, EntitiesAmong
    <3>3. QED
      BY <1>3, <1>4, <3>1, <3>2
  <2>3. QED
    BY <2>1, <2>2
<1>8. QED
  BY <1>2, <1>5, <1>6, <1>7 DEF Stack

LEMMA Popped ==
    ASSUME NEW fr, NEW d, NEW declared, Stack(fr, d, declared, TRUE),
           fr[Len(fr)].kind # "document"
    PROVE  Stack(Front(fr), d, declared, TRUE)
<1>1. PICK n \in Nat : n + 1 = Len(fr) /\ n > 0
  <2>1. Len(fr) \in Nat /\ Len(fr) # 1 /\ Len(fr) > 0
    BY DEF Stack, IsStack, IsList
  <2>2. PICK m \in Nat : m = Len(fr)
    BY <2>1
  <2>3. m - 1 \in Nat /\ (m - 1) + 1 = m /\ m - 1 > 0
    BY <2>1, <2>2
  <2>4. QED
    BY <2>2, <2>3
<1>2. PICK gr : gr = Front(fr)
  OBVIOUS
<1>3. IsList(gr) /\ Len(gr) = n /\ \A i \in 1 .. n : gr[i] = fr[i]
  BY <1>1, <1>2, FrontOf DEF Stack, IsStack
<1>4. \A i \in 0 .. n : EntitiesAmong(gr, i) = EntitiesAmong(fr, i)
                        /\ Innermost(gr, i) = Innermost(fr, i)
  BY <1>3, SameEntities
<1>5. IsStack(gr)
  BY <1>1, <1>3 DEF Stack, IsStack
<1>6. ElementsInPlace(gr, d)
  <2> SUFFICES ASSUME NEW i \in 1 .. n, gr[i].kind = "element"
               PROVE  gr[i].node \in 1 .. Len(d) /\ d[gr[i].node].opened = Innermost(gr, i - 1)
    BY <1>3 DEF ElementsInPlace
  <2>1. i \in 1 .. n + 1 /\ i - 1 \in 0 .. n
    OBVIOUS
  <2>2. QED
    BY <1>1, <1>3, <1>4, <2>1 DEF Stack, ElementsInPlace
<1>7. EntitiesApart(gr, declared, TRUE)
  <2> SUFFICES ASSUME NEW j \in EntitiesAmong(gr, n)
               PROVE  /\ gr[j].name \in declared
                      /\ \A k \in EntitiesAmong(gr, j - 1) : gr[k].name # gr[j].name
    BY <1>3 DEF EntitiesApart
  <2>1. j \in 1 .. n + 1 /\ j \in 1 .. n /\ j - 1 \in 0 .. n /\ fr[j].kind = "entity"
    BY <1>3 DEF EntitiesAmong
  <2>2. /\ fr[j].name \in declared
        /\ \A k \in EntitiesAmong(fr, j - 1) : k \in 1 .. n /\ fr[k].name # fr[j].name
    BY <1>1, <2>1 DEF Stack, EntitiesApart, EntitiesAmong
  <2>3. QED
    BY <1>3, <1>4, <2>1, <2>2
<1>8. QED
  BY <1>2, <1>5, <1>6, <1>7 DEF Stack

-----------------------------------------------------------------------------
(* EntitiesNest *)

\* What is still to be read of every entity is made of the declared tokens.
Texts(fr, tokens) == \A i \in 1 .. Len(fr) : fr[i].text \in Seq(tokens)

NestInv ==
    /\ scenario \in Scenarios /\ IsImp(imp) /\ IsHistory(doc)
    /\ Stack(frames, doc, DOMAIN dtd.entities, Going(imp))
    /\ Texts(frames, TokensOf(scenario))

\* What reading changes of a frame, of the record of an element, of a list.
FrameStep(f, g) ==
    g = f \/ \E x : g = [f EXCEPT !.text = x] \/ g = [f EXCEPT !.valid = x]
ReadStep(f, g) ==
    g = f \/ \E x : g = [f EXCEPT !.children = x] \/ g = [f EXCEPT !.data = x]
EntryStep(s, x, y, t) == t = [s EXCEPT ![x] = y]

LEMMA FrameChanged ==
    ASSUME NEW f, IsFrame(f), NEW g, FrameStep(f, g)
    PROVE  IsFrame(g) /\ g.kind = f.kind /\ g.name = f.name /\ g.node = f.node
<1>1. PICK k, n, v, d, t : f = [kind |-> k, name |-> n, valid |-> v, node |-> d, text |-> t]
  BY DEF IsFrame, Frame
<1>2. ASSUME NEW x, g = [f EXCEPT !.text = x]
      PROVE  IsFrame(g) /\ g.kind = f.kind /\ g.name = f.name /\ g.node = f.node
  <2>1. g = [kind |-> k, name |-> n, valid |-> v, node |-> d, text |-> x]
    BY <1>1, <1>2
  <2>2. QED
    BY <1>1, <2>1 DEF IsFrame, Frame
<1>3. ASSUME NEW x, g = [f EXCEPT !.valid = x]
      PROVE  IsFrame(g) /\ g.kind = f.kind /\ g.name = f.name /\ g.node = f.node
  <2>1. g = [kind |-> k, name |-> n, valid |-> x, node |-> d, text |-> t]
    BY <1>1, <1>3
  <2>2. QED
    BY <1>1, <2>1 DEF IsFrame, Frame
<1>4. QED
  BY <1>2, <1>3 DEF FrameStep

LEMMA ReadChanged ==
    ASSUME NEW f, IsRead(f), NEW g, ReadStep(f, g)
    PROVE  IsRead(g) /\ g.opened = f.opened /\ g.closed = f.closed
                     /\ g.name = f.name /\ g.atts = f.atts
<1>1. PICK n, a, c, d, o, p, q :
        f = [name |-> n, atts |-> a, children |-> c, data |-> d, open |-> o,
             opened |-> p, closed |-> q]
  BY DEF IsRead
<1>2. ASSUME NEW x, g = [f EXCEPT !.children = x]
      PROVE  IsRead(g) /\ g.opened = f.opened /\ g.closed = f.closed
                       /\ g.name = f.name /\ g.atts = f.atts
  <2>1. g = [name |-> n, atts |-> a, children |-> x, data |-> d, open |-> o,
             opened |-> p, closed |-> q]
    BY <1>1, <1>2
  <2>2. QED
    BY <1>1, <2>1 DEF IsRead
<1>3. ASSUME NEW x, g = [f EXCEPT !.data = x]
      PROVE  IsRead(g) /\ g.opened = f.opened /\ g.closed = f.closed
                       /\ g.name = f.name /\ g.atts = f.atts
  <2>1. g = [name |-> n, atts |-> a, children |-> c, data |-> x, open |-> o,
             opened |-> p, closed |-> q]
    BY <1>1, <1>3
  <2>2. QED
    BY <1>1, <2>1 DEF IsRead
<1>4. QED
  BY <1>2, <1>3 DEF ReadStep

LEMMA ListChanged ==
    ASSUME NEW s, IsList(s), NEW x, NEW y, NEW t, EntryStep(s, x, y, t)
    PROVE  /\ IsList(t) /\ Len(t) = Len(s)
           /\ \A i \in 1 .. Len(s) : t[i] = IF i = x THEN y ELSE s[i]
<1>1. PICK n \in Nat : n = Len(s) /\ s = [i \in 1 .. n |-> s[i]]
  BY DEF IsList
<1>2. t = [i \in 1 .. n |-> IF i = x THEN y ELSE s[i]]
  BY <1>1 DEF EntryStep
<1>3. Len(t) = n
  BY <1>2
<1>4. QED
  BY <1>1, <1>2, <1>3 DEF IsList

\* Reading a token changes neither the stack's elements nor its entities.
LEMMA ConsumedAlike ==
    ASSUME IsStack(frames), NEW x, NEW y
    PROVE  Like(frames, Consumed) /\ Like(frames, [Consumed EXCEPT ![x].valid = y])
<1>1. PICK n \in Nat : n = Len(frames) /\ \A i \in 1 .. n : IsFrame(frames[i])
  BY DEF IsStack, IsList
<1>2. PICK c : c = Consumed
  OBVIOUS
<1>3. Like(frames, c)
  <2>1. CASE Source = 0
    BY <1>2, <2>1 DEF Consumed, Like, IsStack
  <2>2. CASE Source # 0
    <3>1. PICK f : f = [frames[Source] EXCEPT !.text = Tail(frames[Source].text)]
      OBVIOUS
    <3>2. EntryStep(frames, Source, f, c)
      BY <1>2, <2>2, <3>1 DEF Consumed, EntryStep
    <3>3. /\ IsList(c) /\ Len(c) = n
          /\ \A i \in 1 .. n : c[i] = IF i = Source THEN f ELSE frames[i]
      BY <1>1, <3>2, ListChanged DEF IsStack
    <3>4. ASSUME NEW i \in 1 .. n
          PROVE  /\ IsFrame(c[i]) /\ c[i].kind = frames[i].kind
                 /\ c[i].name = frames[i].name /\ c[i].node = frames[i].node
      <4>1. PICK g : g = frames[i] /\ IsFrame(g)
        BY <1>1
      <4>2. FrameStep(g, c[i])
        BY <3>1, <3>3, <4>1 DEF FrameStep
      <4>3. QED
        BY <4>1, <4>2, FrameChanged
    <3>5. QED
      BY <1>1, <3>3, <3>4 DEF Like
  <2>3. QED
    BY <2>1, <2>2
<1>4. PICK f : f = [c[x] EXCEPT !.valid = y]
  OBVIOUS
<1>5. PICK e : e = [c EXCEPT ![x].valid = y]
  OBVIOUS
<1>6. EntryStep(c, x, f, e)
  BY <1>4, <1>5 DEF EntryStep
<1>7. /\ IsList(e) /\ Len(e) = n
      /\ \A i \in 1 .. n : e[i] = IF i = x THEN f ELSE c[i]
  BY <1>1, <1>3, <1>6, ListChanged DEF Like
<1>8. ASSUME NEW i \in 1 .. n
      PROVE  /\ IsFrame(e[i]) /\ e[i].kind = c[i].kind
             /\ e[i].name = c[i].name /\ e[i].node = c[i].node
  <2>1. PICK g : g = c[i] /\ IsFrame(g)
    BY <1>1, <1>3 DEF Like
  <2>2. FrameStep(g, e[i])
    BY <1>4, <1>7, <2>1 DEF FrameStep
  <2>3. QED
    BY <2>1, <2>2, FrameChanged
<1>9. Like(frames, e)
  BY <1>1, <1>3, <1>7, <1>8 DEF Like
<1>10. QED
  BY <1>2, <1>3, <1>5, <1>9

\* Recording a child or a text changes no element's place.
LEMMA RecordedAlike ==
    ASSUME NEW d, IsHistory(d), NEW e, e = [i \in DOMAIN d |-> e[i]],
           \A i \in 1 .. Len(d) : ReadStep(d[i], e[i])
    PROVE  IsHistory(e) /\ Extends(d, e) /\ Len(e) = Len(d)
<1>1. PICK m \in Nat : m = Len(d) /\ DOMAIN d = 1 .. m
                       /\ \A i \in 1 .. m : IsRead(d[i]) /\ d[i].closed = d[i].opened
  BY ListInSeq DEF IsHistory, IsList
<1>2. IsList(e) /\ Len(e) = m
  <2>1. e = [i \in 1 .. m |-> e[i]]
    BY <1>1
  <2>2. Len(e) = m
    BY <2>1
  <2>3. QED
    BY <2>1, <2>2 DEF IsList
<1>3. ASSUME NEW i \in 1 .. m
      PROVE  /\ IsRead(e[i]) /\ e[i].opened = d[i].opened /\ e[i].closed = d[i].closed
             /\ e[i].name = d[i].name /\ e[i].atts = d[i].atts
  <2>1. PICK g : g = d[i] /\ IsRead(g) /\ g.closed = g.opened
    BY <1>1
  <2>2. ReadStep(g, e[i])
    BY <1>1, <2>1
  <2>3. QED
    BY <2>1, <2>2, ReadChanged
<1>4. QED
  BY <1>1, <1>2, <1>3 DEF IsHistory, Extends

LEMMA NestInit == Init => NestInv
<1> SUFFICES ASSUME Init PROVE NestInv
  OBVIOUS
<1>1. scenario \in Scenarios
  BY DEF Init
<1>2. IsImp(imp)
  <2> DEFINE p == [verdict |-> "parsing", reported |-> FALSE, ids |-> {}, unresolved |-> {}]
             bad == dtd.has /\ ~IsDeclared(dtd.root) /\ validating
  <2>1. IsImp(p)
    BY DEF IsImp, Imps, Verdicts
  <2>2. bad \in BOOLEAN
    OBVIOUS
  <2>3. imp = NotValid(p, bad)
    BY DEF Init
  <2>4. QED
    BY <2>1, <2>2, <2>3, Checks
<1>3. IsHistory(doc)
  <2>1. doc = <<>>
    BY DEF Init
  <2>2. doc \in Seq({}) /\ Len(doc) = 0
    BY <2>1, EmptySeq
  <2>3. IsList(doc)
    BY <2>2, SeqIsList
  <2>4. QED
    BY <2>2, <2>3 DEF IsHistory
<1>4. PICK f : f = Frame("document", "", RootValidator, 0, <<>>) /\ frames = <<f>>
  BY DEF Init
<1>5. f.kind = "document" /\ IsFrame(f) /\ f.text = <<>>
  BY <1>4 DEF Frame, IsFrame
<1>6. Len(frames) = 1 /\ IsList(frames) /\ frames[1] = f
  <2>1. frames = <<f>>
    BY <1>4
  <2>2. frames \in Seq({f}) /\ Len(frames) = 1 /\ frames[1] = f
    BY <2>1
  <2>3. QED
    BY <2>2, SeqIsList
<1>7. Stack(frames, doc, DOMAIN dtd.entities, Going(imp))
  BY <1>5, <1>6 DEF Stack, IsStack, ElementsInPlace, EntitiesApart, EntitiesAmong
<1>8. Texts(frames, TokensOf(scenario))
  <2>1. PICK T : T = TokensOf(scenario)
    OBVIOUS
  <2>2. f.text \in Seq(T)
    BY <1>5, EmptySeq
  <2>3. \A i \in 1 .. Len(frames) : frames[i].text \in Seq(T)
    BY <1>6, <2>2
  <2>4. QED
    BY <2>1, <2>3 DEF Texts
<1>9. QED
  BY <1>1, <1>2, <1>3, <1>7, <1>8 DEF NestInv

LEMMA MaxIn ==
    ASSUME NEW n \in Nat, NEW T, T \subseteq 0 .. n, T # {}
    PROVE  Max(T) \in T
<1> DEFINE U == {n - x : x \in T}
<1>1. U \subseteq Nat /\ U # {}
  OBVIOUS
<1>2. PICK u \in U : \A v \in U : u <= v
  BY <1>1, Smallest
<1>3. PICK x \in T : u = n - x
  OBVIOUS
<1>4. \A y \in T : x >= y
  <2>1. ASSUME NEW y \in T PROVE x >= y
    <3>1. n - y \in U /\ x \in Int /\ y \in Int
      OBVIOUS
    <3>2. n - x <= n - y
      BY <1>2, <1>3, <3>1
    <3>3. QED
      BY <3>1, <3>2
  <2>2. QED
    BY <2>1
<1>5. \E z \in T : \A y \in T : z >= y
  BY <1>4
<1>6. QED
  BY <1>5 DEF Max

\* A parser that goes on: its stack, and where its next token comes from.
LEMMA Here ==
    ASSUME NestInv, Going(imp)
    PROVE  /\ Stack(frames, doc, DOMAIN dtd.entities, TRUE) /\ IsStack(frames)
           /\ Source = Innermost(frames, Len(frames))
           /\ Source = 0 \/ Source \in EntitiesAmong(frames, Len(frames))
<1>1. PICK n \in Nat : n = Len(frames) /\ DOMAIN frames = 1 .. n
  BY ListInSeq DEF NestInv, Stack, IsStack, IsList
<1>2. Stack(frames, doc, DOMAIN dtd.entities, TRUE) /\ IsStack(frames)
  BY DEF NestInv, Stack, EntitiesApart
<1>3. Source = Max({0} \cup EntitiesAmong(frames, n))
  <2>1. {i \in DOMAIN frames : frames[i].kind = "entity"} = EntitiesAmong(frames, n)
    BY <1>1 DEF EntitiesAmong
  <2>2. QED
    BY <2>1 DEF Source
<1>4. Source \in {0} \cup EntitiesAmong(frames, n)
  <2>1. EntitiesAmong(frames, n) \subseteq 0 .. n
    BY DEF EntitiesAmong
  <2>2. QED
    BY <1>3, <2>1, MaxIn
<1>5. QED
  BY <1>1, <1>2, <1>3, <1>4 DEF Innermost

\* The next token is one of the declared ones, and what is left to read is made of
\* them.
LEMMA NextToken ==
    ASSUME NestInv, Going(imp), NEW tok \in Lookahead, NEW x, NEW y
    PROVE  /\ tok \in TokensOf(scenario) /\ IsTag(tok)
           /\ Texts(Consumed, TokensOf(scenario))
           /\ Texts([Consumed EXCEPT ![x].valid = y], TokensOf(scenario))
<1>1. PICK n \in Nat : n = Len(frames) /\ \A i \in 1 .. n : IsFrame(frames[i])
  BY Here DEF IsStack, IsList
<1>2. PICK T : T = TokensOf(scenario)
  OBVIOUS
<1>3. \A i \in 1 .. n : frames[i].text \in Seq(T)
  BY <1>1, <1>2 DEF NestInv, Texts
<1>4. PICK c : c = Consumed
  OBVIOUS
<1>5. IsList(c) /\ Len(c) = n /\ \A i \in 1 .. n : IsFrame(c[i])
  BY <1>1, <1>4, Here, ConsumedAlike DEF Like
<1>6. tok \in T /\ \A i \in 1 .. n : c[i].text \in Seq(T)
  <2>1. CASE Source = 0
    BY <1>2, <1>3, <1>4, <2>1 DEF Lookahead, Consumed, TokensOf
  <2>2. CASE Source # 0
    <3>1. Source \in 1 .. n
      BY <1>1, <2>2, Here DEF EntitiesAmong
    <3>2. PICK f, t : f = frames[Source] /\ t = f.text /\ t \in Seq(T) /\ IsFrame(f)
      BY <1>1, <1>3, <3>1
    <3>3. Len(t) \in Nat /\ t # <<>> /\ tok = t[1]
      <4>1. PICK j \in 1 .. Min({1, Len(t)}) : tok = t[j]
        BY <2>2, <3>2 DEF Lookahead
      <4>2. Len(t) \in Nat
        BY <3>2
      <4>3. CASE Len(t) = 0
        <5>1. Min({1, Len(t)}) = 0
          BY <4>3 DEF Min
        <5>2. QED
          BY <4>1, <5>1
      <4>4. CASE Len(t) > 0
        <5>1. Min({1, Len(t)}) = 1
          BY <4>2, <4>4 DEF Min
        <5>2. QED
          BY <4>1, <4>2, <4>4, <5>1, EmptySeq
      <4>5. QED
        BY <4>2, <4>3, <4>4
    <3>4. tok \in T /\ Tail(t) \in Seq(T)
      BY <3>2, <3>3
    <3>5. PICK g : g = [f EXCEPT !.text = Tail(t)]
      OBVIOUS
    <3>6. g.text = Tail(t)
      BY <3>2, <3>5 DEF IsFrame, Frame
    <3>7. EntryStep(frames, Source, g, c)
      BY <1>4, <2>2, <3>2, <3>5 DEF Consumed, EntryStep
    <3>8. \A i \in 1 .. n : c[i] = IF i = Source THEN g ELSE frames[i]
      BY <1>1, <3>7, ListChanged, Here DEF IsStack
    <3>9. QED
      BY <1>3, <3>4, <3>6, <3>8
  <2>3. QED
    BY <2>1, <2>2
<1>7. PICK f : f = [c[x] EXCEPT !.valid = y]
  OBVIOUS
<1>8. PICK e : e = [c EXCEPT ![x].valid = y]
  OBVIOUS
<1>9. EntryStep(c, x, f, e)
  BY <1>7, <1>8 DEF EntryStep
<1>10. Len(e) = n /\ \A i \in 1 .. n : e[i] = IF i = x THEN f ELSE c[i]
  BY <1>5, <1>9, ListChanged
<1>11. \A i \in 1 .. n : e[i].text = c[i].text
  <2>1. ASSUME x \in 1 .. n PROVE f.text = c[x].text
    <3>1. PICK k, m, v, d, t :
            c[x] = [kind |-> k, name |-> m, valid |-> v, node |-> d, text |-> t]
      BY <1>5, <2>1 DEF IsFrame, Frame
    <3>2. QED
      BY <1>7, <3>1
  <2>2. QED
    BY <1>10, <2>1
<1>12. Texts(c, T) /\ Texts(e, T)
  BY <1>5, <1>6, <1>10, <1>11 DEF Texts
<1>13. IsTag(tok)
  BY <1>2, <1>6, ScenariosAssumption DEF NestInv, IsTag
<1>14. QED
  BY <1>2, <1>4, <1>6, <1>8, <1>12, <1>13

LEMMA Weaker ==
    ASSUME NEW fr, NEW d, NEW declared, NEW go, Stack(fr, d, declared, TRUE)
    PROVE  Stack(fr, d, declared, go)
BY DEF Stack, EntitiesApart

LEMMA NestNext ==
    ASSUME UNCHANGED scenario, scenario \in Scenarios, IsImp(imp'), IsHistory(doc'),
           Stack(frames', doc', DOMAIN dtd.entities, Going(imp')),
           Texts(frames', TokensOf(scenario))
    PROVE  NestInv'
BY DEF NestInv, dtd

LEMMA HistoryAppended ==
    ASSUME NEW d, NEW r, IsHistory(d), IsRead(r), r.closed = r.opened
    PROVE  /\ IsHistory(Append(d, r)) /\ Extends(d, Append(d, r))
           /\ Len(Append(d, r)) = Len(d) + 1 /\ Append(d, r)[Len(d) + 1] = r
<1>1. PICK n \in Nat : n = Len(d) /\ \A i \in 1 .. n : IsRead(d[i]) /\ d[i].closed = d[i].opened
  BY DEF IsHistory, IsList
<1>2. PICK e : e = Append(d, r)
  OBVIOUS
<1>3. /\ IsList(e) /\ Len(e) = n + 1 /\ e[n + 1] = r
      /\ \A i \in 1 .. n : e[i] = d[i]
  BY <1>1, <1>2, Appended DEF IsHistory
<1>4. \A i \in 1 .. n + 1 : i \in 1 .. n \/ i = n + 1
  OBVIOUS
<1>5. n <= n + 1
  OBVIOUS
<1>6. QED
  BY <1>1, <1>2, <1>3, <1>4, <1>5 DEF IsHistory, Extends

LEMMA ExtendsTransitive ==
    ASSUME NEW a, NEW b, NEW c, IsHistory(a), IsHistory(b), IsHistory(c),
           Extends(a, b), Extends(b, c)
    PROVE  Extends(a, c)
<1>1. Len(a) \in Nat /\ Len(b) \in Nat /\ Len(c) \in Nat
  BY DEF IsHistory, IsList
<1>2. Len(a) <= Len(c) /\ 1 .. Len(a) \subseteq 1 .. Len(b)
  BY <1>1 DEF Extends
<1>3. QED
  BY <1>2 DEF Extends

LEMMA ExtendsItself ==
    ASSUME NEW d, IsHistory(d)
    PROVE  Extends(d, d)
BY DEF Extends, IsHistory, IsList

\* What the history of a child or a text adds.
LEMMA Recorded ==
    ASSUME NestInv, NEW x
    PROVE  /\ IsHistory(WithChild(x)) /\ Extends(doc, WithChild(x))
           /\ Len(WithChild(x)) = Len(doc)
           /\ IsHistory(WithData(x)) /\ Extends(doc, WithData(x))
           /\ Len(WithData(x)) = Len(doc)
<1>1. DOMAIN doc = 1 .. Len(doc) /\ IsHistory(doc)
  BY ListInSeq DEF NestInv, IsHistory
<1>2. PICK c : c = WithChild(x)
  OBVIOUS
<1>3. c = [i \in DOMAIN doc |-> c[i]] /\ \A i \in 1 .. Len(doc) : ReadStep(doc[i], c[i])
  BY <1>1, <1>2 DEF WithChild, ReadStep
<1>4. PICK e : e = WithData(x)
  OBVIOUS
<1>5. e = [i \in DOMAIN doc |-> e[i]] /\ \A i \in 1 .. Len(doc) : ReadStep(doc[i], e[i])
  BY <1>1, <1>4 DEF WithData, ReadStep
<1>6. QED
  BY <1>1, <1>2, <1>3, <1>4, <1>5, RecordedAlike

\* A stack alike has the same entities on it.
LEMMA AlikeEntities ==
    ASSUME NEW fr, NEW gr, IsStack(fr), Like(fr, gr)
    PROVE  /\ Innermost(gr, Len(gr)) = Innermost(fr, Len(fr))
           /\ EntitiesAmong(gr, Len(gr)) = EntitiesAmong(fr, Len(fr))
           /\ \A k \in EntitiesAmong(fr, Len(fr)) : gr[k].name = fr[k].name
<1>1. PICK n \in Nat : n = Len(fr) /\ n = Len(gr) /\ n \in 0 .. n
  BY DEF Like, IsStack, IsList
<1>2. \A i \in 1 .. n : gr[i].kind = fr[i].kind
  BY <1>1 DEF Like
<1>3. /\ EntitiesAmong(gr, n) = EntitiesAmong(fr, n)
      /\ Innermost(gr, n) = Innermost(fr, n)
  BY <1>1, <1>2, SameEntities
<1>4. \A k \in EntitiesAmong(fr, n) : gr[k].name = fr[k].name
  BY <1>1 DEF Like, EntitiesAmong
<1>5. QED
  BY <1>1, <1>3, <1>4

\* What element() finds wrong with a tag.
LEMMA TagChecked ==
    ASSUME IsImp(imp), NEW tag, IsTag(tag), NEW a
    PROVE  /\ IsImp(CheckTag(tag, a)) /\ Onward(imp, CheckTag(tag, a))
           /\ Going(CheckTag(tag, a)) /\ validating =>
                /\ Taken(imp, CheckTag(tag, a), tag, Len(tag.atts)) /\ RequiredGiven(tag)
                /\ dtd.has => IsDeclared(tag.name)
<1>1. PICK b1 \in BOOLEAN : b1 = ~a.result
  OBVIOUS
<1>2. PICK b2 \in BOOLEAN : b2 <=> dtd.has /\ ~IsDeclared(tag.name) /\ validating
  OBVIOUS
<1>3. PICK b3 \in BOOLEAN : b3 <=> tag.empty /\ validating /\ IsDeclared(tag.name)
                                    /\ ~NewValidator(get_element(tag.name).allowed).done
  OBVIOUS
<1>4. PICK p1 : p1 = NotValid(imp, b1)
  OBVIOUS
<1>5. PICK p2 : p2 = NotValid(p1, b2)
  OBVIOUS
<1>6. PICK p3 : p3 = ReadAttributes(p2, tag)
  OBVIOUS
<1>7. PICK q : q = NotValid(p3, b3)
  OBVIOUS
<1>8. q = CheckTag(tag, a)
  BY <1>1, <1>2, <1>3, <1>4, <1>5, <1>6, <1>7 DEF CheckTag
<1>9. /\ IsImp(p1) /\ Onward(imp, p1)
      /\ p1.ids = imp.ids /\ p1.unresolved = imp.unresolved
  BY <1>4, Checks
<1>10. /\ IsImp(p2) /\ Onward(imp, p2) /\ (Going(p2) => Going(imp) /\ (validating => ~b2))
       /\ p2.ids = imp.ids /\ p2.unresolved = imp.unresolved
  <2>1. /\ IsImp(p2) /\ Onward(p1, p2) /\ (Going(p2) => Going(p1) /\ (validating => ~b2))
        /\ p2.ids = p1.ids /\ p2.unresolved = p1.unresolved
    BY <1>5, <1>9, Checks
  <2>2. QED
    BY <1>9, <2>1 DEF Onward
<1>11. /\ IsImp(p3) /\ Onward(p2, p3)
       /\ Going(p3) /\ validating => Taken(p2, p3, tag, Len(tag.atts)) /\ RequiredGiven(tag)
  BY <1>6, <1>10, AttributesRead
<1>12. /\ IsImp(q) /\ Onward(p3, q)
       /\ q.ids = p3.ids /\ q.unresolved = p3.unresolved
  BY <1>7, <1>11, Checks
<1>13. Going(q) /\ validating => Taken(imp, q, tag, Len(tag.atts))
  BY <1>10, <1>11, <1>12 DEF Taken, Onward
<1>14. QED
  BY <1>2, <1>8, <1>10, <1>11, <1>12, <1>13 DEF Onward

LEMMA TextsPushed ==
    ASSUME NEW fr, NEW f, NEW T, IsList(fr), Texts(fr, T), f.text \in Seq(T)
    PROVE  Texts(Append(fr, f), T)
<1>1. PICK n \in Nat : n = Len(fr)
  BY DEF IsList
<1>2. PICK gr : gr = Append(fr, f)
  OBVIOUS
<1>3. Len(gr) = n + 1 /\ gr[n + 1] = f /\ \A i \in 1 .. n : gr[i] = fr[i]
  BY <1>1, <1>2, Appended
<1>4. \A i \in 1 .. n + 1 : i \in 1 .. n \/ i = n + 1
  OBVIOUS
<1>5. QED
  BY <1>1, <1>2, <1>3, <1>4 DEF Texts

LEMMA TextsPopped ==
    ASSUME NEW fr, NEW T, IsList(fr), Len(fr) > 0, Texts(fr, T)
    PROVE  Texts(Front(fr), T)
<1>1. PICK n \in Nat : n = Len(fr)
  BY DEF IsList
<1>2. PICK gr : gr = Front(fr)
  OBVIOUS
<1>3. Len(gr) = n - 1 /\ \A i \in 1 .. n - 1 : gr[i] = fr[i]
  BY <1>1, <1>2, FrontOf
<1>4. 1 .. n - 1 \subseteq 1 .. n
  BY <1>1
<1>5. QED
  BY <1>1, <1>2, <1>3, <1>4 DEF Texts

\* An element that ends where it began.
EndStep(d, n, e) == e = [d EXCEPT ![n].open = FALSE, ![n].closed = d[n].opened]

LEMMA ElementEnded ==
    ASSUME NEW d, IsHistory(d), NEW n, n \in 1 .. Len(d), NEW e, EndStep(d, n, e)
    PROVE  IsHistory(e) /\ Extends(d, e)
<1>1. PICK m \in Nat : m = Len(d) /\ \A i \in 1 .. m : IsRead(d[i]) /\ d[i].closed = d[i].opened
  BY DEF IsHistory, IsList
<1>2. PICK f : f = d[n] /\ IsRead(f) /\ f.closed = f.opened
  BY <1>1
<1>3. PICK g : g = [[f EXCEPT !.open = FALSE] EXCEPT !.closed = f.opened]
  OBVIOUS
<1>4. /\ IsRead(g) /\ g.closed = g.opened /\ g.opened = f.opened
      /\ g.name = f.name /\ g.atts = f.atts
  <2>1. PICK x, a, c, t, o, p, q :
          f = [name |-> x, atts |-> a, children |-> c, data |-> t, open |-> o,
               opened |-> p, closed |-> q]
    BY <1>2 DEF IsRead
  <2>2. g = [name |-> x, atts |-> a, children |-> c, data |-> t, open |-> FALSE,
             opened |-> p, closed |-> p]
    BY <1>3, <2>1
  <2>3. QED
    BY <2>1, <2>2 DEF IsRead
<1>5. EntryStep(d, n, g, e)
  BY <1>1, <1>2, <1>3 DEF EndStep, EntryStep, IsHistory, IsList
<1>6. IsList(e) /\ Len(e) = m /\ \A i \in 1 .. m : e[i] = IF i = n THEN g ELSE d[i]
  BY <1>1, <1>5, ListChanged DEF IsHistory
<1>7. \A i \in 1 .. m : /\ IsRead(e[i]) /\ e[i].closed = e[i].opened
                        /\ e[i].opened = d[i].opened
                        /\ e[i].name = d[i].name /\ e[i].atts = d[i].atts
  BY <1>1, <1>2, <1>4, <1>6
<1>8. QED
  BY <1>1, <1>6, <1>7 DEF IsHistory, Extends

-----------------------------------------------------------------------------
(* One step lemma for each action *)

LEMMA NestStartTag == NestInv /\ StartTag => NestInv'
<1> SUFFICES ASSUME NestInv, StartTag PROVE NestInv'
  OBVIOUS
<1>1. PICK tag \in Lookahead :
        LET a    == ValidatorAllow(frames[Owner].valid, tag.name)
            next == [Consumed EXCEPT ![Owner].valid = Advanced(@, a)]
            sub  == NewValidator(get_element(tag.name).allowed)
        IN  /\ Going(imp) /\ tag.t = "stag"
            /\ ~(Outside /\ doc # <<>>)
            /\ imp' = IF a.ub THEN [imp EXCEPT !.verdict = "undefined"] ELSE CheckTag(tag, a)
            /\ frames' = IF tag.empty THEN next
                         ELSE Append(next, Frame("element", tag.name, sub, Len(doc) + 1, <<>>))
            /\ doc' = Append(WithChild(tag.name),
                             [name |-> tag.name, atts |-> tag.atts, children |-> <<>>,
                              data |-> {}, open |-> ~tag.empty, opened |-> Source,
                              closed |-> Source])
            /\ CountToken
            /\ UNCHANGED scenario
  BY DEF StartTag
<1>2. PICK a : a = ValidatorAllow(frames[Owner].valid, tag.name)
  OBVIOUS
<1>3. PICK next : next = [Consumed EXCEPT ![Owner].valid = Advanced(@, a)]
  OBVIOUS
<1>4. PICK f : f = Frame("element", tag.name, NewValidator(get_element(tag.name).allowed),
                         Len(doc) + 1, <<>>)
  OBVIOUS
<1>5. PICK r : r = [name |-> tag.name, atts |-> tag.atts, children |-> <<>>,
                    data |-> {}, open |-> ~tag.empty, opened |-> Source, closed |-> Source]
  OBVIOUS
<1>6. /\ Going(imp) /\ UNCHANGED scenario
      /\ imp' = IF a.ub THEN [imp EXCEPT !.verdict = "undefined"] ELSE CheckTag(tag, a)
      /\ frames' = IF tag.empty THEN next ELSE Append(next, f)
      /\ doc' = Append(WithChild(tag.name), r)
  BY <1>1, <1>2, <1>3, <1>4, <1>5
<1> DEFINE E == DOMAIN dtd.entities
           T == TokensOf(scenario)
<1>7. IsTag(tag) /\ Texts(next, T)
  BY <1>3, <1>6, NextToken
<1>8. IsImp(imp')
  <2>1. IsImp(imp)
    BY DEF NestInv
  <2>2. IsImp([imp EXCEPT !.verdict = "undefined"])
    BY <2>1 DEF IsImp, Imps, Verdicts
  <2>3. QED
    BY <1>6, <1>7, <2>1, <2>2, TagChecked
<1>9. PICK w : w = WithChild(tag.name)
  OBVIOUS
<1>10. IsHistory(doc) /\ IsHistory(w) /\ Extends(doc, w) /\ Len(w) = Len(doc)
  BY <1>9, Recorded DEF NestInv
<1>11. IsRead(r) /\ r.closed = r.opened /\ r.opened = Source
  BY <1>5 DEF IsRead
<1>12. /\ IsHistory(doc') /\ Extends(w, doc')
       /\ Len(doc') = Len(doc) + 1 /\ doc'[Len(doc) + 1] = r
  BY <1>6, <1>9, <1>10, <1>11, HistoryAppended
<1>13. Extends(doc, doc')
  BY <1>10, <1>12, ExtendsTransitive
<1>14. /\ Stack(frames, doc, E, TRUE) /\ IsStack(frames)
       /\ Source = Innermost(frames, Len(frames))
  BY <1>6, Here
<1>15. Like(frames, next)
  BY <1>3, <1>14, ConsumedAlike
<1> HIDE DEF E, T
<1>16. Stack(next, doc', E, TRUE)
  BY <1>10, <1>12, <1>13, <1>14, <1>15, AlikeStack
<1>17. Stack(frames', doc', E, TRUE) /\ Texts(frames', T)
  <2>1. CASE tag.empty
    BY <1>6, <1>7, <1>16, <2>1
  <2>2. CASE ~tag.empty
    <3>1. IsFrame(f) /\ f.kind = "element" /\ f.node = Len(doc) + 1 /\ f.text = <<>>
      BY <1>4 DEF IsFrame, Frame
    <3>2. Len(doc) \in Nat
      BY <1>10 DEF IsHistory, IsList
    <3>3. f.node \in 1 .. Len(doc') /\ doc'[f.node].opened = Innermost(next, Len(next))
      BY <1>11, <1>12, <1>14, <1>15, <3>1, <3>2, AlikeEntities
    <3>4. frames' = Append(next, f)
      BY <1>6, <2>2
    <3>5. Stack(frames', doc', E, TRUE)
      BY <1>16, <3>1, <3>3, <3>4, PushedElement
    <3>6. Texts(frames', T)
      BY <1>7, <1>15, <3>1, <3>4, EmptySeq, TextsPushed DEF Like
    <3>7. QED
      BY <3>5, <3>6
  <2>3. QED
    BY <2>1, <2>2
<1>18. Stack(frames', doc', E, Going(imp'))
  BY <1>17, Weaker
<1>19. QED
  BY <1>6, <1>8, <1>12, <1>17, <1>18, NestNext DEF NestInv, E, T

LEMMA NestEndTag == NestInv /\ EndTag => NestInv'
<1> SUFFICES ASSUME NestInv, EndTag PROVE NestInv'
  OBVIOUS
<1>1. PICK tag \in Lookahead :
        LET wrong == Top.kind # "element" \/ Top.name # tag.name
        IN  /\ Going(imp) /\ tag.t = "etag"
            /\ imp' = NotValid(NotWellFormed(imp, wrong),
                               validating /\ IsDeclared(Top.name) /\ ~Top.valid.done)
            /\ frames' = IF wrong THEN Consumed ELSE Front(Consumed)
            /\ doc' = IF wrong THEN doc
                      ELSE [doc EXCEPT ![Top.node].open = FALSE, ![Top.node].closed = Source]
            /\ CountToken
            /\ UNCHANGED scenario
  BY DEF EndTag
<1>2. PICK wrong \in BOOLEAN : wrong = (Top.kind # "element" \/ Top.name # tag.name)
  OBVIOUS
<1>3. PICK undone \in BOOLEAN :
        undone <=> validating /\ IsDeclared(Top.name) /\ ~Top.valid.done
  OBVIOUS
<1>4. /\ Going(imp) /\ UNCHANGED scenario
      /\ imp' = NotValid(NotWellFormed(imp, wrong), undone)
      /\ frames' = IF wrong THEN Consumed ELSE Front(Consumed)
      /\ doc' = IF wrong THEN doc
                ELSE [doc EXCEPT ![Top.node].open = FALSE, ![Top.node].closed = Source]
  BY <1>1, <1>2, <1>3
<1> DEFINE E == DOMAIN dtd.entities
           T == TokensOf(scenario)
<1>5. PICK c : c = Consumed
  OBVIOUS
<1>6. Texts(c, T)
  BY <1>4, <1>5, NextToken
<1>7. IsImp(imp')
  <2>1. IsImp(NotWellFormed(imp, wrong))
    BY Checks DEF NestInv
  <2>2. QED
    BY <1>4, <2>1, Checks
<1>8. /\ Stack(frames, doc, E, TRUE) /\ IsStack(frames) /\ IsHistory(doc)
      /\ Source = Innermost(frames, Len(frames))
  BY <1>4, Here DEF NestInv
<1>9. Like(frames, c)
  BY <1>5, <1>8, ConsumedAlike
<1> HIDE DEF E, T
<1>10. /\ IsHistory(doc') /\ Stack(frames', doc', E, TRUE) /\ Texts(frames', T)
  <2>1. CASE wrong
    <3>1. frames' = c /\ doc' = doc
      BY <1>4, <1>5, <2>1
    <3>2. Stack(c, doc, E, TRUE)
      BY <1>8, <1>9, AlikeStack, ExtendsItself
    <3>3. QED
      BY <1>6, <1>8, <3>1, <3>2
  <2>2. CASE ~wrong
    <3>1. PICK n \in Nat : n = Len(frames) /\ n > 0 /\ Top = frames[n]
      BY <1>8 DEF IsStack, IsList, Top
    <3>2. Top.kind = "element" /\ frames' = Front(c)
      BY <1>2, <1>4, <1>5, <2>2
    <3>3. /\ Top.node \in 1 .. Len(doc)
          /\ doc[Top.node].opened = Innermost(frames, n - 1)
      BY <1>8, <3>1, <3>2 DEF Stack, ElementsInPlace
    <3>4. EntitiesAmong(frames, n) = EntitiesAmong(frames, n - 1)
      <4>1. \A j : j \in 1 .. n /\ j # n <=> j \in 1 .. n - 1
        BY <3>1
      <4>2. frames[n].kind # "entity"
        BY <3>1, <3>2
      <4>3. QED
        BY <4>1, <4>2 DEF EntitiesAmong
    <3>5. doc[Top.node].opened = Source
      BY <1>8, <3>1, <3>3, <3>4 DEF Innermost
    <3>6. PICK k : k = Top.node
      OBVIOUS
    <3>7. EndStep(doc, k, doc')
      BY <1>4, <2>2, <3>5, <3>6 DEF EndStep
    <3>8. IsHistory(doc') /\ Extends(doc, doc')
      BY <1>8, <3>3, <3>6, <3>7, ElementEnded
    <3>9. Stack(c, doc', E, TRUE)
      BY <1>8, <1>9, <3>8, AlikeStack
    <3>10. IsList(c) /\ Len(c) = n /\ c[n].kind # "document"
      BY <1>9, <3>1, <3>2 DEF Like
    <3>11. Stack(Front(c), doc', E, TRUE)
      BY <3>9, <3>10, Popped
    <3>12. Texts(Front(c), T)
      BY <1>6, <3>1, <3>10, TextsPopped
    <3>13. QED
      BY <3>2, <3>8, <3>11, <3>12
  <2>3. QED
    BY <2>1, <2>2
<1>11. Stack(frames', doc', E, Going(imp'))
  BY <1>10, Weaker
<1>12. QED
  BY <1>4, <1>7, <1>10, <1>11, NestNext DEF NestInv, E, T

LEMMA NestData == NestInv /\ Data => NestInv'
<1> SUFFICES ASSUME NestInv, Data PROVE NestInv'
  OBVIOUS
<1>1. PICK tok \in Lookahead, bad \in BOOLEAN :
        /\ Going(imp) /\ imp' = NotValid(imp, bad) /\ frames' = Consumed
        /\ doc' = WithData({tok.t}) /\ UNCHANGED scenario
  <2>1. PICK tok \in Lookahead :
          /\ Going(imp) /\ imp' = NotValid(imp, Misplaced(OwnerSpec, tok.t))
          /\ frames' = Consumed /\ doc' = WithData({tok.t}) /\ UNCHANGED scenario
    BY DEF Data
  <2>2. PICK bad \in BOOLEAN : bad <=> Misplaced(OwnerSpec, tok.t)
    OBVIOUS
  <2>3. NotValid(imp, bad) = NotValid(imp, Misplaced(OwnerSpec, tok.t))
    BY <2>2 DEF NotValid
  <2>4. QED
    BY <2>1, <2>3
<1> DEFINE E == DOMAIN dtd.entities
           T == TokensOf(scenario)
<1>2. Texts(frames', T)
  BY <1>1, NextToken
<1>3. IsImp(imp')
  BY <1>1, Checks DEF NestInv
<1>4. IsHistory(doc) /\ IsHistory(doc') /\ Extends(doc, doc')
  BY <1>1, Recorded DEF NestInv
<1>5. Stack(frames, doc, E, TRUE) /\ IsStack(frames)
  BY <1>1, Here
<1>6. Like(frames, frames')
  BY <1>1, <1>5, ConsumedAlike
<1> HIDE DEF E, T
<1>7. Stack(frames', doc', E, Going(imp'))
  <2>1. Stack(frames', doc', E, TRUE)
    BY <1>4, <1>5, <1>6, AlikeStack
  <2>2. QED
    BY <2>1, Weaker
<1>8. QED
  BY <1>1, <1>2, <1>3, <1>4, <1>7, NestNext DEF NestInv, E, T

\* Misc and DocumentEnd change the verdict only.
LEMMA NestVerdict ==
    ASSUME NestInv, Going(imp), IsImp(imp'), UNCHANGED <<scenario, frames, doc>>
    PROVE  NestInv'
<1>1. Stack(frames, doc, DOMAIN dtd.entities, Going(imp'))
  BY Here, Weaker
<1>2. QED
  BY <1>1, NestNext DEF NestInv

LEMMA NestMisc == NestInv /\ Misc => NestInv'
<1> SUFFICES ASSUME NestInv, Misc PROVE NestInv'
  OBVIOUS
<1>1. PICK bad \in BOOLEAN : /\ Going(imp) /\ imp' = NotWellFormed(imp, bad)
                             /\ UNCHANGED <<scenario, frames, doc>>
  BY DEF Misc
<1>2. IsImp(imp')
  BY <1>1, Checks DEF NestInv
<1>3. QED
  BY <1>1, <1>2, NestVerdict

LEMMA NestDocumentEnd == NestInv /\ DocumentEnd => NestInv'
<1> SUFFICES ASSUME NestInv, DocumentEnd PROVE NestInv'
  OBVIOUS
<1>1. PICK b1, b2, p, q :
        /\ b1 \in BOOLEAN /\ b2 \in BOOLEAN
        /\ Going(imp) /\ p = NotWellFormed(imp, b1) /\ q = NotValid(p, b2)
        /\ imp' = IF Going(q) THEN [q EXCEPT !.verdict = "accepted"] ELSE q
        /\ UNCHANGED <<scenario, frames, doc>>
  BY DEF DocumentEnd
<1>2. IsImp(p)
  BY <1>1, Checks DEF NestInv
<1>3. IsImp(q)
  BY <1>1, <1>2, Checks
<1>4. IsImp([q EXCEPT !.verdict = "accepted"])
  BY <1>3 DEF IsImp, Imps, Verdicts
<1>5. QED
  BY <1>1, <1>3, <1>4, NestVerdict

LEMMA NestEntityEnd == NestInv /\ EntityEnd => NestInv'
<1> SUFFICES ASSUME NestInv, EntityEnd PROVE NestInv'
  OBVIOUS
<1>1. PICK bad \in BOOLEAN : /\ Going(imp) /\ imp' = NotWellFormed(imp, bad)
                             /\ frames' = IF Top.kind = "entity" THEN Front(frames) ELSE frames
                             /\ UNCHANGED <<scenario, doc>>
  BY DEF EntityEnd
<1>2. IsImp(imp')
  BY <1>1, Checks DEF NestInv
<1>3. CASE Top.kind # "entity"
  BY <1>1, <1>2, <1>3, NestVerdict
<1>4. CASE Top.kind = "entity"
  <2> DEFINE E == DOMAIN dtd.entities
             T == TokensOf(scenario)
  <2>1. Stack(frames, doc, E, TRUE) /\ IsStack(frames) /\ Texts(frames, T)
    BY <1>1, Here DEF NestInv
  <2>2. IsList(frames) /\ Len(frames) > 0 /\ frames[Len(frames)].kind # "document"
    BY <1>4, <2>1 DEF IsStack, Top
  <2>3. frames' = Front(frames)
    BY <1>1, <1>4
  <2> HIDE DEF E, T
  <2>4. Stack(frames', doc, E, Going(imp'))
    <3>1. Stack(frames', doc, E, TRUE)
      BY <2>1, <2>2, <2>3, Popped
    <3>2. QED
      BY <3>1, Weaker
  <2>5. Texts(frames', T)
    BY <2>1, <2>2, <2>3, TextsPopped
  <2>6. QED
    BY <1>1, <1>2, <2>4, <2>5, NestNext DEF NestInv, E, T
<1>5. QED
  BY <1>3, <1>4

LEMMA NestReference == NestInv /\ Reference => NestInv'
<1> SUFFICES ASSUME NestInv, Reference PROVE NestInv'
  OBVIOUS
<1> DEFINE E == DOMAIN dtd.entities
           T == TokensOf(scenario)
<1>0. PICK tok \in Lookahead :
        LET text    == IF tok.name \in DOMAIN dtd.entities
                       THEN dtd.entities[tok.name].text ELSE <<>>
            onlyspace == OwnerSpec = "Children" /\ text = <<Token("space", "")>>
            empty   == NotValid(imp, OwnerSpec = "Empty")
        IN  /\ Going(imp)
            /\ imp' = NotValid(CheckEntity(empty, tok.name), onlyspace)
            /\ frames' = Append(Consumed, Frame("entity", tok.name,
                                                NewValidator(content_spec_any), 0, text))
            /\ doc' = WithData({"ref"} \cup {j \in {"spaceref"} : onlyspace})
            /\ UNCHANGED scenario
  BY DEF Reference
<1>t. PICK text : text = IF tok.name \in E THEN dtd.entities[tok.name].text ELSE <<>>
  OBVIOUS
<1>p. PICK onlyspace : onlyspace = (OwnerSpec = "Children" /\ text = <<Token("space", "")>>)
  OBVIOUS
<1>e. PICK empty : empty = NotValid(imp, OwnerSpec = "Empty")
  OBVIOUS
<1>k. PICK kinds : kinds = {"ref"} \cup {j \in {"spaceref"} : onlyspace}
  OBVIOUS
<1>1. /\ Going(imp) /\ UNCHANGED scenario /\ onlyspace \in BOOLEAN
      /\ imp' = NotValid(CheckEntity(empty, tok.name), onlyspace)
      /\ frames' = Append(Consumed, Frame("entity", tok.name,
                                          NewValidator(content_spec_any), 0, text))
      /\ doc' = WithData(kinds)
  BY <1>0, <1>t, <1>p, <1>e, <1>k
<1>2. PICK c : c = Consumed
  OBVIOUS
<1>3. PICK f : f = Frame("entity", tok.name, NewValidator(content_spec_any), 0, text)
  OBVIOUS
<1>4. IsFrame(f) /\ f.kind = "entity" /\ f.name = tok.name /\ f.text = text
  BY <1>3 DEF IsFrame, Frame
<1>5. text \in Seq(T) /\ Texts(c, T)
  <2>1. \A n \in E : dtd.entities[n].text \in Seq(T)
    BY ScenariosAssumption DEF NestInv, dtd
  <2>2. PICK tokens : tokens = T
    OBVIOUS
  <2>3. text \in Seq(tokens)
    BY <1>t, <2>1, <2>2, EmptySeq
  <2>4. QED
    BY <1>1, <1>2, <2>2, <2>3, NextToken
<1>6. /\ IsHistory(doc) /\ IsHistory(doc') /\ Extends(doc, doc')
  BY <1>1, Recorded DEF NestInv
<1>7. Stack(frames, doc, E, TRUE) /\ IsStack(frames)
  BY <1>1, Here
<1>8. Like(frames, c)
  BY <1>2, <1>7, ConsumedAlike
<1> HIDE DEF T
<1>9. IsImp(imp') /\ (Going(imp') => tok.name \in E /\ tok.name \notin EntitiesOnStack)
  <2>1. IsImp(empty)
    BY <1>e, Checks DEF NestInv
  <2>2. PICK q : q = CheckEntity(empty, tok.name)
    OBVIOUS
  <2>3. IsImp(q) /\ (Going(q) => tok.name \in E /\ tok.name \notin EntitiesOnStack)
    <3>1. CASE tok.name \in EntitiesOnStack \/ tok.name \notin E
      BY <2>1, <2>2, <3>1, Checks DEF CheckEntity
    <3>2. CASE tok.name \notin EntitiesOnStack /\ tok.name \in E
      <4>1. PICK c1, c2, alone :
              /\ c1 \in BOOLEAN /\ c2 \in BOOLEAN
              /\ alone = NotValid(empty, c1) /\ q = NotWellFormed(alone, c2)
        BY <2>2, <3>2 DEF CheckEntity
      <4>2. IsImp(alone)
        BY <2>1, <4>1, Checks
      <4>3. QED
        BY <3>2, <4>1, <4>2, Checks
    <3>3. QED
      BY <3>1, <3>2
  <2>4. QED
    BY <1>1, <2>2, <2>3, Checks
<1> HIDE DEF E
<1>10. Stack(c, doc', E, TRUE)
  BY <1>6, <1>7, <1>8, AlikeStack
<1>11. Going(imp') => /\ f.name \in E
                      /\ \A k \in EntitiesAmong(c, Len(c)) : c[k].name # f.name
  <2> SUFFICES ASSUME Going(imp')
               PROVE  /\ f.name \in E
                      /\ \A k \in EntitiesAmong(c, Len(c)) : c[k].name # f.name
    OBVIOUS
  <2>1. tok.name \in E /\ tok.name \notin EntitiesOnStack
    BY <1>9
  <2>2. DOMAIN frames = 1 .. Len(frames)
    BY <1>7, ListInSeq DEF IsStack
  <2>3. ASSUME NEW k \in EntitiesAmong(frames, Len(frames))
        PROVE  frames[k].name \in EntitiesOnStack
    BY <2>2 DEF EntitiesOnStack, EntitiesAmong
  <2>4. QED
    BY <1>4, <1>7, <1>8, <2>1, <2>3, AlikeEntities
<1>12. PICK go \in BOOLEAN : go = Going(imp')
  BY DEF Going
<1>13. Stack(frames', doc', E, go)
  BY <1>1, <1>2, <1>3, <1>4, <1>10, <1>11, <1>12, PushedEntity
<1>14. Texts(frames', T)
  BY <1>1, <1>2, <1>3, <1>4, <1>5, <1>8, TextsPushed DEF Like
<1>15. QED
  BY <1>1, <1>6, <1>9, <1>12, <1>13, <1>14, NestNext DEF NestInv, E, T

\* All entities on the stack but the last are declared, each another one, so there
\* is at most one more of them than there are declared.
LEMMA NestEnough == NestInv => EntitiesNest
<1> SUFFICES ASSUME NestInv PROVE EntitiesNest
  OBVIOUS
<1>1. PICK n \in Nat : n = Len(frames) /\ DOMAIN frames = 1 .. n
  BY ListInSeq DEF NestInv, Stack, IsStack, IsList
<1> DEFINE D == DOMAIN dtd.entities
           S == EntitiesAmong(frames, n)
           R == S \ {n}
           name == [j \in R |-> frames[j].name]
<1>2. \A i \in DOMAIN doc : doc[i].closed = doc[i].opened
  BY ListInSeq DEF NestInv, IsHistory
<1>3. IsFiniteSet(D)
  BY ScenariosAssumption DEF NestInv, dtd
<1>4. \A j \in R : /\ frames[j].name \in D
                   /\ \A k \in EntitiesAmong(frames, j - 1) : frames[k].name # frames[j].name
  BY <1>1 DEF NestInv, Stack, EntitiesApart
<1>5. name \in Injection(R, D)
  <2>1. name \in [R -> D]
    BY <1>4
  <2>2. ASSUME NEW j \in R, NEW k \in R, j # k PROVE name[j] # name[k]
    <3>1. j \in Nat /\ k \in Nat /\ j \in 1 .. n /\ k \in 1 .. n
      BY DEF EntitiesAmong
    <3>2. k < j => k \in EntitiesAmong(frames, j - 1)
      BY <3>1 DEF EntitiesAmong
    <3>3. j < k => j \in EntitiesAmong(frames, k - 1)
      BY <3>1 DEF EntitiesAmong
    <3>4. QED
      BY <1>4, <2>2, <3>1, <3>2, <3>3
  <2>3. QED
    BY <2>1, <2>2 DEF Injection, IsInjective
<1> HIDE DEF name
<1>6. IsFiniteSet(R) /\ Cardinality(R) <= Cardinality(D)
  BY <1>3, <1>5, FS_Injection
<1>7. Cardinality(S) <= Cardinality(R) + 1
  <2>1. IsFiniteSet(R \cup {n}) /\ Cardinality(R \cup {n}) = Cardinality(R) + 1
    BY <1>6, FS_AddElement
  <2>2. S \in SUBSET (R \cup {n})
    OBVIOUS
  <2>3. Cardinality(S) <= Cardinality(R \cup {n})
    BY <2>1, <2>2, FS_Subset
  <2>4. QED
    BY <2>1, <2>3
<1>8. {i \in DOMAIN frames : frames[i].kind = "entity"} = S
  BY <1>1 DEF EntitiesAmong
<1>9. Cardinality(S) <= Cardinality(D) + 1
  <2>1. Cardinality(R) \in Nat /\ Cardinality(D) \in Nat /\ Cardinality(S) \in Nat
    <3>1. S \subseteq R \cup {n} /\ IsFiniteSet(R \cup {n})
      BY <1>6, FS_AddElement
    <3>2. IsFiniteSet(S)
      BY <3>1, FS_Subset
    <3>3. QED
      BY <1>3, <1>6, <3>2, FS_CardinalityType
  <2>2. \A a, b, c \in Nat : a <= b + 1 /\ b <= c => a <= c + 1
    OBVIOUS
  <2>3. QED
    BY <1>6, <1>7, <2>1, <2>2
<1>10. QED
  BY <1>2, <1>8, <1>9 DEF EntitiesNest

LEMMA NestStep == NestInv /\ [Next]_vars => NestInv'
<1> SUFFICES ASSUME NestInv, [Next]_vars PROVE NestInv'
  OBVIOUS
<1>1. CASE StartTag
  BY <1>1, NestStartTag
<1>2. CASE EndTag
  BY <1>2, NestEndTag
<1>3. CASE Data
  BY <1>3, NestData
<1>4. CASE Misc
  BY <1>4, NestMisc
<1>5. CASE Reference
  BY <1>5, NestReference
<1>6. CASE EntityEnd
  BY <1>6, NestEntityEnd
<1>7. CASE DocumentEnd
  BY <1>7, NestDocumentEnd
<1>8. CASE UNCHANGED vars
  BY <1>8 DEF vars, NestInv, dtd, Going
<1>9. QED
  BY <1>1, <1>2, <1>3, <1>4, <1>5, <1>6, <1>7, <1>8 DEF Next, Parse, Finished

\* Whatever the states of the content models answer, an element ends in the entity
\* in which it began, and no entity is read inside itself, so that the stack of
\* entities is bounded by their declarations (parser_imp::element, ::content).
THEOREM ElementsEndWhereTheyBegan == Spec => []EntitiesNest
BY NestInit, NestStep, NestEnough, PTL DEF Spec

-----------------------------------------------------------------------------
(* AttributesRight *)

\* The declarations say the same of the elements and attributes in d after a step.
Unchanged(tag) ==
    /\ IsDeclared(tag.name)' <=> IsDeclared(tag.name)
    /\ RequiredGiven(tag)' <=> RequiredGiven(tag)
    /\ \A j : (Fits(tag, j)' <=> Fits(tag, j)) /\ IdsAt(tag, j)' = IdsAt(tag, j)
              /\ RefsAt(tag, j)' = RefsAt(tag, j)

LEMMA SameDeclarations ==
    ASSUME UNCHANGED scenario
    PROVE  \A tag : Unchanged(tag)
<1>1. dtd' = dtd /\ validating' = validating
  BY DEF dtd, validating
<1>2. \A n : (IsDeclared(n)' <=> IsDeclared(n)) /\ get_element(n)' = get_element(n)
  BY <1>1 DEF IsDeclared, get_element
<1>3. \A e, n : AttributeDecl(e, n)' = AttributeDecl(e, n)
  BY <1>1, <1>2 DEF AttributeDecl
<1>4. \A d, v : ValidateValue(d, v)' <=> ValidateValue(d, v)
  BY <1>1 DEF ValidateValue, IsUnparsedEntity
<1>5. QED
  BY <1>1, <1>2, <1>3, <1>4
     DEF Unchanged, RequiredGiven, Given, Fits, IdsAt, RefsAt, DeclOf, IdsOf, RefsOf, NoDecl

\* The attributes of the elements of d.
PlacesIn(d) == {x \in (1 .. Len(d)) \X Nat : x[2] \in 1 .. Len(d[x[1]].atts)}

\* A tag of which the parser found nothing wrong.
TagFits(tag) ==
    /\ dtd.has => IsDeclared(tag.name)
    /\ RequiredGiven(tag)
    /\ \A j \in 1 .. Len(tag.atts) : Fits(tag, j)

\* The account p keeps of the IDs in d.
Accounted(d, p) ==
    /\ \A i \in 1 .. Len(d) : TagFits(d[i])
    /\ \A x \in PlacesIn(d) : /\ IdsAt(d[x[1]], x[2]) \subseteq p.ids
                             /\ RefsAt(d[x[1]], x[2]) \subseteq p.ids \cup p.unresolved
    /\ \A v \in p.ids : \E x \in PlacesIn(d) : v \in IdsAt(d[x[1]], x[2])
    /\ \A x, y \in PlacesIn(d) :
            IdsAt(d[x[1]], x[2]) \cap IdsAt(d[y[1]], y[2]) # {} => x = y

AttrInv ==
    /\ NestInv
    /\ \A i \in 1 .. Len(doc) : IsTag(doc[i])
    /\ validating /\ (Going(imp) \/ imp.verdict = "accepted") =>
            (dtd.has => IsDeclared(dtd.root)) /\ Accounted(doc, imp)
    /\ validating /\ imp.verdict = "accepted" => imp.unresolved = {}

\* Only the names and attributes of the elements count.
LEMMA TagAlike ==
    ASSUME NEW x, NEW y, y.name = x.name, y.atts = x.atts
    PROVE  /\ TagFits(y) <=> TagFits(x)
           /\ Len(y.atts) = Len(x.atts)
           /\ \A j : IdsAt(y, j) = IdsAt(x, j) /\ RefsAt(y, j) = RefsAt(x, j)
<1>1. \A j : DeclOf(y, j) = DeclOf(x, j)
  BY DEF DeclOf
<1>2. \A j : IdsAt(y, j) = IdsAt(x, j) /\ RefsAt(y, j) = RefsAt(x, j)
  BY <1>1 DEF IdsAt, RefsAt
<1>3. \A j : Fits(y, j) <=> Fits(x, j)
  BY <1>1 DEF Fits
<1>4. RequiredGiven(y) <=> RequiredGiven(x)
  BY DEF RequiredGiven, Given
<1>5. QED
  BY <1>2, <1>3, <1>4 DEF TagFits

LEMMA AccountedAlike ==
    ASSUME NEW d, NEW e, NEW p, NEW q, Accounted(d, p), Len(d) = Len(e), Len(d) \in Nat,
           \A i \in 1 .. Len(d) : e[i].name = d[i].name /\ e[i].atts = d[i].atts,
           q.ids = p.ids, q.unresolved = p.unresolved
    PROVE  Accounted(e, q)
<1>1. PICK n \in Nat : n = Len(d) /\ n = Len(e)
  OBVIOUS
<1>2. \A i \in 1 .. n : /\ TagFits(e[i]) <=> TagFits(d[i])
                        /\ Len(e[i].atts) = Len(d[i].atts)
                        /\ \A j : IdsAt(e[i], j) = IdsAt(d[i], j)
                                  /\ RefsAt(e[i], j) = RefsAt(d[i], j)
  BY <1>1, TagAlike
<1>3. PlacesIn(e) = PlacesIn(d) /\ \A x \in PlacesIn(d) : x[1] \in 1 .. n
  BY <1>1, <1>2 DEF PlacesIn
<1>4. \A x \in PlacesIn(d) : /\ IdsAt(e[x[1]], x[2]) = IdsAt(d[x[1]], x[2])
                             /\ RefsAt(e[x[1]], x[2]) = RefsAt(d[x[1]], x[2])
  BY <1>2, <1>3
<1>5. \A i \in 1 .. Len(e) : TagFits(e[i])
  BY <1>1, <1>2 DEF Accounted
<1>6. \A x \in PlacesIn(e) : /\ IdsAt(e[x[1]], x[2]) \subseteq q.ids
                             /\ RefsAt(e[x[1]], x[2]) \subseteq q.ids \cup q.unresolved
  BY <1>3, <1>4 DEF Accounted
<1>7. \A v \in q.ids : \E x \in PlacesIn(e) : v \in IdsAt(e[x[1]], x[2])
  BY <1>3, <1>4 DEF Accounted
<1>8. \A x, y \in PlacesIn(e) :
            IdsAt(e[x[1]], x[2]) \cap IdsAt(e[y[1]], y[2]) # {} => x = y
  <2> SUFFICES ASSUME NEW x \in PlacesIn(e), NEW y \in PlacesIn(e),
                      IdsAt(e[x[1]], x[2]) \cap IdsAt(e[y[1]], y[2]) # {}
               PROVE  x = y
    OBVIOUS
  <2>1. x \in PlacesIn(d) /\ y \in PlacesIn(d)
    BY <1>3
  <2>2. IdsAt(d[x[1]], x[2]) \cap IdsAt(d[y[1]], y[2]) # {}
    BY <1>4, <2>1
  <2>3. QED
    BY <2>1, <2>2 DEF Accounted
<1>9. QED
  BY <1>5, <1>6, <1>7, <1>8 DEF Accounted

\* The account when one more tag was read.
LEMMA AccountedNext ==
    ASSUME NEW d, NEW e, NEW p, NEW q, NEW n \in Nat, Accounted(d, p),
           Len(d) = n, Len(e) = n + 1,
           \A i \in 1 .. n : e[i].name = d[i].name /\ e[i].atts = d[i].atts,
           Taken(p, q, e[n + 1], Len(e[n + 1].atts)), TagFits(e[n + 1]),
           Len(e[n + 1].atts) \in Nat
    PROVE  Accounted(e, q)
<1> DEFINE t == e[n + 1]
           m == Len(t.atts)
<1>1. \A i \in 1 .. n : /\ TagFits(e[i]) <=> TagFits(d[i])
                        /\ Len(e[i].atts) = Len(d[i].atts)
                        /\ \A j : IdsAt(e[i], j) = IdsAt(d[i], j)
                                  /\ RefsAt(e[i], j) = RefsAt(d[i], j)
  BY TagAlike
<1>2. \A i \in 1 .. n + 1 : i \in 1 .. n \/ i = n + 1
  OBVIOUS
<1>3. 1 .. n \subseteq 1 .. n + 1 /\ n + 1 \in 1 .. n + 1 /\ n + 1 \notin 1 .. n
  OBVIOUS
<1> HIDE DEF t
<1>4. \A x \in PlacesIn(e) : /\ x = <<x[1], x[2]>>
                            /\ \/ x \in PlacesIn(d) /\ x[1] \in 1 .. n
                               \/ x[1] = n + 1 /\ x[2] \in 1 .. m
  BY <1>1, <1>2 DEF PlacesIn, t
<1>5. \A x \in PlacesIn(d) : x \in PlacesIn(e) /\ x[1] \in 1 .. n
  BY <1>1, <1>3 DEF PlacesIn
<1>6. \A j \in 1 .. m : <<n + 1, j>> \in PlacesIn(e)
  BY <1>3 DEF PlacesIn, t
<1>7. /\ \A j \in 1 .. m : /\ IdsAt(t, j) \cap p.ids = {}
                           /\ \A k \in 1 .. j - 1 : IdsAt(t, j) \cap IdsAt(t, k) = {}
      /\ \A j \in 1 .. m : IdsAt(t, j) \subseteq q.ids
                           /\ RefsAt(t, j) \subseteq q.ids \cup q.unresolved
      /\ p.ids \subseteq q.ids /\ p.unresolved \subseteq q.ids \cup q.unresolved
      /\ \A v \in q.ids : v \in p.ids \/ \E j \in 1 .. m : v \in IdsAt(t, j)
  BY DEF Taken, t
<1>8. \A i \in 1 .. n + 1 : TagFits(e[i])
  BY <1>1, <1>2 DEF Accounted
<1>9. ASSUME NEW x \in PlacesIn(e)
      PROVE  /\ IdsAt(e[x[1]], x[2]) \subseteq q.ids
             /\ RefsAt(e[x[1]], x[2]) \subseteq q.ids \cup q.unresolved
  <2>1. CASE x \in PlacesIn(d) /\ x[1] \in 1 .. n
    BY <1>1, <1>7, <2>1 DEF Accounted
  <2>2. CASE x[1] = n + 1 /\ x[2] \in 1 .. m
    BY <1>7, <2>2 DEF t
  <2>3. QED
    BY <1>4, <2>1, <2>2
<1>10. ASSUME NEW v \in q.ids PROVE \E x \in PlacesIn(e) : v \in IdsAt(e[x[1]], x[2])
  <2>1. CASE v \in p.ids
    BY <1>1, <1>5, <2>1 DEF Accounted
  <2>2. ASSUME NEW j \in 1 .. m, v \in IdsAt(t, j)
        PROVE  \E x \in PlacesIn(e) : v \in IdsAt(e[x[1]], x[2])
    BY <1>6, <2>2 DEF t
  <2>3. QED
    BY <1>7, <2>1, <2>2
<1>11. ASSUME NEW x \in PlacesIn(e), NEW y \in PlacesIn(e), NEW v,
              v \in IdsAt(e[x[1]], x[2]), v \in IdsAt(e[y[1]], y[2])
       PROVE  x = y
  <2>1. \A z \in PlacesIn(d) : IdsAt(e[z[1]], z[2]) \subseteq p.ids
                              /\ IdsAt(e[z[1]], z[2]) = IdsAt(d[z[1]], z[2])
    BY <1>1, <1>5 DEF Accounted
  <2>2. \A z \in PlacesIn(e) : z[1] = n + 1 /\ z[2] \in 1 .. m =>
                                  IdsAt(e[z[1]], z[2]) \cap p.ids = {}
    BY <1>7 DEF t
  <2>3. CASE x \in PlacesIn(d) /\ y \in PlacesIn(d)
    BY <1>11, <2>1, <2>3 DEF Accounted
  <2>4. CASE x[1] = n + 1 /\ x[2] \in 1 .. m /\ y[1] = n + 1 /\ y[2] \in 1 .. m
    <3>1. v \in IdsAt(t, x[2]) /\ v \in IdsAt(t, y[2])
      BY <1>11, <2>4 DEF t
    <3>2. \A j, k \in 1 .. m : j = k \/ j \in 1 .. k - 1 \/ k \in 1 .. j - 1
      OBVIOUS
    <3>3. x[2] = y[2]
      BY <1>7, <2>4, <3>1, <3>2
    <3>4. QED
      BY <1>4, <2>4, <3>3
  <2>5. QED
    BY <1>4, <1>11, <2>1, <2>2, <2>3, <2>4
<1>12. QED
  BY <1>8, <1>9, <1>10, <1>11 DEF Accounted

LEMMA OneOf ==
    ASSUME NEW T, NEW v, v \in Seq(T), NEW i, i \in 1 .. Len(v)
    PROVE  SubSeq(v, i, i) = <<v[i]>>
<1>1. i \in Int /\ (i - i) + 1 = 1 /\ (i + 1) - 1 = i /\ v[i] \in T
  OBVIOUS
<1>2. \A j \in i .. i : v[j] \in T
  BY <1>1
<1>3. PICK w : w = SubSeq(v, i, i)
  OBVIOUS
<1>4. w \in Seq(T) /\ Len(w) = 1 /\ w[1] = v[i]
  BY <1>1, <1>2, <1>3, SubSeqProperties
<1>5. w = <<v[i]>>
  BY <1>1, <1>4
<1>6. QED
  BY <1>3, <1>5

\* The references cut from a value of IDREFS are IDs only when there are at most
\* two, and then they are the ones in it.
LEMMA RefsInAre ==
    ASSUME NEW T, NEW v \in Seq(T), NEW ids, RefsIn(v) \subseteq ids,
           \A w \in ids : Len(w) <= 1
    PROVE  \A k \in DOMAIN v : <<v[k]>> \in ids
<1>1. PICK n \in Nat : n = Len(v) /\ DOMAIN v = 1 .. n /\ \A j \in 1 .. n : v[j] \in T
  OBVIOUS
<1>2. \A i \in 1 .. n - 1 : SubSeq(v, i, Min({2 * i - 1, n})) \in ids
  BY <1>1 DEF RefsIn
<1>3. n # 0 => SubSeq(v, n, n) \in ids
  BY <1>1 DEF RefsIn
<1>4. n <= 2
  <2> SUFFICES ASSUME n > 2 PROVE FALSE
    BY <1>1
  <2>1. 2 \in 1 .. n - 1 /\ 2 * 2 - 1 = 3 /\ 3 <= n
    BY <1>1
  <2>2. Min({3, n}) = 3
    BY <1>1, <2>1 DEF Min
  <2>3. PICK w : w = SubSeq(v, 2, 3)
    OBVIOUS
  <2>4. w \in ids
    BY <1>2, <2>1, <2>2, <2>3
  <2>5. \A j \in 2 .. 3 : v[j] \in T
    BY <1>1, <2>1
  <2>6. Len(w) = 2
    BY <2>3, <2>5, SubSeqProperties
  <2>7. ~(2 <= 1)
    OBVIOUS
  <2>8. QED
    BY <2>4, <2>6, <2>7
<1>5. ASSUME NEW k \in 1 .. n PROVE <<v[k]>> \in ids
  <2>1. SubSeq(v, k, k) = <<v[k]>>
    <3>1. v \in Seq(T) /\ k \in 1 .. Len(v)
      BY <1>1
    <3>2. QED
      BY <3>1, OneOf
  <2>2. CASE k = n
    <3>1. n # 0
      BY <2>2
    <3>2. SubSeq(v, k, k) \in ids
      BY <1>3, <2>2, <3>1
    <3>3. QED
      BY <2>1, <3>2
  <2>3. CASE k # n
    <3>1. k = 1 /\ n = 2
      BY <1>1, <1>4, <2>3
    <3>2. Min({2 * 1 - 1, n}) = 1 /\ 1 \in 1 .. n - 1
      BY <3>1 DEF Min
    <3>3. QED
      BY <1>2, <2>1, <3>1, <3>2
  <2>4. QED
    BY <2>2, <2>3
<1>6. QED
  BY <1>1, <1>5

\* An end tag leaves names and attributes alone.
EndedStep(d, n, c, e) == e = [d EXCEPT ![n].open = FALSE, ![n].closed = c]

LEMMA EndedAlike ==
    ASSUME NEW d, IsHistory(d), NEW n, NEW c, NEW e, EndedStep(d, n, c, e)
    PROVE  Extends(d, e) /\ Len(e) = Len(d)
<1>1. PICK m \in Nat : m = Len(d) /\ \A i \in 1 .. m : IsRead(d[i])
  BY DEF IsHistory, IsList
<1>2. PICK g : g = [[d[n] EXCEPT !.open = FALSE] EXCEPT !.closed = c]
  OBVIOUS
<1>3. EntryStep(d, n, g, e)
  BY <1>1, <1>2 DEF EndedStep, EntryStep, IsHistory, IsList
<1>4. Len(e) = m /\ \A i \in 1 .. m : e[i] = IF i = n THEN g ELSE d[i]
  BY <1>1, <1>3, ListChanged DEF IsHistory
<1>5. ASSUME n \in 1 .. m
      PROVE  g.name = d[n].name /\ g.atts = d[n].atts /\ g.opened = d[n].opened
  <2>1. PICK x, a, f, t, o, p, q :
          d[n] = [name |-> x, atts |-> a, children |-> f, data |-> t, open |-> o,
                  opened |-> p, closed |-> q]
    BY <1>1, <1>5 DEF IsRead
  <2>2. QED
    BY <1>2, <2>1
<1>6. \A i \in 1 .. m : /\ e[i].name = d[i].name /\ e[i].atts = d[i].atts
                        /\ e[i].opened = d[i].opened
  BY <1>4, <1>5
<1>7. QED
  BY <1>1, <1>4, <1>6 DEF Extends

\* A step that keeps the tags and the account of IDs.
Quiet ==
    /\ UNCHANGED scenario /\ Going(imp) /\ Onward(imp, imp')
    /\ imp'.ids = imp.ids /\ imp'.unresolved = imp.unresolved
    /\ Extends(doc, doc') /\ Len(doc') = Len(doc)

LEMMA QuietEndTag == NestInv /\ EndTag => Quiet
<1> SUFFICES ASSUME NestInv, EndTag PROVE Quiet
  OBVIOUS
<1>1. PICK b1, b2, p, n, c :
        /\ b1 \in BOOLEAN /\ b2 \in BOOLEAN
        /\ Going(imp) /\ UNCHANGED scenario
        /\ p = NotWellFormed(imp, b1) /\ imp' = NotValid(p, b2)
        /\ doc' = doc \/ EndedStep(doc, n, c, doc')
  <2>1. PICK tag \in Lookahead :
          LET wrong == Top.kind # "element" \/ Top.name # tag.name
          IN  /\ Going(imp) /\ UNCHANGED scenario
              /\ imp' = NotValid(NotWellFormed(imp, wrong),
                                 validating /\ IsDeclared(Top.name) /\ ~Top.valid.done)
              /\ doc' = IF wrong THEN doc
                        ELSE [doc EXCEPT ![Top.node].open = FALSE, ![Top.node].closed = Source]
    BY DEF EndTag
  <2>2. PICK wrong \in BOOLEAN : wrong = (Top.kind # "element" \/ Top.name # tag.name)
    OBVIOUS
  <2>3. PICK b2 \in BOOLEAN : b2 <=> validating /\ IsDeclared(Top.name) /\ ~Top.valid.done
    OBVIOUS
  <2>p. PICK p : p = NotWellFormed(imp, wrong)
    OBVIOUS
  <2>4. imp' = NotValid(p, b2)
    BY <2>1, <2>2, <2>3, <2>p
  <2>5. \/ doc' = doc
        \/ doc' = [doc EXCEPT ![Top.node].open = FALSE, ![Top.node].closed = Source]
    BY <2>1
  <2>6. PICK n, c : doc' = doc \/ EndedStep(doc, n, c, doc')
    BY <2>5 DEF EndedStep
  <2>7. Going(imp) /\ UNCHANGED scenario
    BY <2>1
  <2>8. QED
    BY <2>p, <2>4, <2>6, <2>7
<1>2. IsHistory(doc) /\ IsImp(imp)
  BY DEF NestInv
<1>3. /\ IsImp(p) /\ Onward(imp, p) /\ p.ids = imp.ids /\ p.unresolved = imp.unresolved
  BY <1>1, <1>2, Checked
<1>4. /\ Onward(p, imp') /\ imp'.ids = p.ids /\ imp'.unresolved = p.unresolved
  BY <1>1, <1>3, Checked
<1>5. Extends(doc, doc') /\ Len(doc') = Len(doc)
  <2>1. CASE doc' = doc
    BY <1>2, <2>1, ExtendsItself
  <2>2. CASE EndedStep(doc, n, c, doc')
    BY <1>2, <2>2, EndedAlike
  <2>3. QED
    BY <1>1, <2>1, <2>2
<1>6. QED
  BY <1>1, <1>3, <1>4, <1>5 DEF Quiet, Onward

LEMMA QuietData == NestInv /\ Data => Quiet
<1> SUFFICES ASSUME NestInv, Data PROVE Quiet
  OBVIOUS
<1>1. PICK bad, kinds :
        /\ bad \in BOOLEAN
        /\ Going(imp) /\ imp' = NotValid(imp, bad)
        /\ doc' = WithData(kinds) /\ UNCHANGED scenario
  <2>1. PICK tok \in Lookahead :
          /\ Going(imp) /\ imp' = NotValid(imp, Misplaced(OwnerSpec, tok.t))
          /\ doc' = WithData({tok.t}) /\ UNCHANGED scenario
    BY DEF Data
  <2>2. PICK bad \in BOOLEAN : bad <=> Misplaced(OwnerSpec, tok.t)
    OBVIOUS
  <2>3. NotValid(imp, bad) = NotValid(imp, Misplaced(OwnerSpec, tok.t))
    BY <2>2 DEF NotValid
  <2>4. QED
    BY <2>1, <2>3
<1>2. QED
  BY <1>1, Checked, Recorded DEF NestInv, Quiet

LEMMA QuietMisc == NestInv /\ Misc => Quiet
<1> SUFFICES ASSUME NestInv, Misc PROVE Quiet
  OBVIOUS
<1>1. PICK bad \in BOOLEAN : /\ Going(imp) /\ imp' = NotWellFormed(imp, bad)
                             /\ UNCHANGED <<scenario, frames, doc>>
  BY DEF Misc
<1>2. QED
  BY <1>1, Checked, ExtendsItself DEF NestInv, Quiet

LEMMA QuietEntityEnd == NestInv /\ EntityEnd => Quiet
<1> SUFFICES ASSUME NestInv, EntityEnd PROVE Quiet
  OBVIOUS
<1>1. PICK bad \in BOOLEAN : /\ Going(imp) /\ imp' = NotWellFormed(imp, bad)
                             /\ UNCHANGED <<scenario, doc>>
  BY DEF EntityEnd
<1>2. QED
  BY <1>1, Checked, ExtendsItself DEF NestInv, Quiet

LEMMA QuietReference == NestInv /\ Reference => Quiet
<1> SUFFICES ASSUME NestInv, Reference PROVE Quiet
  OBVIOUS
<1>1. PICK b1, b2, n, kinds, empty, q :
        /\ b1 \in BOOLEAN /\ b2 \in BOOLEAN
        /\ Going(imp) /\ UNCHANGED scenario
        /\ empty = NotValid(imp, b1) /\ q = CheckEntity(empty, n)
        /\ imp' = NotValid(q, b2) /\ doc' = WithData(kinds)
  <2>1. PICK tok \in Lookahead :
          LET text    == IF tok.name \in DOMAIN dtd.entities
                         THEN dtd.entities[tok.name].text ELSE <<>>
              onlyspace == OwnerSpec = "Children" /\ text = <<Token("space", "")>>
              empty   == NotValid(imp, OwnerSpec = "Empty")
          IN  /\ Going(imp)
              /\ imp' = NotValid(CheckEntity(empty, tok.name), onlyspace)
              /\ doc' = WithData({"ref"} \cup {j \in {"spaceref"} : onlyspace})
              /\ UNCHANGED scenario
    BY DEF Reference
  <2>2. PICK text : text = IF tok.name \in DOMAIN dtd.entities
                           THEN dtd.entities[tok.name].text ELSE <<>>
    OBVIOUS
  <2>3. PICK b1 \in BOOLEAN : b1 = (OwnerSpec = "Empty")
    OBVIOUS
  <2>4. PICK b2 \in BOOLEAN : b2 = (OwnerSpec = "Children" /\ text = <<Token("space", "")>>)
    OBVIOUS
  <2>5. PICK kinds : kinds = {"ref"} \cup {j \in {"spaceref"} : b2}
    OBVIOUS
  <2>6. PICK empty : empty = NotValid(imp, b1)
    OBVIOUS
  <2>7. /\ Going(imp) /\ UNCHANGED scenario
        /\ imp' = NotValid(CheckEntity(empty, tok.name), b2) /\ doc' = WithData(kinds)
    BY <2>1, <2>2, <2>3, <2>4, <2>5, <2>6
  <2>8. QED
    BY <2>6, <2>7
<1>2. IsImp(imp)
  BY DEF NestInv
<1>3. /\ IsImp(empty) /\ Onward(imp, empty)
      /\ empty.ids = imp.ids /\ empty.unresolved = imp.unresolved
  BY <1>1, <1>2, Checked
<1>4. /\ IsImp(q) /\ Onward(empty, q) /\ q.ids = empty.ids /\ q.unresolved = empty.unresolved
  <2>1. CASE n \in EntitiesOnStack \/ n \notin DOMAIN dtd.entities
    BY <1>1, <1>3, <2>1, Checked DEF CheckEntity
  <2>2. CASE ~(n \in EntitiesOnStack \/ n \notin DOMAIN dtd.entities)
    <3>1. PICK c1, c2, alone :
            /\ c1 \in BOOLEAN /\ c2 \in BOOLEAN
            /\ alone = NotValid(empty, c1) /\ q = NotWellFormed(alone, c2)
      BY <1>1, <2>2 DEF CheckEntity
    <3>2. /\ IsImp(alone) /\ Onward(empty, alone)
          /\ alone.ids = empty.ids /\ alone.unresolved = empty.unresolved
      BY <1>3, <3>1, Checked
    <3>3. /\ IsImp(q) /\ Onward(alone, q)
          /\ q.ids = alone.ids /\ q.unresolved = alone.unresolved
      BY <3>1, <3>2, Checked
    <3>4. QED
      BY <3>2, <3>3 DEF Onward
  <2>3. QED
    BY <2>1, <2>2
<1>5. Onward(q, imp') /\ imp'.ids = q.ids /\ imp'.unresolved = q.unresolved
  BY <1>1, <1>4, Checked
<1>6. Extends(doc, doc') /\ Len(doc') = Len(doc)
  BY <1>1, Recorded DEF NestInv
<1>7. QED
  BY <1>1, <1>3, <1>4, <1>5, <1>6 DEF Quiet, Onward

-----------------------------------------------------------------------------

\* The invariant in the declarations of the next state, which are the same.
LEMMA AccountedLater ==
    ASSUME UNCHANGED scenario, Accounted(doc', imp')
    PROVE  Accounted(doc, imp)'
<1>1. dtd' = dtd
  BY DEF dtd
<1>2. \A tag : TagFits(tag)' <=> TagFits(tag)
  BY <1>1, SameDeclarations DEF Unchanged, TagFits
<1>3. \A tag : \A j : IdsAt(tag, j)' = IdsAt(tag, j) /\ RefsAt(tag, j)' = RefsAt(tag, j)
  BY SameDeclarations DEF Unchanged
<1>4. QED
  BY <1>2, <1>3 DEF Accounted, PlacesIn

LEMMA AttrNext ==
    ASSUME UNCHANGED scenario, AttrInv, NestInv', \A i \in 1 .. Len(doc') : IsTag(doc'[i]),
           validating /\ (Going(imp') \/ Accepted(imp')) =>
                (dtd.has => IsDeclared(dtd.root)) /\ Accounted(doc', imp'),
           validating /\ Accepted(imp') => imp'.unresolved = {}
    PROVE  AttrInv'
<1>1. dtd' = dtd /\ validating' = validating
  BY DEF dtd, validating
<1>2. IsDeclared(dtd.root)' <=> IsDeclared(dtd.root)
  BY <1>1 DEF IsDeclared
<1>3. Accounted(doc', imp') => Accounted(doc, imp)'
  BY AccountedLater
<1>4. QED
  BY <1>1, <1>2, <1>3 DEF AttrInv, Going, Accepted, IsTag

\* A parser that has been told of nothing wrong keeps its account.
LEMMA AttrQuiet ==
    ASSUME AttrInv, Quiet, NestInv'
    PROVE  AttrInv'
<1>1. PICK n \in Nat : n = Len(doc) /\ n = Len(doc')
  BY DEF AttrInv, NestInv, IsHistory, IsList, Quiet
<1>2. \A i \in 1 .. n : doc'[i].name = doc[i].name /\ doc'[i].atts = doc[i].atts
  BY <1>1 DEF Quiet, Extends
<1>3. \A i \in 1 .. Len(doc') : IsTag(doc'[i])
  BY <1>1, <1>2 DEF AttrInv, IsTag
<1>4. ~Accepted(imp) /\ ~Accepted(imp') /\ (Going(imp') => Going(imp))
  BY DEF Quiet, Onward, Accepted, Going
<1>5. Accounted(doc, imp) => Accounted(doc', imp')
  BY <1>1, <1>2, AccountedAlike DEF Quiet
<1>6. QED
  BY <1>3, <1>4, <1>5, AttrNext DEF AttrInv, Quiet

LEMMA AttrInit == Init => AttrInv
<1> SUFFICES ASSUME Init PROVE AttrInv
  OBVIOUS
<1> DEFINE p == [verdict |-> "parsing", reported |-> FALSE, ids |-> {}, unresolved |-> {}]
<1>1. PICK bad \in BOOLEAN : bad <=> dtd.has /\ ~IsDeclared(dtd.root) /\ validating
  OBVIOUS
<1>2. imp = NotValid(p, bad)
  BY <1>1 DEF Init
<1>3. IsImp(p) /\ ~Accepted(p) /\ p.ids = {} /\ p.unresolved = {}
  BY DEF IsImp, Imps, Verdicts, Accepted
<1> HIDE DEF p
<1>4. /\ ~Accepted(imp) /\ imp.ids = {} /\ imp.unresolved = {}
      /\ Going(imp) /\ validating => ~bad
  BY <1>2, <1>3, Checks DEF Onward
<1>5. Len(doc) = 0 /\ PlacesIn(doc) = {}
  <2>1. Len(doc) = 0
    BY DEF Init
  <2>2. QED
    BY <2>1 DEF PlacesIn
<1>6. Accounted(doc, imp)
  BY <1>4, <1>5 DEF Accounted
<1>7. QED
  BY <1>1, <1>4, <1>5, <1>6, NestInit DEF AttrInv, Accepted

LEMMA AttrStartTag == AttrInv /\ StartTag => AttrInv'
<1> SUFFICES ASSUME AttrInv, StartTag PROVE AttrInv'
  OBVIOUS
<1>1. PICK tag, a, r :
        /\ tag \in Lookahead
        /\ Going(imp) /\ UNCHANGED scenario
        /\ imp' = IF a.ub THEN [imp EXCEPT !.verdict = "undefined"] ELSE CheckTag(tag, a)
        /\ doc' = Append(WithChild(tag.name), r)
        /\ IsRead(r) /\ r.closed = r.opened /\ r.name = tag.name /\ r.atts = tag.atts
  <2>1. PICK tag \in Lookahead :
          LET a == ValidatorAllow(frames[Owner].valid, tag.name)
          IN  /\ Going(imp) /\ UNCHANGED scenario
              /\ imp' = IF a.ub THEN [imp EXCEPT !.verdict = "undefined"] ELSE CheckTag(tag, a)
              /\ doc' = Append(WithChild(tag.name),
                               [name |-> tag.name, atts |-> tag.atts, children |-> <<>>,
                                data |-> {}, open |-> ~tag.empty, opened |-> Source,
                                closed |-> Source])
    BY DEF StartTag
  <2>2. PICK r : r = [name |-> tag.name, atts |-> tag.atts, children |-> <<>>, data |-> {},
                      open |-> ~tag.empty, opened |-> Source, closed |-> Source]
    OBVIOUS
  <2>3. IsRead(r) /\ r.closed = r.opened /\ r.name = tag.name /\ r.atts = tag.atts
    BY <2>2 DEF IsRead
  <2>4. PICK a : a = ValidatorAllow(frames[Owner].valid, tag.name)
    OBVIOUS
  <2>5. /\ Going(imp) /\ UNCHANGED scenario
        /\ imp' = IF a.ub THEN [imp EXCEPT !.verdict = "undefined"] ELSE CheckTag(tag, a)
        /\ doc' = Append(WithChild(tag.name), r)
    BY <2>1, <2>2, <2>4
  <2>6. QED
    BY <2>3, <2>5
<1>2. NestInv /\ NestInv' /\ IsImp(imp)
  BY NestStartTag DEF AttrInv, NestInv
<1>3. IsTag(tag) /\ IsTag(r) /\ Len(tag.atts) \in Nat
  <2>1. IsTag(tag)
    BY <1>1, <1>2, NextToken
  <2>2. QED
    BY <1>1, <2>1 DEF IsTag
<1>4. PICK w : w = WithChild(tag.name)
  OBVIOUS
<1>5. IsHistory(doc) /\ IsHistory(w) /\ Extends(doc, w) /\ Len(w) = Len(doc)
  BY <1>2, <1>4, Recorded DEF NestInv
<1>6. /\ IsHistory(doc') /\ Extends(w, doc')
      /\ Len(doc') = Len(doc) + 1 /\ doc'[Len(doc) + 1] = r
  BY <1>1, <1>4, <1>5, HistoryAppended
<1>7. Extends(doc, doc')
  BY <1>5, <1>6, ExtendsTransitive
<1>8. PICK n \in Nat : n = Len(doc) /\ Len(doc') = n + 1 /\ doc'[n + 1] = r
  BY <1>5, <1>6 DEF IsHistory, IsList
<1>9. \A i \in 1 .. n : doc'[i].name = doc[i].name /\ doc'[i].atts = doc[i].atts
  BY <1>7, <1>8 DEF Extends
<1>10. \A i \in 1 .. n + 1 : i \in 1 .. n \/ i = n + 1
  OBVIOUS
<1>11. \A i \in 1 .. Len(doc') : IsTag(doc'[i])
  <2>1. \A i \in 1 .. n : IsTag(doc'[i])
    BY <1>8, <1>9 DEF AttrInv, IsTag
  <2>2. QED
    BY <1>3, <1>8, <1>10, <2>1
<1>12. ~Accepted(imp') /\ (Going(imp') => ~a.ub /\ imp' = CheckTag(tag, a))
  <2>1. ~Accepted(imp)
    BY <1>1 DEF Accepted, Going
  <2>2. CASE a.ub
    BY <1>1, <1>2, <2>2 DEF Accepted, Going, IsImp, Imps
  <2>3. CASE ~a.ub
    BY <1>1, <1>2, <1>3, <2>1, <2>3, TagChecked DEF Onward
  <2>4. QED
    BY <2>2, <2>3
<1>13. ASSUME validating, Going(imp') PROVE Accounted(doc', imp')
  <2>1. PICK q : q = CheckTag(tag, a) /\ q = imp'
    BY <1>12, <1>13
  <2>2. /\ Taken(imp, q, tag, Len(tag.atts)) /\ RequiredGiven(tag)
        /\ dtd.has => IsDeclared(tag.name)
    BY <1>2, <1>3, <1>13, <2>1, TagChecked
  <2>3. \A j : /\ Fits(r, j) <=> Fits(tag, j)
               /\ IdsAt(r, j) = IdsAt(tag, j) /\ RefsAt(r, j) = RefsAt(tag, j)
    BY <1>1 DEF Fits, IdsAt, RefsAt, DeclOf
  <2>4. Taken(imp, q, r, Len(r.atts))
    BY <1>1, <2>2, <2>3 DEF Taken
  <2>5. TagFits(r)
    BY <1>1, <2>2, <2>3 DEF TagFits, RequiredGiven, Given, Taken
  <2>6. Accounted(doc, imp)
    BY <1>1, <1>13 DEF AttrInv
  <2>7. PICK e : e = doc'
    OBVIOUS
  <2>8. Accounted(e, q)
    BY <1>1, <1>3, <1>8, <1>9, <2>4, <2>5, <2>6, <2>7, AccountedNext
  <2>9. QED
    BY <2>1, <2>7, <2>8
<1>14. QED
  BY <1>1, <1>2, <1>11, <1>12, <1>13, AttrNext DEF AttrInv

LEMMA AttrDocumentEnd == AttrInv /\ DocumentEnd => AttrInv'
<1> SUFFICES ASSUME AttrInv, DocumentEnd PROVE AttrInv'
  OBVIOUS
<1>1. PICK b1, b2, p, q :
        /\ b1 \in BOOLEAN /\ b2 \in BOOLEAN
        /\ Going(imp) /\ p = NotWellFormed(imp, b1) /\ q = NotValid(p, b2)
        /\ b2 <=> imp.unresolved # {}
        /\ imp' = IF Going(q) THEN [q EXCEPT !.verdict = "accepted"] ELSE q
        /\ UNCHANGED <<scenario, frames, doc>>
  BY DEF DocumentEnd
<1>2. NestInv /\ NestInv' /\ IsImp(imp)
  BY NestDocumentEnd DEF AttrInv, NestInv
<1>3. /\ IsImp(p) /\ Onward(imp, p) /\ p.ids = imp.ids /\ p.unresolved = imp.unresolved
  BY <1>1, <1>2, Checks
<1>4. /\ IsImp(q) /\ Onward(p, q) /\ q.ids = p.ids /\ q.unresolved = p.unresolved
      /\ Going(q) /\ validating => ~b2
  <2>1. IsImp(p) /\ b2 \in BOOLEAN /\ q = NotValid(p, b2)
    BY <1>1, <1>3
  <2> HIDE <1>1, <1>3
  <2>2. QED
    BY <2>1, Checks
<1>5. /\ imp'.ids = imp.ids /\ imp'.unresolved = imp.unresolved
      /\ Going(imp') \/ Accepted(imp') => Going(q)
  <2>1. ~Accepted(q)
    BY <1>1, <1>3, <1>4 DEF Onward, Accepted, Going
  <2>2. QED
    BY <1>1, <1>3, <1>4, <2>1 DEF IsImp, Imps
<1>6. PICK n \in Nat : n = Len(doc) /\ doc' = doc
  BY <1>1, <1>2 DEF NestInv, IsHistory, IsList
<1>7. Accounted(doc, imp) => Accounted(doc', imp')
  BY <1>5, <1>6, AccountedAlike
<1>8. validating /\ (Going(imp') \/ Accepted(imp')) =>
            (dtd.has => IsDeclared(dtd.root)) /\ Accounted(doc', imp')
  BY <1>1, <1>7 DEF AttrInv
<1>9. validating /\ Accepted(imp') => imp'.unresolved = {}
  BY <1>1, <1>4, <1>5
<1>10. \A i \in 1 .. Len(doc') : IsTag(doc'[i])
  BY <1>6 DEF AttrInv
<1>11. QED
  BY <1>1, <1>2, <1>8, <1>9, <1>10, AttrNext

-----------------------------------------------------------------------------

\* The places of the property, and what stands there, by the places of the account.
LEMMA SamePlaces ==
    ASSUME NestInv, validating, \A i \in 1 .. Len(doc) : IsTag(doc[i]), Accounted(doc, imp)
    PROVE  /\ DOMAIN doc = 1 .. Len(doc)
           /\ \A i \in 1 .. Len(doc) : /\ AttributesFit(doc[i])
                                       /\ DOMAIN doc[i].atts = 1 .. Len(doc[i].atts)
           /\ \A types : \A x : x \in Places(types) <=>
                    x \in PlacesIn(doc) /\ DeclOf(doc[x[1]], x[2]).type \in types
<1>1. DOMAIN doc = 1 .. Len(doc)
  BY ListInSeq DEF NestInv, IsHistory
<1>2. \A i \in 1 .. Len(doc) : DOMAIN doc[i].atts = 1 .. Len(doc[i].atts)
  BY DEF IsTag
<1>3. \A e, n : AttributeDecl(e, n) # NoDecl =>
                    n \in DOMAIN get_element(e).atts /\ AttributeDecl(e, n) = get_element(e).atts[n]
  BY DEF AttributeDecl
<1>4. \A i \in 1 .. Len(doc) : \A j \in 1 .. Len(doc[i].atts) :
        LET n == doc[i].atts[j].name
        IN  /\ Fits(doc[i], j) /\ n \in DOMAIN get_element(doc[i].name).atts
            /\ DeclOf(doc[i], j) = get_element(doc[i].name).atts[n]
  BY <1>3 DEF Accounted, TagFits, Fits, DeclOf
<1>5. ASSUME NEW i \in 1 .. Len(doc) PROVE AttributesFit(doc[i])
  <2> DEFINE e == doc[i]
             atts == get_element(e.name).atts
  <2>1. ASSUME NEW j \in DOMAIN e.atts
        PROVE  /\ e.atts[j].name \in DOMAIN atts
               /\ ValidateValue(atts[e.atts[j].name], e.atts[j].value)
               /\ atts[e.atts[j].name].type \in {"IDREF", "IDREFS"} => e.atts[j].value # <<>>
    BY <1>2, <1>4 DEF Fits
  <2>2. ASSUME NEW n \in DOMAIN atts, atts[n].default = "Required"
        PROVE  \E j \in DOMAIN e.atts : e.atts[j].name = n
    BY <2>2 DEF Accounted, TagFits, RequiredGiven, Given
  <2>3. QED
    BY <2>1, <2>2 DEF AttributesFit
<1>6. ASSUME NEW types, NEW x
      PROVE  x \in Places(types) <=>
                    x \in PlacesIn(doc) /\ DeclOf(doc[x[1]], x[2]).type \in types
  <2>1. ASSUME x \in Places(types)
        PROVE  x \in PlacesIn(doc) /\ DeclOf(doc[x[1]], x[2]).type \in types
    <3>1. PICK i \in 1 .. Len(doc) :
            /\ x \in {i} \X DOMAIN doc[i].atts
            /\ get_element(doc[i].name).atts[doc[i].atts[x[2]].name].type \in types
      BY <1>1, <2>1 DEF Places
    <3>2. x = <<i, x[2]>> /\ x[1] = i /\ x[2] \in 1 .. Len(doc[i].atts)
      BY <1>2, <3>1
    <3>3. QED
      BY <1>4, <3>1, <3>2 DEF PlacesIn
  <2>2. ASSUME x \in PlacesIn(doc), DeclOf(doc[x[1]], x[2]).type \in types
        PROVE  x \in Places(types)
    <3>1. PICK i \in 1 .. Len(doc), j \in Nat : x = <<i, j>> /\ j \in 1 .. Len(doc[i].atts)
      <4>1. x \in (1 .. Len(doc)) \X Nat /\ x[2] \in 1 .. Len(doc[x[1]].atts)
        BY <2>2 DEF PlacesIn
      <4>2. QED
        BY <4>1
    <3>2. LET n == doc[i].atts[j].name
              atts == get_element(doc[i].name).atts
          IN  n \in DOMAIN atts /\ atts[n].type \in types
      BY <1>4, <2>2, <3>1
    <3>3. QED
      BY <1>1, <1>2, <3>1, <3>2 DEF Places
  <2>3. QED
    BY <2>1, <2>2
<1>7. QED
  BY <1>1, <1>2, <1>5, <1>6

\* The account is the property: an ID is in one place, and has one name at most, so
\* that what is referred to are the names in a value.
LEMMA AttrEnough == AttrInv => AttributesRight
<1> SUFFICES ASSUME AttrInv, validating, imp.verdict = "accepted"
             PROVE  /\ dtd.has => IsDeclared(dtd.root)
                    /\ \A i \in DOMAIN doc : /\ dtd.has => IsDeclared(doc[i].name)
                                             /\ AttributesFit(doc[i])
                    /\ UniqueIds
                    /\ RefsResolved
  BY DEF AttributesRight
<1>1. /\ NestInv /\ Accounted(doc, imp) /\ imp.unresolved = {}
      /\ dtd.has => IsDeclared(dtd.root)
      /\ \A i \in 1 .. Len(doc) : IsTag(doc[i])
  BY DEF AttrInv
<1>2. /\ DOMAIN doc = 1 .. Len(doc)
      /\ \A i \in 1 .. Len(doc) : AttributesFit(doc[i])
      /\ \A types : \A x : x \in Places(types) <=>
                x \in PlacesIn(doc) /\ DeclOf(doc[x[1]], x[2]).type \in types
  BY <1>1, SamePlaces
<1>3. \A i \in 1 .. Len(doc) : dtd.has => IsDeclared(doc[i].name)
  BY <1>1 DEF Accounted, TagFits
<1>4. \A x \in PlacesIn(doc) :
        /\ x[1] \in 1 .. Len(doc) /\ x[2] \in 1 .. Len(doc[x[1]].atts)
        /\ Fits(doc[x[1]], x[2])
        /\ Value(x) = doc[x[1]].atts[x[2]].value /\ Value(x) \in Seq(ToSet(Value(x)))
  <2>1. ASSUME NEW x \in PlacesIn(doc)
        PROVE  x[1] \in 1 .. Len(doc) /\ x[2] \in 1 .. Len(doc[x[1]].atts)
    BY DEF PlacesIn
  <2>2. ASSUME NEW x \in PlacesIn(doc) PROVE doc[x[1]].atts[x[2]] \in ToSet(doc[x[1]].atts)
    BY <1>1, <2>1 DEF IsTag, ToSet
  <2>3. QED
    BY <1>1, <2>1, <2>2 DEF Value, IsTag, Accounted, TagFits
<1>5. \A x \in Places({"ID"}) : /\ x \in PlacesIn(doc) /\ IdsAt(doc[x[1]], x[2]) = {Value(x)}
                               /\ Len(Value(x)) <= 1
  <2> SUFFICES ASSUME NEW x \in Places({"ID"})
               PROVE  /\ x \in PlacesIn(doc) /\ IdsAt(doc[x[1]], x[2]) = {Value(x)}
                      /\ Len(Value(x)) <= 1
    OBVIOUS
  <2>1. PICK d : d = DeclOf(doc[x[1]], x[2])
    OBVIOUS
  <2>2. x \in PlacesIn(doc) /\ d.type = "ID"
    BY <1>2, <2>1
  <2>3. ValidateValue(d, Value(x)) /\ Value(x) = doc[x[1]].atts[x[2]].value
    BY <1>4, <2>1, <2>2 DEF Fits
  <2>4. Len(Value(x)) <= 1
    BY <2>2, <2>3 DEF ValidateValue
  <2>5. IdsAt(doc[x[1]], x[2]) = {Value(x)}
    BY <2>1, <2>2, <2>3 DEF IdsAt, IdsOf
  <2>6. QED
    BY <2>2, <2>4, <2>5
<1>6. \A x \in PlacesIn(doc) : \A v \in IdsAt(doc[x[1]], x[2]) :
            x \in Places({"ID"}) /\ v = Value(x)
  BY <1>2, <1>4 DEF IdsAt, IdsOf
<1>7. UniqueIds
  <2> SUFFICES ASSUME NEW x \in Places({"ID"}), NEW y \in Places({"ID"}), Value(x) = Value(y)
               PROVE  x = y
    BY DEF UniqueIds
  <2>1. QED
    BY <1>1, <1>5 DEF Accounted
<1>8. \A v \in imp.ids : \E y \in Places({"ID"}) : v = Value(y)
  BY <1>1, <1>6 DEF Accounted
<1>9. \A v \in imp.ids : Len(v) <= 1
  BY <1>5, <1>8
<1>10. ASSUME NEW x \in Places({"IDREF", "IDREFS"}), NEW k \in DOMAIN Value(x)
       PROVE  \E y \in Places({"ID"}) : Value(y) = <<Value(x)[k]>>
  <2>1. PICK v, T : v = Value(x) /\ v \in Seq(T) /\ x \in PlacesIn(doc)
    BY <1>2, <1>4
  <2>2. PICK d : d = DeclOf(doc[x[1]], x[2])
    OBVIOUS
  <2>3. d.type \in {"IDREF", "IDREFS"} /\ RefsOf(d, v) \subseteq imp.ids /\ ValidateValue(d, v)
    BY <1>1, <1>2, <1>4, <2>1, <2>2 DEF Accounted, RefsAt, Fits
  <2>4. <<v[k]>> \in imp.ids
    <3>1. CASE d.type = "IDREF"
      <4>1. v \in imp.ids /\ Len(v) <= 1
        BY <2>3, <3>1 DEF RefsOf, ValidateValue
      <4>2. v = <<v[k]>>
        <5>1. Len(v) \in Nat /\ k \in 1 .. Len(v) /\ v[k] \in T
          BY <2>1
        <5>2. Len(v) = 1 /\ k = 1
          <6>1. \A n \in Nat : n <= 1 /\ k \in 1 .. n => n = 1 /\ k = 1
            OBVIOUS
          <6>2. Len(v) <= 1
            BY <4>1
          <6>3. QED
            BY <5>1, <6>1, <6>2
        <5>3. QED
          BY <2>1, <5>2
      <4>3. QED
        BY <4>1, <4>2
    <3>2. CASE d.type = "IDREFS"
      <4>1. RefsIn(v) \subseteq imp.ids
        BY <2>3, <3>2 DEF RefsOf
      <4>2. QED
        BY <1>9, <2>1, <4>1, RefsInAre
    <3>3. QED
      BY <2>3, <3>1, <3>2
  <2>5. QED
    BY <1>8, <2>1, <2>4
<1>11. RefsResolved
  BY <1>10 DEF RefsResolved
<1>12. QED
  BY <1>1, <1>2, <1>3, <1>7, <1>11

\* Of a document that a validating parser accepts, whatever the states of the content
\* models answer, the elements and attributes are declared and the values of their
\* types, no ID is given twice, and every ID that is referred to is given, though an
\* ID may come after a reference to it (parser_imp::element, and parse, which looks at
\* m_unresolved_ids at the end).
THEOREM AttributesAreRight == Spec => []AttributesRight
<1>1. NestInv /\ [Next]_vars => NestInv'
  BY NestStep
<1>2. AttrInv /\ [Next]_vars => AttrInv'
  <2> SUFFICES ASSUME AttrInv, [Next]_vars PROVE AttrInv'
    OBVIOUS
  <2>1. NestInv /\ NestInv'
    BY <1>1 DEF AttrInv
  <2>2. CASE StartTag
    BY <2>2, AttrStartTag
  <2>3. CASE EndTag
    BY <2>1, <2>3, QuietEndTag, AttrQuiet
  <2>4. CASE Data
    BY <2>1, <2>4, QuietData, AttrQuiet
  <2>5. CASE Misc
    BY <2>1, <2>5, QuietMisc, AttrQuiet
  <2>6. CASE Reference
    BY <2>1, <2>6, QuietReference, AttrQuiet
  <2>7. CASE EntityEnd
    BY <2>1, <2>7, QuietEntityEnd, AttrQuiet
  <2>8. CASE DocumentEnd
    BY <2>8, AttrDocumentEnd
  <2>9. CASE UNCHANGED vars
    <3>1. UNCHANGED scenario /\ doc' = doc /\ imp' = imp
      BY <2>9 DEF vars
    <3>2. QED
      BY <2>1, <3>1, AttrNext DEF AttrInv, Accepted
  <2>10. QED
    BY <2>2, <2>3, <2>4, <2>5, <2>6, <2>7, <2>8, <2>9 DEF Next, Parse, Finished
<1>3. QED
  BY AttrInit, <1>2, AttrEnough, PTL DEF Spec
=============================================================================
