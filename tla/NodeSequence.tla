---------------------------- MODULE NodeSequence ----------------------------
(***************************************************************************)
(* What zeep::xml::node_list promises: an element's children are a         *)
(* sequence, edited at the place an iterator shows.  No pointer appears    *)
(* here; NodeList.tla is the doubly linked list of node.hpp and node.cpp,  *)
(* and it implements this specification (NodeListProofs.tla).              *)
(*                                                                         *)
(* Where the code departs from what its interface says, the sequence says  *)
(* no more than holds of both: set_content may leave texts that stood      *)
(* right behind another, the second element of a range goes anywhere       *)
(* behind the first, and an iterator moved back from the end, or on from   *)
(* before the first child, may come to rest on what is no element.         *)
(*                                                                         *)
(* What a longer edit leaves is described, not computed: \E new \in        *)
(* {seq'[e]} names the sequence after the step, and the conjuncts under it *)
(* say what holds of it (Part: old nodes, in order).  This specification   *)
(* constrains the steps of an implementation; it is not executed.          *)
(***************************************************************************)
EXTENDS Naturals, SequencesExt

CONSTANTS Elements,   \* the elements that own a list of children
          Nodes,      \* the children there is room for
          Content,    \* strings a node of each kind is made with, and added ones
          NIL         \* no node

VARIABLES seq,        \* the children of each element, in order
          what,       \* kind and text of every node
          it          \* the iterator: its list, its node and its two flags

vars == <<seq, what, it>>

Kinds == {"element", "text", "cdata"}
Unused == [kind |-> "free", text |-> << >>]
IsText(n) == what[n].kind \in {"text", "cdata"}
New(k, s) == [kind |-> k, text |-> s]
Used == UNION {ToSet(seq[e]) : e \in Elements}

(* The iterators the interface hands out.                                  *)
At(e, n, elem)     == [list |-> e, cur |-> n, atEnd |-> n = NIL, elem |-> elem]
Given(e, n, elem)  == [list |-> e, cur |-> n, atEnd |-> TRUE, elem |-> elem]
Before(e, elem)    == [list |-> e, cur |-> NIL, atEnd |-> FALSE, elem |-> elem]

(* The first of s from position i on that an iterator may rest on.         *)
From(s, i, elem) ==
    LET ok == {j \in i..Len(s) : elem => what[s[j]].kind = "element"}
    IN  IF ok = {} THEN NIL ELSE s[Min(ok)]
(* The last of s up to position i that an iterator may rest on.            *)
UpTo(s, i, elem) ==
    LET ok == {j \in 1..i : elem => what[s[j]].kind = "element"}
    IN  IF ok = {} THEN NIL ELSE s[Max(ok)]
Place(s, n) == CHOOSE i \in 1..Len(s) : s[i] = n

Init == /\ seq = [e \in Elements |-> << >>]
        /\ what = [n \in Nodes |-> Unused]
        /\ it \in {At(e, NIL, FALSE) : e \in Elements}

Begin(e, elem) == /\ it' = At(e, From(seq[e], 1, elem), elem)
                  /\ UNCHANGED <<seq, what>>

End(e, elem) == /\ it' = At(e, NIL, elem)
                /\ UNCHANGED <<seq, what>>

(* ++ goes to the next child; at the end it stays, and from before the     *)
(* first it goes to the first, which may be none of its kind.              *)
Advance ==
    LET s  == seq[it.list]
        to == IF it.cur # NIL THEN {From(s, Place(s, it.cur) + 1, it.elem)}
              ELSE IF it.atEnd \/ s = << >> THEN {NIL}
              ELSE {s[1], From(s, 1, it.elem)}
    IN  /\ \E n \in to : it' = At(it.list, n, it.elem)
        /\ UNCHANGED <<seq, what>>

(* -- goes to the previous child; at the end, and where an insertion or an *)
(* erasure left the iterator, it may go to the last one instead.           *)
Retreat ==
    LET s  == seq[it.list]
        i  == IF it.cur = NIL THEN Len(s) + 1 ELSE Place(s, it.cur)
        to == IF it.cur = NIL /\ ~it.atEnd THEN {NIL}
              ELSE {UpTo(s, i - 1, it.elem)} \cup
                   (IF it.atEnd /\ s # << >> THEN {Last(s)} ELSE {})
    IN  /\ \E n \in to : it' = [it EXCEPT !.cur = n, !.atEnd = FALSE]
        /\ UNCHANGED <<seq, what>>

(* A node appears before the one the iterator shows, the next of its kind, *)
(* or at the end; before the first child an iterator shows no place.       *)
Insert(n, k, s) ==
    LET old    == seq[it.list]
        before == IF it.cur = NIL THEN NIL ELSE From(old, Place(old, it.cur), it.elem)
        places == IF before # NIL THEN {Place(old, before)}
                  ELSE IF it.cur = NIL /\ ~it.atEnd THEN 1..(Len(old) + 1)
                  ELSE {Len(old) + 1}
    IN  /\ it' = Given(it.list, n, it.elem)
        /\ what' = [what EXCEPT ![n] = New(k, s)]
        /\ it.elem => k = "element"
        /\ n \notin Used
        /\ \E i \in places : seq' = [seq EXCEPT ![it.list] = InsertAt(old, i, n)]

(* Exactly the node the iterator shows goes, and the iterator shows the    *)
(* one that followed it.                                                   *)
Erase ==
    LET s == seq[it.list]
        i == Place(s, it.cur)
        r == RemoveAt(s, i)
    IN  /\ it.cur # NIL
        /\ what' = [what EXCEPT ![it.cur] = Unused]
        /\ it' = Given(it.list, From(s, i + 1, it.elem), it.elem)
        /\ seq' = [seq EXCEPT ![it.list] = r]

(* r is s without the nodes that are not in T; these keep their order.     *)
Part(r, s, T) ==
    /\ ToSet(r) = ToSet(s) \cap T
    /\ \A i, j \in DOMAIN r : i < j => Place(s, r[i]) < Place(s, r[j])

(* Of these nodes the list keeps its own and the others go; the iterator   *)
(* is renewed.                                                             *)
Keep(e, stays) ==
    LET old  == seq[e]
        gone == ToSet(old) \ stays
    IN  /\ it' = At(e, NIL, FALSE)
        /\ what' = [n \in Nodes |-> IF n \in gone THEN Unused ELSE what[n]]
        /\ \E new \in {seq'[e]} : seq' = [seq EXCEPT ![e] = new] /\ Part(new, old, stays)

Clear(e) == Keep(e, {})
PopFront(e) == seq[e] # << >> /\ Keep(e, Nodes \ {Head(seq[e])})
PopBack(e) == seq[e] # << >> /\ Keep(e, Nodes \ {Last(seq[e])})
EraseElements(e) == Keep(e, {n \in Nodes : what[n].kind # "element"})

(* The two lists trade their contents.                                     *)
Swap(d, e) ==
    /\ d # e
    /\ it' = At(d, NIL, FALSE)
    /\ UNCHANGED what
    /\ seq' = [seq EXCEPT ![d] = seq[e], ![e] = seq[d]]

(* d is given the contents of e, which is left empty.                      *)
MoveAssign(d, e) ==
    /\ d # e
    /\ it' = At(d, NIL, FALSE)
    /\ what' = [n \in Nodes |-> IF n \in ToSet(seq[d]) THEN Unused ELSE what[n]]
    /\ seq' = [seq EXCEPT ![d] = seq[e], ![e] = << >>]

(* d holds new nodes, equal one by one to those of e, which keeps its own. *)
CopyAssign(d, e) ==
    LET s    == seq[e]
        old  == ToSet(seq[d])
    IN  /\ d # e
        /\ it' = At(d, NIL, FALSE)
        /\ \E copy \in {seq'[d]} :
             /\ seq' = [seq EXCEPT ![d] = copy]
             /\ Len(copy) = Len(s)
             /\ IsInjective(copy)
             /\ ToSet(copy) \cap ToSet(s) = {}
             /\ \A i \in DOMAIN s : what'[copy[i]] = what[s[i]]
             /\ what' = [n \in Nodes |-> IF n \in ToSet(copy) THEN what'[n]
                                         ELSE IF n \in old THEN Unused ELSE what[n]]

(* How many texts stand immediately before position i.                     *)
TextsBefore(s, i) ==
    Max({k \in 0..(i - 1) : \A j \in (i - k)..(i - 1) : IsText(s[j])})

(* A new text ends the list.  What was no text stays, and of the texts at  *)
(* most those that stood right behind another.                             *)
SetContent(e, n, s) ==
    LET old   == seq[e]
        texts == {i \in DOMAIN old : IsText(old[i])}
    IN  /\ it' = At(e, NIL, FALSE)
        /\ what'[n] = New("text", s)
        /\ \E new \in {seq'[e]} :
             LET stays == ToSet(Front(new))
                 gone  == ToSet(old) \ stays
             IN  /\ seq' = [seq EXCEPT ![e] = new]
                 /\ new # << >> /\ Last(new) = n
                 /\ Part(Front(new), old, stays)
                 /\ \A i \in DOMAIN old :
                      /\ i \notin texts => old[i] \in stays
                      /\ i \in texts /\ i - 1 \notin texts => old[i] \in gone
                 /\ n \notin Used \ gone
                 /\ what' = [m \in Nodes |-> IF m = n THEN New("text", s)
                                             ELSE IF m \in gone THEN Unused ELSE what[m]]

(* The last child takes the characters if it is a text, else a new text.   *)
AddText(e, n, s) ==
    LET extends == seq[e] # << >> /\ what[Last(seq[e])].kind = "text"
    IN  /\ it' = At(e, NIL, FALSE)
        /\ what' = IF extends THEN [what EXCEPT ![Last(seq[e])].text = @ \o s]
                   ELSE [what EXCEPT ![n] = New("text", s)]
        /\ ~extends => n \notin Used
        /\ seq' = IF extends THEN seq ELSE [seq EXCEPT ![e] = Append(@, n)]

(* Of every run of texts the first remains, with the text of all of it.    *)
FlattenText(e) ==
    LET s       == seq[e]
        first   == {i \in DOMAIN s : ~IsText(s[i]) \/ TextsBefore(s, i) = 0}
        last(i) == Max({j \in i..Len(s) : \A k \in i..j : IsText(s[k])})
        whole(i) == FlattenSeq([j \in 1..(last(i) - i + 1) |-> what[s[i + j - 1]].text])
        own     == ToSet(s)
    IN  /\ it' = At(e, NIL, FALSE)
        /\ what' = [n \in Nodes |->
                      IF n \notin own THEN what[n]
                      ELSE IF Place(s, n) \notin first THEN Unused
                      ELSE IF IsText(n) THEN [what[n] EXCEPT !.text = whole(Place(s, n))]
                      ELSE what[n]]
        /\ \E new \in {seq'[e]} : /\ seq' = [seq EXCEPT ![e] = new]
                                  /\ Part(new, s, {s[i] : i \in first})

(* element::insert(begin(), first, last): two new elements, the first in   *)
(* front of all elements, or at the end, and the second behind it.         *)
InsertRange(e, m, n) ==
    LET s     == seq[e]
        first == From(s, 1, TRUE)
        i     == IF first = NIL THEN Len(s) + 1 ELSE Place(s, first)
    IN  /\ m # n
        /\ it' = At(e, m, TRUE)
        /\ what' = [what EXCEPT ![m] = New("element", << >>), ![n] = New("element", << >>)]
        /\ {m, n} \cap Used = {}
        /\ \E j \in (i + 1)..(Len(s) + 2) :
             seq' = [seq EXCEPT ![e] = InsertAt(InsertAt(s, i, m), j, n)]

Next ==
    \/ \E e \in Elements, elem \in BOOLEAN : Begin(e, elem) \/ End(e, elem)
    \/ Advance \/ Retreat \/ Erase
    \/ \E n \in Nodes, k \in Kinds : \E s \in Content[k] : Insert(n, k, s)
    \/ \E e \in Elements : Clear(e) \/ PopFront(e) \/ PopBack(e)
                            \/ EraseElements(e) \/ FlattenText(e)
    \/ \E d, e \in Elements : Swap(d, e) \/ MoveAssign(d, e) \/ CopyAssign(d, e)
    \/ \E e \in Elements, n \in Nodes, s \in Content.added : SetContent(e, n, s) \/ AddText(e, n, s)
    \/ \E e \in Elements, m, n \in Nodes : InsertRange(e, m, n)

Spec == Init /\ [][Next]_vars
=============================================================================
