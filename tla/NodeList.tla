------------------------------ MODULE NodeList ------------------------------
(***************************************************************************)
(* zeep::xml::node_list and its iterators (node.hpp, node.cpp): children   *)
(* are cells linked by m_next and m_prev, owned by the list whose m_head   *)
(* and m_tail show them.  Two elements' lists are edited by a program that *)
(* holds one iterator and uses it as long as it is valid; what a child     *)
(* element holds itself is left out.  A cell is freed by delete, which     *)
(* also frees every cell that can be reached through its m_next.           *)
(***************************************************************************)
EXTENDS Naturals, SequencesExt

CONSTANTS Elements, NIL,
          Content,    \* strings a node of each kind is made with, and added ones
          Nodes,      \* cells there is memory for
          MaxChars    \* bound on the characters one element's texts hold

N == Cardinality(Nodes)
ASSUME CellsAreFinite == IsFiniteSet(Nodes) /\ NIL \notin Nodes \cup Elements
ASSUME ContentAssumption ==
    \A k \in {"element", "text", "cdata", "added"} : Content[k] \subseteq Seq(STRING)

VARIABLES heap,   \* head and tail of every list; next, prev, parent, what of every cell
          it      \* iterator_impl: m_container, m_current, m_at_end; elem: over elements

vars == <<heap, it>>

Kinds == {"element", "text", "cdata"}
Free == [kind |-> "free", text |-> << >>]

TypeOK ==
    /\ DOMAIN heap = {"head", "tail", "next", "prev", "parent", "what"}
    /\ heap.head \in [Elements -> Nodes \cup {NIL}]
    /\ heap.tail \in [Elements -> Nodes \cup {NIL}]
    /\ heap.next \in [Nodes -> Nodes \cup {NIL}]
    /\ heap.prev \in [Nodes -> Nodes \cup {NIL}]
    /\ heap.parent \in [Nodes -> Elements \cup {NIL}]
    /\ \A n \in Nodes : heap.what[n].kind \in Kinds \cup {"free"}
    /\ it.list \in Elements /\ it.cur \in Nodes \cup {NIL}
    /\ it.atEnd \in BOOLEAN /\ it.elem \in BOOLEAN

-----------------------------------------------------------------------------
(* The cells from n on, along m_next; no more than there is memory for.    *)
Chain(h, n) ==
    LET walk[k \in 0..N] ==      \* n and up to k cells after it
            IF k = 0 THEN << n >>
            ELSE LET s == walk[k - 1]
                     m == h.next[Last(s)]
                 IN  IF m = NIL THEN s ELSE Append(s, m)
    IN  IF n = NIL THEN << >> ELSE walk[N - 1]

IsText(h, n) == n # NIL /\ h.what[n].kind \in {"text", "cdata"}
IsElement(h, n) == n # NIL /\ h.what[n].kind = "element"

(* new: the cell the allocator hands out, and its constructed contents;    *)
(* the pointers of a cell no list holds are null.                          *)
Fresh(h) == {n \in Nodes : h.what[n].kind = "free"}
Room(h, k) == Cardinality(Fresh(h)) >= k
Cell(h) == CHOOSE n \in Fresh(h) : TRUE
Construct(h, n, w) == [h EXCEPT !.what[n] = w]

(* node::~node: the cell and all that follow it are freed.                 *)
Delete(h, n) ==
    IF n = NIL THEN h
    ELSE LET gone == ToSet(Chain(h, n))
             nil(f) == [m \in Nodes |-> IF m \in gone THEN NIL ELSE f[m]]
         IN  [h EXCEPT !.what = [m \in Nodes |-> IF m \in gone THEN Free ELSE @[m]],
                       !.next = nil(@), !.prev = nil(@), !.parent = nil(@)]

(* node::insert_sibling, called on cell p.                                 *)
insert_sibling(h, p, n, before) ==
    LET s    == Chain(h, p)
        last == s[Min({i \in DOMAIN s : h.next[s[i]] \in {NIL, before}})]
        h1   == [h EXCEPT !.next[last] = n, !.prev[n] = last,
                          !.parent[n] = h.parent[p], !.next[n] = before]
    IN  IF before = NIL THEN h1 ELSE [h1 EXCEPT !.prev[before] = n]

(* basic_node_list::insert_impl.                                           *)
insert_impl(h, e, pos, n) ==
    LET h1 == [h EXCEPT !.parent[n] = e]
        hd == h.head[e]
    IN  CASE pos = NIL /\ hd = NIL -> [h1 EXCEPT !.head[e] = n, !.tail[e] = n]
          [] pos = NIL /\ hd # NIL ->
                [insert_sibling(h1, h.tail[e], n, NIL) EXCEPT !.tail[e] = n]
          [] pos # NIL /\ pos = hd ->
                [h1 EXCEPT !.next[n] = hd, !.prev[hd] = n, !.head[e] = n]
          [] OTHER -> insert_sibling(h1, hd, n, pos)

\* Mutant: m_tail is not updated.
EraseImplKeepsTail(h, e, n) ==
    LET nx == h.next[n]
        h1 == IF h.head[e] = n
              THEN IF nx = NIL THEN [h EXCEPT !.head[e] = nx, !.tail[e] = NIL]
                   ELSE [h EXCEPT !.head[e] = nx, !.prev[nx] = NIL]
              ELSE LET p == CHOOSE q \in ToSet(Chain(h, h.head[e])) : h.next[q] = n
                       b == [h EXCEPT !.next[p] = nx]
                   IN  IF nx = NIL THEN b ELSE [b EXCEPT !.prev[nx] = p]
    IN  Delete([h1 EXCEPT !.next[n] = NIL, !.prev[n] = NIL, !.parent[n] = NIL], n)

(* basic_node_list::erase_impl, for a cell of this list.                   *)
erase_impl(h, e, n) ==
    LET nx == h.next[n]
        h1 == IF h.head[e] = n
              THEN LET a == [h EXCEPT !.head[e] = nx]
                   IN  IF nx = NIL THEN [a EXCEPT !.tail[e] = NIL]
                       ELSE [a EXCEPT !.prev[nx] = NIL]
              ELSE LET a == IF h.tail[e] = n THEN [h EXCEPT !.tail[e] = h.prev[n]] ELSE h
                       p == CHOOSE q \in ToSet(Chain(h, h.head[e])) : h.next[q] = n
                       b == [a EXCEPT !.next[p] = nx]
                   IN  IF nx = NIL THEN b ELSE [b EXCEPT !.prev[nx] = p]
    IN  Delete([h1 EXCEPT !.next[n] = NIL, !.prev[n] = NIL, !.parent[n] = NIL], n)

(* basic_node_list::clear.                                                 *)
clear(h, e) == [Delete(h, h.head[e]) EXCEPT !.head[e] = NIL, !.tail[e] = NIL]

(* basic_node_list::swap: heads and tails, then every cell's parent.       *)
swap(h, d, e) ==
    LET h1 == [h EXCEPT !.head[d] = h.head[e], !.head[e] = h.head[d],
                        !.tail[d] = h.tail[e], !.tail[e] = h.tail[d]]
        own(x) == ToSet(Chain(h1, h1.head[x]))
    IN  [h1 EXCEPT !.parent = [n \in Nodes |-> IF n \in own(e) THEN e
                                               ELSE IF n \in own(d) THEN d ELSE @[n]]]

(* emplace_back of a clone of every cell of a list.                        *)
emplace_all(h, d, s) ==
    LET add[i \in 0..Len(s)] ==
            IF i = 0 THEN h
            ELSE LET g == add[i - 1]
                     n == Cell(g)
                 IN  insert_impl(Construct(g, n, h.what[s[i]]), d, NIL, n)
    IN  add[Len(s)]

-----------------------------------------------------------------------------
(* iterator_impl.  Iterators made from the list alone are at the end when  *)
(* they show nothing; those made from a cell always say they are.          *)
skip(h, n) ==
    LET s  == Chain(h, n)
        ok == {i \in DOMAIN s : IsElement(h, s[i])}
    IN  IF ok = {} THEN NIL ELSE s[Min(ok)]
Rest(h, n, elem) == IF elem THEN skip(h, n) ELSE n

Made(e, n, elem) == [list |-> e, cur |-> n, atEnd |-> n = NIL, elem |-> elem]
FromCell(e, n, elem) == [list |-> e, cur |-> n, atEnd |-> TRUE, elem |-> elem]

\* Mutant: an iterator over elements does not skip what is not one.
IncrementedNoSkip(h, i) ==
    Made(i.list,
         IF ~i.atEnd /\ i.cur = NIL THEN h.head[i.list]
         ELSE IF i.cur # NIL THEN h.next[i.cur] ELSE NIL,
         i.elem)

(* operator++ *)
Incremented(h, i) ==
    Made(i.list,
         IF ~i.atEnd /\ i.cur = NIL THEN h.head[i.list]
         ELSE IF i.cur # NIL THEN Rest(h, h.next[i.cur], i.elem) ELSE NIL,
         i.elem)

(* operator-- *)
Decremented(h, i) ==
    LET back[k \in 0..N] ==
            IF k = 0 THEN i.cur
            ELSE LET c == back[k - 1]
                 IN  IF c = NIL \/ (k > 1 /\ (i.elem => IsElement(h, c))) THEN c
                     ELSE h.prev[c]
    IN  IF i.atEnd THEN [i EXCEPT !.cur = h.tail[i.list], !.atEnd = FALSE]
        ELSE [i EXCEPT !.cur = back[N]]

-----------------------------------------------------------------------------
Init == /\ heap = [head |-> [e \in Elements |-> NIL], tail |-> [e \in Elements |-> NIL],
                   next |-> [n \in Nodes |-> NIL], prev |-> [n \in Nodes |-> NIL],
                   parent |-> [n \in Nodes |-> NIL], what |-> [n \in Nodes |-> Free]]
        /\ it \in {Made(e, NIL, FALSE) : e \in Elements}

List(e) == Chain(heap, heap.head[e])
CharsOf(e) == Len(FlattenSeq([i \in DOMAIN List(e) |-> heap.what[List(e)[i]].text]))

Begin(e, elem) == /\ it' = Made(e, Rest(heap, heap.head[e], elem), elem)
                  /\ UNCHANGED heap
End(e, elem) == /\ it' = Made(e, NIL, elem)
                /\ UNCHANGED heap
Advance == it' = Incremented(heap, it) /\ UNCHANGED heap
Retreat == it' = Decremented(heap, it) /\ UNCHANGED heap

(* node_list::emplace and element::emplace at the iterator, which becomes  *)
(* a const_iterator: that passes over what is no element.                  *)
Insert(k, s) ==
    LET n   == Cell(heap)
        pos == Rest(heap, it.cur, it.elem)
    IN  /\ Room(heap, 1)
        /\ it.elem => k = "element"
        /\ CharsOf(it.list) + Len(s) <= MaxChars
        /\ heap' = insert_impl(Construct(heap, n, [kind |-> k, text |-> s]), it.list, pos, n)
        /\ it' = FromCell(it.list, n, it.elem)

(* erase(pos).                                                             *)
Erase ==
    /\ it.cur # NIL
    /\ heap' = erase_impl(heap, it.list, it.cur)
    /\ it' = FromCell(it.list, Rest(heap', heap.next[it.cur], it.elem), it.elem)

Renewed(e) == it' = Made(e, NIL, FALSE)

Clear(e) == heap' = clear(heap, e) /\ Renewed(e)
PopFront(e) == /\ heap.head[e] # NIL
               /\ heap' = erase_impl(heap, e, heap.head[e])
               /\ Renewed(e)
PopBack(e) == LET last == Decremented(heap, Made(e, NIL, FALSE)).cur
              IN  /\ last # NIL
                  /\ heap' = erase_impl(heap, e, last)
                  /\ Renewed(e)

(* element::erase(begin(), end()).                                         *)
EraseElements(e) ==
    LET loop[k \in 0..N] ==      \* the heap and the iterator first
            IF k = 0 THEN <<heap, Made(e, Rest(heap, heap.head[e], TRUE), TRUE)>>
            ELSE LET p == loop[k - 1]
                 IN  IF p[2].cur = NIL THEN p
                     ELSE <<erase_impl(p[1], e, p[2].cur), Incremented(p[1], p[2])>>
    IN  heap' = loop[N][1] /\ Renewed(e)

Swap(d, e) == d # e /\ heap' = swap(heap, d, e) /\ Renewed(d)
MoveAssign(d, e) == d # e /\ heap' = swap(clear(heap, d), d, e) /\ Renewed(d)
CopyAssign(d, e) == /\ d # e
                    /\ Room(clear(heap, d), Len(List(e)))
                    /\ heap' = emplace_all(clear(heap, d), d, List(e))
                    /\ Renewed(d)

(* element::set_content: the loop's ++ follows an erasure's own step.      *)
SetContent(e, s) ==
    LET loop[k \in 0..N] ==
            IF k = 0 THEN <<heap, Made(e, heap.head[e], FALSE)>>
            ELSE LET p == loop[k - 1]
                     n == p[2].cur
                 IN  IF n = NIL THEN p
                     ELSE IF IsText(p[1], n)
                          THEN LET h == erase_impl(p[1], e, n)
                               IN  <<h, Incremented(h, FromCell(e, p[1].next[n], FALSE))>>
                          ELSE <<p[1], Incremented(p[1], p[2])>>
        h == loop[N][1]
    IN  /\ Room(h, 1)
        /\ CharsOf(e) + Len(s) <= MaxChars
        /\ heap' = insert_impl(Construct(h, Cell(h), [kind |-> "text", text |-> s]),
                               e, NIL, Cell(h))
        /\ Renewed(e)

(* element::add_text.                                                      *)
AddText(e, s) ==
    LET t == heap.tail[e]
    IN  /\ CharsOf(e) + Len(s) <= MaxChars
        /\ \/ /\ t # NIL /\ heap.what[t].kind = "text"
              /\ heap' = [heap EXCEPT !.what[t].text = @ \o s]
           \/ /\ ~(t # NIL /\ heap.what[t].kind = "text")
              /\ Room(heap, 1)
              /\ heap' = insert_impl(Construct(heap, Cell(heap), [kind |-> "text", text |-> s]),
                                     e, NIL, Cell(heap))
        /\ Renewed(e)

(* element::flatten_text.                                                  *)
FlattenText(e) ==
    LET loop[k \in 0..(2 * N)] ==
            IF k = 0 THEN <<heap, heap.head[e]>>
            ELSE LET p == loop[k - 1]
                     h == p[1]
                     n == p[2]
                 IN  IF n = h.tail[e] THEN p
                     ELSE IF ~IsText(h, n) \/ ~IsText(h, h.next[n]) THEN <<h, h.next[n]>>
                     ELSE <<erase_impl([h EXCEPT !.what[n].text = @ \o h.what[h.next[n]].text],
                                       e, h.next[n]), n>>
    IN  heap' = loop[2 * N][1] /\ Renewed(e)

(* element::insert(begin(), first, last) of two elements.                  *)
InsertRange(e) ==
    LET pos == Made(e, Rest(heap, heap.head[e], TRUE), TRUE)
        w   == [kind |-> "element", text |-> << >>]
        m   == Cell(heap)
        h1  == insert_impl(Construct(heap, m, w), e, pos.cur, m)
        n   == Cell(h1)
        h2  == insert_impl(Construct(h1, n, w), e, Incremented(h1, pos).cur, n)
    IN  /\ Room(heap, 2)
        /\ heap' = h2
        /\ it' = Made(e, Rest(h2, h2.head[e], TRUE), TRUE)

Next ==
    \/ \E e \in Elements, elem \in BOOLEAN : Begin(e, elem) \/ End(e, elem)
    \/ Advance \/ Retreat \/ Erase
    \/ \E k \in Kinds : \E s \in Content[k] : Insert(k, s)
    \/ \E e \in Elements : Clear(e) \/ PopFront(e) \/ PopBack(e) \/ EraseElements(e)
                            \/ FlattenText(e) \/ InsertRange(e)
    \/ \E d, e \in Elements : Swap(d, e) \/ MoveAssign(d, e) \/ CopyAssign(d, e)
    \/ \E e \in Elements, s \in Content.added : SetContent(e, s) \/ AddText(e, s)

Spec == Init /\ [][Next]_vars

-----------------------------------------------------------------------------
(* The pointers agree, which node::validate and element::validate look     *)
(* for when called: a list's chain ends at its tail, every m_prev undoes   *)
(* the m_next that led to it, every cell knows its element, no two lists   *)
(* share a cell, and the cells not freed are exactly those of the lists:   *)
(* nothing leaks and no pointer a list follows dangles.                    *)
WellLinked ==
    LET live == {n \in Nodes : heap.what[n].kind # "free"}
    IN  /\ TypeOK
        /\ \A e \in Elements :
             LET s == List(e)
             IN  /\ heap.tail[e] = IF s = << >> THEN NIL ELSE Last(s)
                 /\ s # << >> => heap.next[Last(s)] = NIL
                 /\ \A i \in DOMAIN s :
                      /\ heap.prev[s[i]] = IF i = 1 THEN NIL ELSE s[i - 1]
                      /\ heap.parent[s[i]] = e
        /\ \A d, e \in Elements : d # e => ToSet(List(d)) \cap ToSet(List(e)) = {}
        /\ live = UNION {ToSet(List(e)) : e \in Elements}
        /\ it.cur # NIL => it.cur \in ToSet(List(it.list))

(* The linked list is the sequence its interface describes: each operation *)
(* of node_list, of its iterators and of element on its texts does to the  *)
(* chain what NodeSequence says it does to the sequence.                   *)
Sequence == INSTANCE NodeSequence WITH
    seq <- [e \in Elements |-> List(e)], what <- heap.what
ImplementsSequence == Sequence!Spec
=============================================================================
