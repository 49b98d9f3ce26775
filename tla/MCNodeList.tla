----------------------------- MODULE MCNodeList -----------------------------
(* Two elements share room for a few children, whose texts hold a few      *)
(* characters.  Elements are interchangeable, and so are cells: whichever  *)
(* free cell new hands out, the states reached differ in its name alone.   *)
EXTENDS NodeList

Contents == [element |-> {<< >>}, text |-> {<<"a">>}, cdata |-> {<<"b">>},
             added |-> {<<"b">>}]

Interchange == Permutations(Elements) \cup Permutations(Nodes)
=============================================================================
