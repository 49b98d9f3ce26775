-------------------------------- MODULE Glob --------------------------------
(***************************************************************************)
(* Matching of paths with patterns (glob.cpp).                             *)
(*                                                                         *)
(* A string is a sequence of symbols.  The symbols the code tells apart    *)
(* stand for themselves; any other symbol is a character, or a run of      *)
(* characters that the strings at hand never cut.                          *)
(***************************************************************************)
EXTENDS Integers, Sequences, FiniteSets, SequencesExt

\* tolower, for the letters the instances use in both cases.
Lower(c) == IF c = "A" THEN "a" ELSE c

\* The default case of Match: a slash and a backslash are the same.
SameChar(c, op) ==
    \/ c = "/" /\ op = "\\"
    \/ c = "\\" /\ op = "/"
    \/ Lower(c) = Lower(op)

\* The character p[i], or the terminating zero.
CharAt(p, i) == IF i <= Len(p) THEN p[i] ELSE "NUL"

\* Mutant: a star in the middle of a pattern crosses slashes.
MatchStarAnywhere(p, n) ==
    LET M[i \in 1..Len(p) + 1] == [j \in 1..Len(n) + 1 |->
        IF i > Len(p) THEN j > Len(n)
        ELSE IF p[i] = "*" THEN
            IF i = Len(p) \/ (CharAt(p, i + 1) = "*" /\ i + 1 = Len(p)) THEN TRUE
            ELSE \E k \in j..Len(n) : M[i + 1][k]
        ELSE j <= Len(n) /\ SameChar(n[j], p[i]) /\ M[i + 1][j + 1]]
    IN  M[1][1]

\* Match(pattern, name): does the rest of the pattern at i accept the rest of
\* the name at j?  A star is tried in the order of the code: "**/" for nothing,
\* "**" at the end, "*" at the end, "**" and "*" before something, which never
\* try the end of the name.
Match(p, n) ==
    LET M[i \in 1..Len(p) + 1] == [j \in 1..Len(n) + 1 |->
        IF i > Len(p) THEN j > Len(n)
        ELSE IF p[i] = "*" THEN
            LET two == CharAt(p, i + 1) = "*"
            IN  \/ two /\ CharAt(p, i + 2) = "/" /\ M[i + 3][j]
                \/ two /\ i + 1 = Len(p)
                \/ i = Len(p) /\ \A k \in j..Len(n) : n[k] \notin {"/", "\\"}
                \/ two /\ i + 1 < Len(p) /\ \E k \in j..Len(n) : M[i + 2][k]
                \/ /\ ~two /\ i < Len(p)
                   /\ \E k \in j..Len(n) :
                        M[i + 1][k] /\ \A l \in j..k - 1 : n[l] # "/"
        ELSE IF p[i] = "?" THEN j <= Len(n) /\ M[i + 1][j + 1]
        ELSE j <= Len(n) /\ SameChar(n[j], p[i]) /\ M[i + 1][j + 1]]
    IN  M[1][1]

\* boost::split at any symbol of a set: the pieces between the separators.
Split(s, separators) ==
    LET cuts  == {i \in DOMAIN s : s[i] \in separators}
        at(k) == IF k = 0 THEN 0
                 ELSE IF k > Cardinality(cuts) THEN Len(s) + 1
                 ELSE CHOOSE i \in cuts : Cardinality({j \in cuts : j <= i}) = k
    IN  [k \in 1..Cardinality(cuts) + 1 |-> SubSeq(s, at(k - 1) + 1, at(k) - 1)]

\* The matches of the group expression: a brace, no brace up to the next
\* closing one, and a comma between them.
Groups(p) ==
    {g \in (1..Len(p)) \X (1..Len(p)) :
        /\ g[1] < g[2] /\ p[g[1]] = "{" /\ p[g[2]] = "}"
        /\ \A i \in g[1] + 1..g[2] - 1 : p[i] \notin {"{", "}"}
        /\ \E i \in g[1] + 1..g[2] - 1 : p[i] = ","}

\* expand_group: the first group is replaced by each of its options in turn,
\* until there is none left; a turn takes two braces away, so Len(p) turns will do.
expand_group(p) ==
    LET Expand[k \in 0..Len(p)] == [q \in Seq(Range(p)) |->
            IF k = 0 \/ Groups(q) = {} THEN <<q>>
            ELSE LET g == CHOOSE g \in Groups(q) : \A h \in Groups(q) : g[1] <= h[1]
                     options == Split(SubSeq(q, g[1] + 1, g[2] - 1), {","})
                 IN  FlattenSeq([i \in DOMAIN options |->
                        Expand[k - 1][SubSeq(q, 1, g[1] - 1) \o options[i]
                                        \o SubSeq(q, g[2] + 1, Len(q))]])]
    IN  Expand[Len(p)][p]

\* The patterns a glob pattern stands for.
Expanded(glob_pattern) ==
    LET whole == IF CharAt(glob_pattern, Len(glob_pattern)) = "/"
                 THEN glob_pattern \o <<"*", "*">> ELSE glob_pattern
        parts == Split(whole, {";"})
    IN  FlattenSeq([i \in DOMAIN parts |-> expand_group(parts[i])])

\* glob_match(path, glob_pattern), for a pattern that is not empty.
glob_match(path, glob_pattern) ==
    \E pat \in Range(Expanded(glob_pattern)) :
        (path = <<>> /\ pat = <<>>) \/ Match(pat, path)

-----------------------------------------------------------------------------
(***************************************************************************)
(* The language a pattern denotes, without a search: the pattern is a      *)
(* sequence of items, and a name belongs to it when it can be cut into as  *)
(* many pieces that fit the items.                                         *)
(***************************************************************************)
\* Cuts of a name into k pieces.
Cuts(n, k) ==
    {c \in [0..k -> 0..Len(n)] :
        c[0] = 0 /\ c[k] = Len(n) /\ \A i \in 1..k : c[i - 1] <= c[i]}

Fits(piece, item) ==
    CASE item = "*"   -> \A i \in DOMAIN piece : piece[i] # "/"
      [] item = "**"  -> TRUE
      [] item = "**/" -> piece = <<>> \/ Last(piece) = "/"
      [] item = "?"   -> Len(piece) = 1
      [] OTHER        -> Len(piece) = 1 /\ SameChar(piece[1], item)

\* The items of a pattern: "**/", "**" and single symbols, from left to right.
Items(p) ==
    LET I[i \in 1..Len(p) + 1] ==
        IF i > Len(p) THEN <<>>
        ELSE IF p[i] = "*" /\ CharAt(p, i + 1) = "*"
             THEN IF CharAt(p, i + 2) = "/" THEN <<"**/">> \o I[i + 3]
                                            ELSE <<"**">> \o I[i + 2]
             ELSE <<p[i]>> \o I[i + 1]
    IN  I[1]

Denotes(items, n) ==
    \E c \in Cuts(n, Len(items)) :
        \A i \in DOMAIN items : Fits(SubSeq(n, c[i - 1] + 1, c[i]), items[i])

\* A pattern that glob_match takes as it is, without groups, alternatives or a slash at
\* its end, and without three stars in a row, whose meaning the code leaves open.
PlainPattern(p) ==
    /\ p \in Seq(Range(p)) /\ p # <<>> /\ Last(p) # "/"
    /\ Range(p) \cap {"NUL", "**", "**/", "{", ";"} = {}
    /\ \A i \in 1..Len(p) - 2 : \E j \in i..i + 2 : p[j] # "*"
=============================================================================
