----------------------------- MODULE SiteProofs -----------------------------
(***************************************************************************)
(* Proofs about Site, for every application put together as usual, every   *)
(* set of users and browsers and every history of requests.                *)
(***************************************************************************)
EXTENDS Site, RecursionTheorems, SequenceTheorems, FiniteSetTheorems

-----------------------------------------------------------------------------
(* Patterns *)

\* A sequence from a place on.
LEMMA Behind ==
    ASSUME NEW S, NEW s \in Seq(S), NEW k \in 1 .. Len(s) + 1
    PROVE  /\ Len(s) \in Nat
           /\ SubSeq(s, k, Len(s)) \in Seq(S)
           /\ Len(SubSeq(s, k, Len(s))) = Len(s) + 1 - k
           /\ \A i \in 1 .. Len(s) + 1 - k : SubSeq(s, k, Len(s))[i] = s[k + i - 1]
<1>1. Len(s) \in Nat
  BY LenProperties
<1> DEFINE n == Len(s)
<1>2. n \in Int /\ k \in Int /\ \A i \in k .. n : s[i] \in S
  <2>1. \A i \in 1 .. n : s[i] \in S
    BY ElementOfSeq
  <2> HIDE DEF n
  <2>2. QED
    BY <2>1, <1>1 DEF n
<1> HIDE DEF n
<1>3. /\ SubSeq(s, k, n) \in Seq(S)
      /\ Len(SubSeq(s, k, n)) = IF k <= n THEN n - k + 1 ELSE 0
      /\ \A i \in 1 .. n - k + 1 : SubSeq(s, k, n)[i] = s[k + i - 1]
  BY <1>2, SubSeqProperties
<1>4. n + 1 - k = (IF k <= n THEN n - k + 1 ELSE 0) /\ n - k + 1 = n + 1 - k
  BY <1>1, <1>2 DEF n
<1>5. QED
  BY <1>1, <1>3, <1>4 DEF n

-----------------------------------------------------------------------------
(* Patterns *)

\* Match(pattern + i, name + j), given what it finds behind i.
StarTried(p, n, M, i, j) ==
    LET two == CharAt(p, i + 1) = "*"
    IN  \/ two /\ CharAt(p, i + 2) = "/" /\ M[i + 3][j]
        \/ two /\ i + 1 = Len(p)
        \/ i = Len(p) /\ \A k \in j .. Len(n) : n[k] \notin {"/", "\\"}
        \/ two /\ i + 1 < Len(p) /\ \E k \in j .. Len(n) : M[i + 2][k]
        \/ /\ ~two /\ i < Len(p)
           /\ \E k \in j .. Len(n) : M[i + 1][k] /\ \A l \in j .. k - 1 : n[l] # "/"

\* The same for any item of the pattern.
Tried(p, n, M, i, j) ==
    IF i > Len(p) THEN j > Len(n)
    ELSE IF p[i] = "*" THEN StarTried(p, n, M, i, j)
    ELSE IF p[i] = "?" THEN j <= Len(n) /\ M[i + 1][j + 1]
    ELSE j <= Len(n) /\ SameChar(n[j], p[i]) /\ M[i + 1][j + 1]

\* A star looks no further behind than there is pattern left.
LEMMA Within ==
    ASSUME NEW S, NEW p \in Seq(S), NEW i \in 1 .. Len(p) + 1
    PROVE  /\ Len(p) \in Nat
           /\ i <= Len(p) => i + 1 \in i + 1 .. Len(p) + 1
           /\ i <= Len(p) /\ CharAt(p, i + 1) = "*" => i + 2 \in i + 1 .. Len(p) + 1
           /\ i <= Len(p) /\ CharAt(p, i + 1) = "*" /\ CharAt(p, i + 2) = "/" =>
                i + 3 \in i + 1 .. Len(p) + 1
<1>1. Len(p) \in Nat
  BY LenProperties
<1>2. CharAt(p, i + 1) = "*" => i + 1 <= Len(p)
  BY DEF CharAt
<1>3. CharAt(p, i + 2) = "/" => i + 2 <= Len(p)
  BY DEF CharAt
<1>4. QED
  BY <1>1, <1>2, <1>3

\* The table of the search that Match makes.
LEMMA MatchTries ==
    ASSUME NEW S, NEW p \in Seq(S), NEW R, NEW n \in Seq(R)
    PROVE  \E M : /\ Match(p, n) <=> M[1][1]
                  /\ \A i \in 1 .. Len(p) + 1 : \A j \in 1 .. Len(n) + 1 :
                       M[i][j] <=> Tried(p, n, M, i, j)
<1> DEFINE N == Len(p) + 1
           K == Len(n) + 1
           body(w) == [i \in 1 .. N |-> [j \in 1 .. K |-> Tried(p, n, w, i, j)]]
           M == CHOOSE w : w = body(w)
           rows == [1 .. K -> BOOLEAN]
           step == [i \in 1 .. N |-> [g \in [i + 1 .. N -> rows] |->
                        [j \in 1 .. K |-> Tried(p, n, g, i, j)]]]
<1>1. Match(p, n) = M[1][1]
  BY DEF Match, Tried, StarTried
<1>2. Len(p) \in Nat /\ Len(n) \in Nat /\ N \in Nat
  BY LenProperties
<1>3. ASSUME NEW w, NEW i \in 1 .. N, NEW j \in 1 .. K PROVE Tried(p, n, w, i, j) \in BOOLEAN
  <2>1. StarTried(p, n, w, i, j) \in BOOLEAN
    BY DEF StarTried
  <2>2. (j > Len(n)) \in BOOLEAN
    BY <1>2
  <2>3. (j <= Len(n) /\ w[i + 1][j + 1]) \in BOOLEAN
    OBVIOUS
  <2>4. (j <= Len(n) /\ SameChar(n[j], p[i]) /\ w[i + 1][j + 1]) \in BOOLEAN
    OBVIOUS
  <2>5. QED
    BY <2>1, <2>2, <2>3, <2>4 DEF Tried
<1>4. ASSUME NEW i \in 1 .. N, NEW g \in [i + 1 .. N -> rows] PROVE step[i][g] \in rows
  <2>1. step[i][g] = [j \in 1 .. K |-> Tried(p, n, g, i, j)]
    OBVIOUS
  <2> HIDE DEF step
  <2>2. QED
    BY <2>1, <1>3
<1>5. PICK f : Descends(f, N, rows, step)
  <2> HIDE DEF N, rows, step
  <2>1. QED
    BY <1>2, <1>4, Downward
<1>6. f \in [1 .. N -> rows]
  BY <1>5 DEF Descends
<1>7. ASSUME NEW i \in 1 .. N PROVE f[i] = [j \in 1 .. K |-> Tried(p, n, f, i, j)]
  <2> DEFINE g == [k \in i + 1 .. N |-> f[k]]
  <2>1. f[i] = step[i][g]
    BY <1>5 DEF Descends
  <2>2. g \in [i + 1 .. N -> rows]
    <3>1. i + 1 .. N \subseteq 1 .. N
      BY <1>2
    <3> HIDE DEF rows
    <3>2. QED
      BY <1>6, <3>1
  <2>3. step[i][g] = [j \in 1 .. K |-> Tried(p, n, g, i, j)]
    <3> HIDE DEF g, rows
    <3>1. QED
      BY <2>2
  <2>4. \A k \in i + 1 .. N : g[k] = f[k]
    OBVIOUS
  <2> HIDE DEF g
  <2>5. ASSUME NEW j \in 1 .. K PROVE Tried(p, n, g, i, j) = Tried(p, n, f, i, j)
    <3>1. /\ i <= Len(p) => g[i + 1] = f[i + 1]
          /\ i <= Len(p) /\ CharAt(p, i + 1) = "*" => g[i + 2] = f[i + 2]
          /\ i <= Len(p) /\ CharAt(p, i + 1) = "*" /\ CharAt(p, i + 2) = "/" => g[i + 3] = f[i + 3]
      BY <2>4, Within
    <3>2. i > Len(p) \/ i <= Len(p)
      BY <1>2
    <3>3. QED
      BY <3>1, <3>2, <1>2 DEF Tried, StarTried
  <2>6. QED
    BY <2>1, <2>3, <2>5
<1>8. f = body(f)
  <2>1. f = [i \in 1 .. N |-> f[i]]
    BY <1>6
  <2>2. QED
    BY <2>1, <1>7
<1>9. M = body(M)
  BY <1>8
<1> HIDE DEF M
<1>10. ASSUME NEW i \in 1 .. N, NEW j \in 1 .. K PROVE M[i][j] = Tried(p, n, M, i, j)
  <2>1. M[i] = [k \in 1 .. K |-> Tried(p, n, M, i, k)]
    BY <1>9
  <2>2. QED
    BY <2>1
<1>11. QED
  BY <1>1, <1>10

\* The items from i on, given those behind it.
Itemized(p, I, i) ==
    IF i > Len(p) THEN <<>>
    ELSE IF p[i] = "*" /\ CharAt(p, i + 1) = "*"
         THEN IF CharAt(p, i + 2) = "/" THEN <<"**/">> \o I[i + 3] ELSE <<"**">> \o I[i + 2]
    ELSE <<p[i]>> \o I[i + 1]

\* The items are taken from such a table.
LEMMA ItemsAre ==
    ASSUME NEW S, NEW p \in Seq(S), "**" \in S, "**/" \in S
    PROVE  \E I : /\ Items(p) = I[1]
                  /\ \A i \in 1 .. Len(p) + 1 : I[i] \in Seq(S) /\ I[i] = Itemized(p, I, i)
<1> DEFINE N == Len(p) + 1
           body(w) == [i \in 1 .. N |-> Itemized(p, w, i)]
           I == CHOOSE w : w = body(w)
           step == [i \in 1 .. N |-> [g \in [i + 1 .. N -> Seq(S)] |-> Itemized(p, g, i)]]
<1>1. Items(p) = I[1]
  BY DEF Items, Itemized
<1>2. Len(p) \in Nat /\ N \in Nat /\ \A i \in 1 .. Len(p) : p[i] \in S
  BY LenProperties, ElementOfSeq
<1>3. <<>> \in Seq(S) /\ \A x \in S : \A s \in Seq(S) : <<x>> \o s \in Seq(S)
  <2>1. ASSUME NEW x \in S, NEW s \in Seq(S) PROVE <<x>> \o s \in Seq(S)
    <3> DEFINE t == <<x>>
    <3>1. t \in Seq(S)
      OBVIOUS
    <3> HIDE DEF t
    <3>2. t \o s \in Seq(S)
      BY <3>1, ConcatProperties
    <3>3. QED
      BY <3>2 DEF t
  <2>2. QED
    BY <2>1, EmptySeq
<1>4. ASSUME NEW i \in 1 .. N, NEW g, \A k \in i + 1 .. N : g[k] \in Seq(S)
      PROVE  Itemized(p, g, i) \in Seq(S)
  <2>1. CASE i > Len(p)
    BY <1>3, <2>1 DEF Itemized
  <2>2. CASE ~(i > Len(p)) /\ p[i] = "*" /\ CharAt(p, i + 1) = "*" /\ CharAt(p, i + 2) = "/"
    <3>1. i + 3 \in i + 1 .. N
      BY <1>2, <2>2, Within
    <3>2. Itemized(p, g, i) = <<"**/">> \o g[i + 3]
      BY <2>2 DEF Itemized
    <3>3. g[i + 3] \in Seq(S)
      BY <1>4, <3>1
    <3>4. QED
      BY <1>3, <3>2, <3>3
  <2>3. CASE ~(i > Len(p)) /\ p[i] = "*" /\ CharAt(p, i + 1) = "*" /\ CharAt(p, i + 2) # "/"
    <3>1. i + 2 \in i + 1 .. N
      BY <1>2, <2>3, Within
    <3>2. Itemized(p, g, i) = <<"**">> \o g[i + 2]
      BY <2>3 DEF Itemized
    <3>3. g[i + 2] \in Seq(S)
      BY <1>4, <3>1
    <3>4. QED
      BY <1>3, <3>2, <3>3
  <2>4. CASE ~(i > Len(p)) /\ ~(p[i] = "*" /\ CharAt(p, i + 1) = "*")
    <3>1. i + 1 \in i + 1 .. N /\ p[i] \in S
      BY <1>2, <2>4
    <3>2. Itemized(p, g, i) = <<p[i]>> \o g[i + 1]
      BY <2>4 DEF Itemized
    <3>3. g[i + 1] \in Seq(S)
      BY <1>4, <3>1
    <3>4. QED
      BY <1>3, <3>1, <3>2, <3>3
  <2>5. QED
    BY <2>1, <2>2, <2>3, <2>4
<1>5. ASSUME NEW i \in 1 .. N, NEW g \in [i + 1 .. N -> Seq(S)] PROVE step[i][g] \in Seq(S)
  <2>1. step[i][g] = Itemized(p, g, i)
    OBVIOUS
  <2> HIDE DEF step
  <2>2. QED
    BY <2>1, <1>4
<1>6. PICK f : Descends(f, N, Seq(S), step)
  <2> HIDE DEF N, step
  <2>1. QED
    BY <1>2, <1>5, Downward
<1>7. f \in [1 .. N -> Seq(S)]
  BY <1>6 DEF Descends
<1>8. ASSUME NEW i \in 1 .. N PROVE f[i] = Itemized(p, f, i)
  <2> DEFINE g == [k \in i + 1 .. N |-> f[k]]
  <2>1. f[i] = step[i][g]
    BY <1>6 DEF Descends
  <2>2. g \in [i + 1 .. N -> Seq(S)]
    <3>1. i + 1 .. N \subseteq 1 .. N
      BY <1>2
    <3>2. QED
      BY <1>7, <3>1
  <2>3. step[i][g] = Itemized(p, g, i)
    <3> HIDE DEF g
    <3>1. QED
      BY <2>2
  <2>4. \A k \in i + 1 .. N : g[k] = f[k]
    OBVIOUS
  <2> HIDE DEF g
  <2>5. /\ i <= Len(p) => g[i + 1] = f[i + 1]
        /\ i <= Len(p) /\ CharAt(p, i + 1) = "*" => g[i + 2] = f[i + 2]
        /\ i <= Len(p) /\ CharAt(p, i + 1) = "*" /\ CharAt(p, i + 2) = "/" => g[i + 3] = f[i + 3]
    BY <2>4, Within
  <2>6. i > Len(p) \/ i <= Len(p)
    BY <1>2
  <2>7. Itemized(p, g, i) = Itemized(p, f, i)
    BY <2>5, <2>6 DEF Itemized
  <2>8. QED
    BY <2>1, <2>3, <2>7
<1>9. f = body(f)
  <2>1. f = [i \in 1 .. N |-> f[i]]
    BY <1>7
  <2>2. QED
    BY <2>1, <1>8
<1>10. I = body(I)
  BY <1>9
<1> HIDE DEF I
<1>11. ASSUME NEW i \in 1 .. N PROVE I[i] = Itemized(p, I, i)
  BY <1>10
<1>12. ASSUME NEW i \in 1 .. N PROVE I[i] \in Seq(S)
  <2> DEFINE T == {d \in Nat : \A k \in 1 .. N : N - k = d => \A l \in k .. N : I[l] \in Seq(S)}
  <2>1. 0 \in T
    <3> SUFFICES ASSUME NEW k \in 1 .. N, N - k = 0, NEW l \in k .. N PROVE I[l] \in Seq(S)
      OBVIOUS
    <3>1. l \in 1 .. N /\ l + 1 .. N = {}
      BY <1>2
    <3>2. QED
      BY <1>4, <1>11, <3>1
  <2>2. ASSUME NEW d \in Nat, d \in T PROVE d + 1 \in T
    <3> SUFFICES ASSUME NEW k \in 1 .. N, N - k = d + 1, NEW l \in k .. N PROVE I[l] \in Seq(S)
      OBVIOUS
    <3>1. k + 1 \in 1 .. N /\ N - (k + 1) = d
      BY <1>2
    <3>2. \A m \in k + 1 .. N : I[m] \in Seq(S)
      BY <2>2, <3>1
    <3>3. CASE l = k
      BY <1>4, <1>11, <3>2, <3>3
    <3>4. CASE l # k
      BY <1>2, <3>2, <3>4
    <3>5. QED
      BY <3>3, <3>4
  <2>3. Nat \subseteq T
    <3> HIDE DEF T
    <3>1. QED
      BY <2>1, <2>2, Induction
  <2>4. N - i \in Nat /\ i \in i .. N
    BY <1>2
  <2>5. N - i \in T
    <3> HIDE DEF T
    <3>1. QED
      BY <2>3, <2>4
  <2>6. QED
    BY <2>4, <2>5
<1>13. QED
  BY <1>1, <1>2, <1>11, <1>12

\* When a piece of a name fits an item.
LEMMA FitsIs ==
    ASSUME NEW R, NEW n \in Seq(R), NEW j \in 1 .. Len(n) + 1, NEW k \in j - 1 .. Len(n)
    PROVE  /\ Fits(SubSeq(n, j, k), "*") <=> \A l \in j .. k : n[l] # "/"
           /\ Fits(SubSeq(n, j, k), "**")
           /\ Fits(SubSeq(n, j, k), "**/") <=> k = j - 1 \/ n[k] = "/"
           /\ Fits(SubSeq(n, j, k), "?") <=> k = j
           /\ \A x : x \notin {"*", "**", "**/", "?"} =>
                (Fits(SubSeq(n, j, k), x) <=> k = j /\ SameChar(n[j], x))
<1> DEFINE s == SubSeq(n, j, k)
<1>1. Len(n) \in Nat /\ k \in Int /\ j \in Int
  BY LenProperties
<1>2. /\ s \in Seq(R) /\ Len(s) = k - j + 1 /\ DOMAIN s = 1 .. k - j + 1
      /\ \A i \in 1 .. k - j + 1 : s[i] = n[j + i - 1]
  <2>1. \A i \in j .. k : n[i] \in R
    <3>1. \A i \in 1 .. Len(n) : n[i] \in R
      BY ElementOfSeq
    <3>2. \A i \in j .. k : i \in 1 .. Len(n)
      BY <1>1
    <3>3. QED
      BY <3>1, <3>2
  <2>2. /\ s \in Seq(R) /\ Len(s) = (IF j <= k THEN k - j + 1 ELSE 0)
        /\ \A i \in 1 .. k - j + 1 : s[i] = n[j + i - 1]
    BY <1>1, <2>1, SubSeqProperties
  <2>3. k - j + 1 = (IF j <= k THEN k - j + 1 ELSE 0)
    BY <1>1
  <2> HIDE DEF s
  <2>4. DOMAIN s = 1 .. Len(s)
    BY <2>2, LenProperties
  <2>5. QED
    BY <2>2, <2>3, <2>4
<1> HIDE DEF s
<1>3. Fits(s, "*") <=> \A l \in j .. k : n[l] # "/"
  <2>1. Fits(s, "*") <=> \A i \in 1 .. k - j + 1 : n[j + i - 1] # "/"
    BY <1>2 DEF Fits
  <2>2. ASSUME \A i \in 1 .. k - j + 1 : n[j + i - 1] # "/", NEW l \in j .. k PROVE n[l] # "/"
    <3>1. l - j + 1 \in 1 .. k - j + 1 /\ j + (l - j + 1) - 1 = l
      BY <1>1
    <3>2. QED
      BY <2>2, <3>1
  <2>3. ASSUME \A l \in j .. k : n[l] # "/", NEW i \in 1 .. k - j + 1 PROVE n[j + i - 1] # "/"
    <3>1. j + i - 1 \in j .. k
      BY <1>1
    <3>2. QED
      BY <2>3, <3>1
  <2>4. QED
    BY <2>1, <2>2, <2>3
<1>4. Fits(s, "**")
  BY DEF Fits
<1>5. Fits(s, "**/") <=> k = j - 1 \/ n[k] = "/"
  <2>1. Fits(s, "**/") <=> s = <<>> \/ s[Len(s)] = "/"
    BY DEF Fits, Last
  <2>2. CASE k = j - 1
    <3>1. Len(s) = 0
      BY <1>1, <1>2, <2>2
    <3>2. s = <<>>
      BY <1>2, <3>1, EmptySeq
    <3>3. QED
      BY <2>1, <2>2, <3>2
  <2>3. CASE k # j - 1
    <3>1. k - j + 1 \in 1 .. k - j + 1 /\ j + (k - j + 1) - 1 = k /\ k - j + 1 # 0
      BY <1>1, <2>3
    <3>2. s # <<>> /\ s[Len(s)] = n[k]
      BY <1>2, <3>1, EmptySeq
    <3>3. QED
      BY <2>1, <2>3, <3>2
  <2>4. QED
    BY <2>2, <2>3
<1>6. Len(s) = 1 <=> k = j
  BY <1>1, <1>2
<1>7. k = j => s[1] = n[j]
  <2>1. k = j => 1 \in 1 .. k - j + 1 /\ j + 1 - 1 = j
    BY <1>1
  <2>2. QED
    BY <1>2, <2>1
<1>8. Fits(s, "?") <=> k = j
  BY <1>6 DEF Fits
<1>9. ASSUME NEW x, x \notin {"*", "**", "**/", "?"}
      PROVE  Fits(s, x) <=> k = j /\ SameChar(n[j], x)
  <2>1. Fits(s, x) <=> Len(s) = 1 /\ SameChar(s[1], x)
    BY <1>9 DEF Fits
  <2>2. QED
    BY <1>6, <1>7, <2>1
<1>10. QED
  BY <1>3, <1>4, <1>5, <1>8, <1>9 DEF s

\* c cuts a name from j on into pieces that fit the items.
CutBy(c, items, n, j) ==
    /\ c \in [0 .. Len(items) -> 0 .. Len(n)]
    /\ c[0] = j - 1 /\ c[Len(items)] = Len(n)
    /\ \A i \in 1 .. Len(items) : c[i - 1] <= c[i]
    /\ \A i \in 1 .. Len(items) : Fits(SubSeq(n, c[i - 1] + 1, c[i]), items[i])

\* The items denote the name from j on.
DenotesFrom(items, n, j) == \E c : CutBy(c, items, n, j)

\* They denote the name when they denote it from its first character.
LEMMA DenotesWhole ==
    ASSUME NEW S, NEW items \in Seq(S), NEW n
    PROVE  Denotes(items, n) <=> DenotesFrom(items, n, 1)
<1>1. DOMAIN items = 1 .. Len(items) /\ 1 - 1 = 0
  BY LenProperties
<1>2. QED
  BY <1>1 DEF Denotes, DenotesFrom, CutBy, Cuts

\* Nothing denotes nothing.
LEMMA DenotesNothing ==
    ASSUME NEW R, NEW n \in Seq(R), NEW j \in 1 .. Len(n) + 1
    PROVE  DenotesFrom(<<>>, n, j) <=> j - 1 = Len(n)
<1> DEFINE e == <<>>
<1>1. Len(e) = 0
  OBVIOUS
<1>2. Len(n) \in Nat
  BY LenProperties
<1> HIDE DEF e
<1>3. ASSUME NEW c, CutBy(c, e, n, j) PROVE j - 1 = Len(n)
  BY <1>1, <1>3 DEF CutBy
<1>4. ASSUME j - 1 = Len(n) PROVE \E c : CutBy(c, e, n, j)
  <2> DEFINE c == [i \in 0 .. 0 |-> Len(n)]
  <2>1. c \in [0 .. 0 -> 0 .. Len(n)] /\ c[0] = Len(n)
    BY <1>2
  <2>2. 1 .. 0 = {}
    OBVIOUS
  <2> HIDE DEF c
  <2>3. CutBy(c, e, n, j)
    BY <1>1, <1>4, <2>1, <2>2 DEF CutBy
  <2>4. QED
    BY <2>3
<1>5. QED
  BY <1>3, <1>4 DEF DenotesFrom, e

\* The first item takes a piece, and the others what is left.
LEMMA DenotesFirst ==
    ASSUME NEW S, NEW x \in S, NEW r \in Seq(S), NEW R, NEW n \in Seq(R),
           NEW j \in 1 .. Len(n) + 1
    PROVE  DenotesFrom(<<x>> \o r, n, j) <=>
             \E k \in j - 1 .. Len(n) : Fits(SubSeq(n, j, k), x) /\ DenotesFrom(r, n, k + 1)
<1> DEFINE f == <<x>>
           items == f \o r
           q == Len(r)
<1>1. Len(n) \in Nat /\ q \in Nat
  BY LenProperties
<1>2. Len(items) = q + 1 /\ items[1] = x /\ \A i \in 1 .. q : items[i + 1] = r[i]
  <2>1. f \in Seq(S) /\ Len(f) = 1 /\ f[1] = x
    OBVIOUS
  <2> HIDE DEF f
  <2>2. /\ Len(f \o r) = Len(f) + Len(r)
        /\ \A i \in 1 .. Len(f) + Len(r) : (f \o r)[i] = IF i <= Len(f) THEN f[i] ELSE r[i - Len(f)]
    BY <2>1, ConcatProperties
  <2>3. 1 \in 1 .. 1 + q /\ \A i \in 1 .. q : i + 1 \in 1 .. 1 + q /\ ~(i + 1 <= 1) /\ (i + 1) - 1 = i
    BY <1>1
  <2>4. QED
    BY <1>1, <2>1, <2>2, <2>3
<1> HIDE DEF items, q
<1>3. ASSUME NEW c, CutBy(c, items, n, j)
      PROVE  \E k \in j - 1 .. Len(n) : Fits(SubSeq(n, j, k), x) /\ DenotesFrom(r, n, k + 1)
  <2>1. /\ c \in [0 .. q + 1 -> 0 .. Len(n)] /\ c[0] = j - 1 /\ c[q + 1] = Len(n)
        /\ \A i \in 1 .. q + 1 : c[i - 1] <= c[i]
        /\ \A i \in 1 .. q + 1 : Fits(SubSeq(n, c[i - 1] + 1, c[i]), items[i])
    BY <1>2, <1>3 DEF CutBy
  <2>2. 1 \in 1 .. q + 1 /\ 1 - 1 = 0 /\ (j - 1) + 1 = j /\ 1 \in 0 .. q + 1
    BY <1>1
  <2>3. c[1] \in j - 1 .. Len(n) /\ Fits(SubSeq(n, j, c[1]), x)
    <3>1. c[1] \in 0 .. Len(n) /\ j - 1 <= c[1]
      BY <2>1, <2>2
    <3>2. Fits(SubSeq(n, j, c[1]), x)
      BY <1>2, <2>1, <2>2
    <3>3. QED
      BY <3>1, <3>2
  <2> DEFINE d == [i \in 0 .. q |-> c[i + 1]]
  <2>4. /\ d \in [0 .. q -> 0 .. Len(n)] /\ d[0] = c[1] /\ d[q] = c[q + 1]
        /\ \A i \in 1 .. q : d[i - 1] = c[i] /\ d[i] = c[i + 1]
    <3>1. \A i \in 0 .. q : i + 1 \in 0 .. q + 1 /\ d[i] = c[i + 1]
      BY <1>1
    <3>2. 0 \in 0 .. q /\ q \in 0 .. q /\ 0 + 1 = 1
          /\ \A i \in 1 .. q : i - 1 \in 0 .. q /\ i \in 0 .. q /\ (i - 1) + 1 = i
      BY <1>1
    <3>3. d \in [0 .. q -> 0 .. Len(n)]
      BY <2>1, <3>1
    <3> HIDE DEF d
    <3>4. /\ d[0] = c[1] /\ d[q] = c[q + 1]
          /\ \A i \in 1 .. q : d[i] = c[i + 1]
      BY <3>1, <3>2
    <3>5. \A i \in 1 .. q : d[i - 1] = c[(i - 1) + 1] /\ (i - 1) + 1 = i
      BY <3>1, <3>2
    <3>6. QED
      BY <3>3, <3>4, <3>5
  <2> HIDE DEF d
  <2>5. \A i \in 1 .. q : i + 1 \in 1 .. q + 1 /\ (i + 1) - 1 = i
    BY <1>1
  <2>6. ASSUME NEW i \in 1 .. q
        PROVE  d[i - 1] <= d[i] /\ Fits(SubSeq(n, d[i - 1] + 1, d[i]), r[i])
    <3>1. PICK m : m = i + 1
      OBVIOUS
    <3>2. m \in 1 .. q + 1 /\ m - 1 = i /\ items[m] = r[i] /\ d[i - 1] = c[i] /\ d[i] = c[m]
      BY <1>2, <2>4, <2>5, <3>1
    <3>3. c[m - 1] <= c[m] /\ Fits(SubSeq(n, c[m - 1] + 1, c[m]), items[m])
      BY <2>1, <3>2
    <3>4. QED
      BY <3>2, <3>3
  <2>7. (c[1] + 1) - 1 = c[1]
    BY <2>3
  <2>8. CutBy(d, r, n, c[1] + 1)
    BY <2>1, <2>4, <2>6, <2>7 DEF CutBy, q
  <2>9. QED
    BY <2>3, <2>8 DEF DenotesFrom
<1>4. ASSUME NEW k \in j - 1 .. Len(n), Fits(SubSeq(n, j, k), x), NEW d, CutBy(d, r, n, k + 1)
      PROVE  \E c : CutBy(c, items, n, j)
  <2>1. /\ d \in [0 .. q -> 0 .. Len(n)] /\ d[0] = k /\ d[q] = Len(n)
        /\ \A i \in 1 .. q : d[i - 1] <= d[i]
        /\ \A i \in 1 .. q : Fits(SubSeq(n, d[i - 1] + 1, d[i]), r[i])
    <3>1. (k + 1) - 1 = k
      OBVIOUS
    <3>2. QED
      BY <1>4, <3>1 DEF CutBy, q
  <2> DEFINE c == [i \in 0 .. q + 1 |-> IF i = 0 THEN j - 1 ELSE d[i - 1]]
  <2>2. \A i \in 1 .. q + 1 : i \in 0 .. q + 1 /\ i # 0 /\ i - 1 \in 0 .. q
    BY <1>1
  <2>3. c[0] = j - 1 /\ \A i \in 1 .. q + 1 : c[i] = d[i - 1]
    <3>1. 0 \in 0 .. q + 1
      BY <1>1
    <3>2. QED
      BY <2>2, <3>1
  <2>4. c \in [0 .. q + 1 -> 0 .. Len(n)]
    <3>1. j - 1 \in 0 .. Len(n)
      BY <1>1
    <3>2. \A i \in 0 .. q + 1 : i # 0 => d[i - 1] \in 0 .. Len(n)
      <4>1. \A i \in 0 .. q + 1 : i # 0 => i - 1 \in 0 .. q
        BY <1>1
      <4>2. QED
        BY <2>1, <4>1
    <3>3. QED
      BY <3>1, <3>2
  <2> HIDE DEF c
  <2>5. q + 1 \in 1 .. q + 1 /\ (q + 1) - 1 = q
    BY <1>1
  <2>6. c[q + 1] = Len(n)
    BY <2>1, <2>3, <2>5
  <2>7. ASSUME NEW i \in 1 .. q + 1
        PROVE  c[i - 1] <= c[i] /\ Fits(SubSeq(n, c[i - 1] + 1, c[i]), items[i])
    <3>1. CASE i = 1
      <4>1. c[i - 1] = j - 1 /\ c[i] = k /\ (j - 1) + 1 = j
        BY <2>1, <2>3, <3>1
      <4>2. QED
        BY <1>2, <1>4, <3>1, <4>1
    <3>2. CASE i # 1
      <4>1. PICK m : m = i - 1
        OBVIOUS
      <4>2. m \in 1 .. q /\ m \in 1 .. q + 1 /\ i = m + 1
        BY <1>1, <3>2, <4>1
      <4>3. c[i] = d[m] /\ c[m] = d[m - 1] /\ items[i] = r[m]
        BY <1>2, <2>3, <4>1, <4>2
      <4>4. d[m - 1] <= d[m] /\ Fits(SubSeq(n, d[m - 1] + 1, d[m]), r[m])
        BY <2>1, <4>2
      <4>5. QED
        BY <4>1, <4>3, <4>4
    <3>3. QED
      BY <3>1, <3>2
  <2>8. CutBy(c, items, n, j)
    BY <1>2, <2>3, <2>4, <2>6, <2>7 DEF CutBy
  <2>9. QED
    BY <2>8
<1>5. QED
  BY <1>3, <1>4 DEF DenotesFrom, items

\* The symbols of a pattern, and the items that are made of them.
ItemsOf(p) == Range(p) \cup {"**", "**/"}

\* What is known of the symbols of a plain pattern.
LEMMA PlainSymbols ==
    ASSUME NEW p, PlainPattern(p)
    PROVE  /\ p \in Seq(ItemsOf(p)) /\ p \in Seq(Range(p)) /\ Len(p) \in Nat \ {0}
           /\ \A i \in 1 .. Len(p) : /\ p[i] \in ItemsOf(p)
                                     /\ p[i] \notin {"NUL", "**", "**/", "{", ";"}
           /\ p[Len(p)] # "/"
<1>1. p \in Seq(Range(p)) /\ p # <<>> /\ p[Len(p)] # "/"
      /\ Range(p) \cap {"NUL", "**", "**/", "{", ";"} = {}
  BY DEF PlainPattern, Last
<1>2. Len(p) \in Nat \ {0} /\ DOMAIN p = 1 .. Len(p)
  BY <1>1, LenProperties, EmptySeq
<1>3. \A i \in 1 .. Len(p) : p[i] \in Range(p)
  BY <1>2 DEF Range
<1>4. p \in Seq(ItemsOf(p))
  BY <1>1, SeqMonotonic DEF ItemsOf
<1>5. QED
  BY <1>1, <1>2, <1>3, <1>4 DEF ItemsOf

\* M is a table of the search, and I of the items, for a pattern and a name.
Tables(p, n, M, I) ==
    /\ \A i \in 1 .. Len(p) + 1 : \A j \in 1 .. Len(n) + 1 : M[i][j] <=> Tried(p, n, M, i, j)
    /\ \A i \in 1 .. Len(p) + 1 : I[i] \in Seq(ItemsOf(p)) /\ I[i] = Itemized(p, I, i)

\* What is said of them at a place of the pattern.
Agree(n, M, I, i) == \A j \in 1 .. Len(n) + 1 : M[i][j] <=> DenotesFrom(I[i], n, j)

\* Names are paths with slashes only.
Name(n) == n \in Seq(Range(n)) /\ "\\" \notin Range(n)

\* What is known of those of a name.
LEMMA NameSymbols ==
    ASSUME NEW n, Name(n)
    PROVE  /\ n \in Seq(Range(n)) /\ Len(n) \in Nat
           /\ \A l \in 1 .. Len(n) : n[l] # "\\" /\ (SameChar(n[l], "/") <=> n[l] = "/")
<1>1. n \in Seq(Range(n)) /\ Len(n) \in Nat /\ DOMAIN n = 1 .. Len(n)
  BY LenProperties DEF Name
<1>2. \A l \in 1 .. Len(n) : n[l] # "\\"
  BY <1>1 DEF Name, Range
<1>3. \A c : c # "\\" => (SameChar(c, "/") <=> c = "/")
  BY DEF SameChar, Lower
<1>4. QED
  BY <1>1, <1>2, <1>3

\* One item of a pattern: a character, or a question mark.
LEMMA OneCharacter ==
    ASSUME NEW p, PlainPattern(p), NEW n, Name(n), NEW M, NEW I, Tables(p, n, M, I),
           NEW i \in 1 .. Len(p), p[i] # "*"
    PROVE  /\ \A j \in 1 .. Len(n) + 1 :
                M[i][j] <=> j <= Len(n) /\ (p[i] = "?" \/ SameChar(n[j], p[i])) /\ M[i + 1][j + 1]
           /\ \A j \in 1 .. Len(n) + 1 : DenotesFrom(I[i], n, j) <=>
                j <= Len(n) /\ (p[i] = "?" \/ SameChar(n[j], p[i])) /\ DenotesFrom(I[i + 1], n, j + 1)
<1>1. /\ p \in Seq(ItemsOf(p)) /\ Len(p) \in Nat /\ p[i] \in ItemsOf(p)
      /\ p[i] \notin {"**", "**/"}
  BY PlainSymbols
<1>2. n \in Seq(Range(n)) /\ Len(n) \in Nat
  BY NameSymbols
<1>3. i \in 1 .. Len(p) + 1 /\ i + 1 \in 1 .. Len(p) + 1 /\ ~(i > Len(p))
  BY <1>1
<1>4. ASSUME NEW j \in 1 .. Len(n) + 1
      PROVE  M[i][j] <=> j <= Len(n) /\ (p[i] = "?" \/ SameChar(n[j], p[i])) /\ M[i + 1][j + 1]
  <2>1. M[i][j] <=> Tried(p, n, M, i, j)
    BY <1>3 DEF Tables
  <2>2. Tried(p, n, M, i, j) <=>
          j <= Len(n) /\ (p[i] = "?" \/ SameChar(n[j], p[i])) /\ M[i + 1][j + 1]
    BY <1>3 DEF Tried
  <2>3. QED
    BY <2>1, <2>2
<1>5. I[i] = <<p[i]>> \o I[i + 1] /\ I[i + 1] \in Seq(ItemsOf(p))
  BY <1>3 DEF Tables, Itemized
<1>6. ASSUME NEW j \in 1 .. Len(n) + 1
      PROVE  DenotesFrom(I[i], n, j) <=>
               j <= Len(n) /\ (p[i] = "?" \/ SameChar(n[j], p[i])) /\ DenotesFrom(I[i + 1], n, j + 1)
  <2>1. DenotesFrom(I[i], n, j) <=>
          \E k \in j - 1 .. Len(n) : Fits(SubSeq(n, j, k), p[i]) /\ DenotesFrom(I[i + 1], n, k + 1)
    BY <1>1, <1>2, <1>5, DenotesFirst
  <2>2. ASSUME NEW k \in j - 1 .. Len(n)
        PROVE  Fits(SubSeq(n, j, k), p[i]) <=> k = j /\ (p[i] = "?" \/ SameChar(n[j], p[i]))
    <3>1. CASE p[i] = "?"
      BY <1>2, <3>1, FitsIs
    <3>2. CASE p[i] # "?"
      <4>1. p[i] \notin {"*", "**", "**/", "?"}
        BY <1>1, <3>2
      <4>2. QED
        BY <1>2, <3>2, <4>1, FitsIs
    <3>3. QED
      BY <3>1, <3>2
  <2>3. j \in j - 1 .. Len(n) <=> j <= Len(n)
    BY <1>2
  <2>4. QED
    BY <2>1, <2>2, <2>3
<1>7. QED
  BY <1>4, <1>6

\* A star that is not the last, but stands alone: the code never tries the end of the
\* name, where what follows could not fit.
LEMMA StarInside ==
    ASSUME NEW p, PlainPattern(p), NEW n, Name(n), NEW M, NEW I, Tables(p, n, M, I),
           NEW i \in 1 .. Len(p), p[i] = "*", CharAt(p, i + 1) # "*", i < Len(p),
           Agree(n, M, I, i + 1)
    PROVE  Agree(n, M, I, i)
<1>a. p \in Seq(ItemsOf(p)) /\ Len(p) \in Nat /\ p[i] \in ItemsOf(p)
  BY PlainSymbols
<1>1. /\ p \in Seq(ItemsOf(p)) /\ Len(p) \in Nat /\ p[i] \in ItemsOf(p)
      /\ i + 1 \in 1 .. Len(p) /\ i \in 1 .. Len(p) + 1 /\ ~(i > Len(p)) /\ i # Len(p)
      /\ i + 1 \in 1 .. Len(p) + 1
  BY <1>a
<1>2. n \in Seq(Range(n)) /\ Len(n) \in Nat
  BY NameSymbols
<1>3. p[i + 1] # "*"
  BY <1>1 DEF CharAt
<1>4. I[i] = <<p[i]>> \o I[i + 1] /\ I[i + 1] \in Seq(ItemsOf(p))
  BY <1>1 DEF Tables, Itemized
<1>5. ~DenotesFrom(I[i + 1], n, Len(n) + 1)
  <2>1. Len(n) + 1 \in 1 .. Len(n) + 1 /\ ~(Len(n) + 1 <= Len(n))
    BY <1>2
  <2>2. QED
    BY <1>1, <1>3, <2>1, OneCharacter
<1>6. ASSUME NEW j \in 1 .. Len(n) + 1 PROVE M[i][j] <=> DenotesFrom(I[i], n, j)
  <2>1. M[i][j] <=> StarTried(p, n, M, i, j)
    BY <1>1 DEF Tables, Tried
  <2>2. StarTried(p, n, M, i, j) <=>
          \E k \in j .. Len(n) : M[i + 1][k] /\ \A l \in j .. k - 1 : n[l] # "/"
    BY <1>1 DEF StarTried
  <2>3. DenotesFrom(I[i], n, j) <=>
          \E k \in j - 1 .. Len(n) : Fits(SubSeq(n, j, k), "*") /\ DenotesFrom(I[i + 1], n, k + 1)
    BY <1>1, <1>2, <1>4, DenotesFirst
  <2>4. \A k \in j - 1 .. Len(n) : Fits(SubSeq(n, j, k), "*") <=> \A l \in j .. k : n[l] # "/"
    BY <1>2, FitsIs
  <2>5. ASSUME NEW k \in j .. Len(n), M[i + 1][k], \A l \in j .. k - 1 : n[l] # "/"
        PROVE  DenotesFrom(I[i], n, j)
    <3>1. k - 1 \in j - 1 .. Len(n) /\ (k - 1) + 1 = k /\ k \in 1 .. Len(n) + 1
      BY <1>2
    <3>2. DenotesFrom(I[i + 1], n, k)
      BY <2>5, <3>1 DEF Agree
    <3>3. Fits(SubSeq(n, j, k - 1), "*") /\ DenotesFrom(I[i + 1], n, (k - 1) + 1)
      BY <2>4, <2>5, <3>1, <3>2
    <3>4. QED
      BY <2>3, <3>1, <3>3
  <2>6. ASSUME NEW k \in j - 1 .. Len(n), Fits(SubSeq(n, j, k), "*"), DenotesFrom(I[i + 1], n, k + 1)
        PROVE  \E m \in j .. Len(n) : M[i + 1][m] /\ \A l \in j .. m - 1 : n[l] # "/"
    <3>1. k # Len(n)
      BY <1>5, <2>6
    <3>2. PICK m : m = k + 1
      OBVIOUS
    <3>3. m \in j .. Len(n) /\ m \in 1 .. Len(n) + 1 /\ m - 1 = k
      BY <1>2, <3>1, <3>2
    <3>4. M[i + 1][m]
      BY <2>6, <3>2, <3>3 DEF Agree
    <3>5. \A l \in j .. m - 1 : n[l] # "/"
      BY <2>4, <2>6, <3>3
    <3>6. QED
      BY <3>3, <3>4, <3>5
  <2>7. QED
    BY <2>1, <2>2, <2>3, <2>5, <2>6
<1>7. QED
  BY <1>6 DEF Agree

\* A star at the end.
LEMMA StarAtEnd ==
    ASSUME NEW p, PlainPattern(p), NEW n, Name(n), NEW M, NEW I, Tables(p, n, M, I),
           p[Len(p)] = "*"
    PROVE  Agree(n, M, I, Len(p))
<1> DEFINE i == Len(p)
<1>a. p \in Seq(ItemsOf(p)) /\ Len(p) \in Nat \ {0} /\ \A k \in 1 .. Len(p) : p[k] \in ItemsOf(p)
  BY PlainSymbols
<1>1. /\ p \in Seq(ItemsOf(p)) /\ Len(p) \in Nat /\ p[i] \in ItemsOf(p) /\ p[i] = "*"
      /\ i \in 1 .. Len(p) /\ i \in 1 .. Len(p) + 1 /\ ~(i > Len(p)) /\ i + 1 \in 1 .. Len(p) + 1
      /\ i + 1 > Len(p) /\ i + 1 # Len(p) /\ ~(i < Len(p)) /\ ~(i + 1 < Len(p))
  BY <1>a
<1>2. /\ n \in Seq(Range(n)) /\ Len(n) \in Nat /\ \A l \in 1 .. Len(n) : n[l] # "\\"
  BY NameSymbols
<1>3. CharAt(p, i + 1) # "*"
  BY <1>1 DEF CharAt
<1>4. I[i] = <<p[i]>> \o I[i + 1] /\ I[i + 1] \in Seq(ItemsOf(p)) /\ I[i + 1] = <<>>
  BY <1>1, <1>3 DEF Tables, Itemized
<1>5. ASSUME NEW j \in 1 .. Len(n) + 1 PROVE M[i][j] <=> DenotesFrom(I[i], n, j)
  <2>1. M[i][j] <=> StarTried(p, n, M, i, j)
    BY <1>1 DEF Tables, Tried
  <2>2. StarTried(p, n, M, i, j) <=> \A k \in j .. Len(n) : n[k] \notin {"/", "\\"}
    BY <1>1, <1>3 DEF StarTried
  <2>3. \A k \in j .. Len(n) : k \in 1 .. Len(n)
    BY <1>2
  <2>4. StarTried(p, n, M, i, j) <=> \A k \in j .. Len(n) : n[k] # "/"
    BY <1>2, <2>2, <2>3
  <2>5. DenotesFrom(I[i], n, j) <=>
          \E k \in j - 1 .. Len(n) : Fits(SubSeq(n, j, k), "*") /\ DenotesFrom(I[i + 1], n, k + 1)
    <3>1. PICK x : x = "*"
      OBVIOUS
    <3>2. PICK r : r = I[i + 1]
      OBVIOUS
    <3>3. I[i] = <<x>> \o r /\ r \in Seq(ItemsOf(p)) /\ x \in ItemsOf(p)
      BY <1>1, <1>4, <3>1, <3>2
    <3> HIDE DEF i
    <3>5. DenotesFrom(<<x>> \o r, n, j) <=>
            \E k \in j - 1 .. Len(n) : Fits(SubSeq(n, j, k), x) /\ DenotesFrom(r, n, k + 1)
      BY <1>2, <3>3, DenotesFirst
    <3>6. QED
      BY <3>1, <3>2, <3>3, <3>5
  <2>6. ASSUME NEW k \in j - 1 .. Len(n) PROVE DenotesFrom(I[i + 1], n, k + 1) <=> k = Len(n)
    <3>1. k + 1 \in 1 .. Len(n) + 1 /\ (k + 1) - 1 = k
      BY <1>2
    <3>2. QED
      BY <1>2, <1>4, <3>1, DenotesNothing
  <2>7. Len(n) \in j - 1 .. Len(n)
    BY <1>2
  <2>8. Fits(SubSeq(n, j, Len(n)), "*") <=> \A l \in j .. Len(n) : n[l] # "/"
    BY <1>2, <2>7, FitsIs
  <2> HIDE DEF i
  <2>9. DenotesFrom(I[i], n, j) <=> Fits(SubSeq(n, j, Len(n)), "*")
    BY <2>5, <2>6, <2>7
  <2>10. QED
    BY <2>1, <2>4, <2>8, <2>9
<1>6. QED
  BY <1>5 DEF Agree

\* Two stars and a slash: the code tries them for nothing first, and then as two stars
\* before a slash.
LEMMA StarsAndSlash ==
    ASSUME NEW p, PlainPattern(p), NEW n, Name(n), NEW M, NEW I, Tables(p, n, M, I),
           NEW i \in 1 .. Len(p), p[i] = "*", CharAt(p, i + 1) = "*", CharAt(p, i + 2) = "/",
           Agree(n, M, I, i + 3)
    PROVE  Agree(n, M, I, i)
<1>a. p \in Seq(ItemsOf(p)) /\ Len(p) \in Nat /\ "**/" \in ItemsOf(p)
  BY PlainSymbols DEF ItemsOf
<1>b. CharAt(p, i + 2) = "/" => i + 2 <= Len(p) /\ p[i + 2] = "/"
  BY DEF CharAt
<1>1. /\ i + 2 \in 1 .. Len(p) /\ i \in 1 .. Len(p) + 1 /\ ~(i > Len(p)) /\ i # Len(p)
      /\ i + 1 # Len(p) /\ i + 1 < Len(p) /\ i + 3 \in 1 .. Len(p) + 1 /\ p[i + 2] = "/"
      /\ (i + 2) + 1 = i + 3
  BY <1>a, <1>b
<1>2. /\ n \in Seq(Range(n)) /\ Len(n) \in Nat
      /\ \A l \in 1 .. Len(n) : SameChar(n[l], "/") <=> n[l] = "/"
  BY NameSymbols
<1>3. I[i] = <<"**/">> \o I[i + 3] /\ I[i + 3] \in Seq(ItemsOf(p))
  BY <1>1 DEF Tables, Itemized
<1>4. \A k \in 1 .. Len(n) + 1 :
         M[i + 2][k] <=> k <= Len(n) /\ SameChar(n[k], "/") /\ M[i + 3][k + 1]
  BY <1>1, OneCharacter
<1>5. ASSUME NEW j \in 1 .. Len(n) + 1 PROVE M[i][j] <=> DenotesFrom(I[i], n, j)
  <2>1. M[i][j] <=> StarTried(p, n, M, i, j)
    BY <1>1 DEF Tables, Tried
  <2>2. StarTried(p, n, M, i, j) <=> M[i + 3][j] \/ \E k \in j .. Len(n) : M[i + 2][k]
    BY <1>1 DEF StarTried
  <2>3. DenotesFrom(I[i], n, j) <=>
          \E k \in j - 1 .. Len(n) : Fits(SubSeq(n, j, k), "**/") /\ DenotesFrom(I[i + 3], n, k + 1)
    BY <1>a, <1>2, <1>3, DenotesFirst
  <2>4. \A k \in j - 1 .. Len(n) : Fits(SubSeq(n, j, k), "**/") <=> k = j - 1 \/ n[k] = "/"
    BY <1>2, FitsIs
  <2>5. /\ j - 1 \in j - 1 .. Len(n) /\ (j - 1) + 1 = j
        /\ \A k \in j .. Len(n) : /\ k \in j - 1 .. Len(n) /\ k \in 1 .. Len(n) + 1 /\ k # j - 1
                                  /\ k \in 1 .. Len(n) /\ k + 1 \in 1 .. Len(n) + 1 /\ k <= Len(n)
        /\ \A k \in j - 1 .. Len(n) : k = j - 1 \/ k \in j .. Len(n)
    BY <1>2
  <2>6. M[i + 3][j] <=> DenotesFrom(I[i + 3], n, j)
    BY DEF Agree
  <2>7. ASSUME NEW k \in j .. Len(n)
        PROVE  M[i + 2][k] <=> n[k] = "/" /\ DenotesFrom(I[i + 3], n, k + 1)
    <3>1. M[i + 3][k + 1] <=> DenotesFrom(I[i + 3], n, k + 1)
      BY <2>5 DEF Agree
    <3>2. QED
      BY <1>2, <1>4, <2>5, <3>1
  <2>8. QED
    BY <2>1, <2>2, <2>3, <2>4, <2>5, <2>6, <2>7
<1>6. QED
  BY <1>5 DEF Agree

\* Two stars at the end.
LEMMA StarsAtEnd ==
    ASSUME NEW p, PlainPattern(p), NEW n, Name(n), NEW M, NEW I, Tables(p, n, M, I),
           NEW i \in 1 .. Len(p), p[i] = "*", CharAt(p, i + 1) = "*", i + 1 = Len(p)
    PROVE  Agree(n, M, I, i)
<1>a. p \in Seq(ItemsOf(p)) /\ Len(p) \in Nat /\ "**" \in ItemsOf(p)
  BY PlainSymbols DEF ItemsOf
<1>1. /\ i \in 1 .. Len(p) + 1 /\ ~(i > Len(p)) /\ i + 2 \in 1 .. Len(p) + 1 /\ i + 2 > Len(p)
      /\ ~(i + 2 <= Len(p))
  BY <1>a
<1>2. n \in Seq(Range(n)) /\ Len(n) \in Nat
  BY NameSymbols
<1>3. CharAt(p, i + 2) # "/"
  BY <1>1 DEF CharAt
<1>4. I[i] = <<"**">> \o I[i + 2] /\ I[i + 2] \in Seq(ItemsOf(p)) /\ I[i + 2] = <<>>
  BY <1>1, <1>3 DEF Tables, Itemized
<1>5. ASSUME NEW j \in 1 .. Len(n) + 1 PROVE M[i][j] <=> DenotesFrom(I[i], n, j)
  <2>1. M[i][j] <=> StarTried(p, n, M, i, j)
    BY <1>1 DEF Tables, Tried
  <2>2. StarTried(p, n, M, i, j)
    BY DEF StarTried
  <2>3. DenotesFrom(I[i], n, j) <=>
          \E k \in j - 1 .. Len(n) : Fits(SubSeq(n, j, k), "**") /\ DenotesFrom(I[i + 2], n, k + 1)
    <3>1. PICK x : x = "**"
      OBVIOUS
    <3>2. PICK r : r = I[i + 2]
      OBVIOUS
    <3>3. I[i] = <<x>> \o r /\ r \in Seq(ItemsOf(p)) /\ x \in ItemsOf(p)
      BY <1>a, <1>4, <3>1, <3>2
    <3>4. DenotesFrom(<<x>> \o r, n, j) <=>
            \E k \in j - 1 .. Len(n) : Fits(SubSeq(n, j, k), x) /\ DenotesFrom(r, n, k + 1)
      BY <1>2, <3>3, DenotesFirst
    <3>5. QED
      BY <3>1, <3>2, <3>3, <3>4
  <2>4. /\ Len(n) \in j - 1 .. Len(n) /\ Len(n) + 1 \in 1 .. Len(n) + 1
        /\ (Len(n) + 1) - 1 = Len(n)
    BY <1>2
  <2>5. Fits(SubSeq(n, j, Len(n)), "**")
    BY <1>2, <2>4, FitsIs
  <2>6. DenotesFrom(I[i + 2], n, Len(n) + 1)
    BY <1>2, <1>4, <2>4, DenotesNothing
  <2>7. QED
    BY <2>1, <2>2, <2>3, <2>4, <2>5, <2>6
<1>6. QED
  BY <1>5 DEF Agree

\* Two stars before something else, which is no star.
LEMMA StarsInside ==
    ASSUME NEW p, PlainPattern(p), NEW n, Name(n), NEW M, NEW I, Tables(p, n, M, I),
           NEW i \in 1 .. Len(p), p[i] = "*", CharAt(p, i + 1) = "*", CharAt(p, i + 2) # "/",
           i + 1 < Len(p), Agree(n, M, I, i + 2)
    PROVE  Agree(n, M, I, i)
<1>a. p \in Seq(ItemsOf(p)) /\ Len(p) \in Nat /\ "**" \in ItemsOf(p)
  BY PlainSymbols DEF ItemsOf
<1>1. /\ i \in 1 .. Len(p) + 1 /\ ~(i > Len(p)) /\ i + 2 \in 1 .. Len(p) + 1 /\ i # Len(p)
      /\ i + 2 \in 1 .. Len(p) /\ i \in 1 .. Len(p) - 2 /\ i + 1 # Len(p) /\ i + 1 <= Len(p)
      /\ \A k \in i .. i + 2 : k = i \/ k = i + 1 \/ k = i + 2
  BY <1>a
<1>2. n \in Seq(Range(n)) /\ Len(n) \in Nat
  BY NameSymbols
<1>3. p[i + 2] # "*"
  <2>1. \E k \in i .. i + 2 : p[k] # "*"
    BY <1>1 DEF PlainPattern
  <2>2. p[i + 1] = "*"
    BY <1>1 DEF CharAt
  <2>3. QED
    BY <1>1, <2>1, <2>2
<1>4. I[i] = <<"**">> \o I[i + 2] /\ I[i + 2] \in Seq(ItemsOf(p))
  BY <1>1 DEF Tables, Itemized
<1>5. ~DenotesFrom(I[i + 2], n, Len(n) + 1)
  <2>1. Len(n) + 1 \in 1 .. Len(n) + 1 /\ ~(Len(n) + 1 <= Len(n))
    BY <1>2
  <2>2. QED
    BY <1>1, <1>3, <2>1, OneCharacter
<1>6. ASSUME NEW j \in 1 .. Len(n) + 1 PROVE M[i][j] <=> DenotesFrom(I[i], n, j)
  <2>1. M[i][j] <=> StarTried(p, n, M, i, j)
    BY <1>1 DEF Tables, Tried
  <2>2. StarTried(p, n, M, i, j) <=> \E k \in j .. Len(n) : M[i + 2][k]
    BY <1>1 DEF StarTried
  <2>3. DenotesFrom(I[i], n, j) <=>
          \E k \in j - 1 .. Len(n) : Fits(SubSeq(n, j, k), "**") /\ DenotesFrom(I[i + 2], n, k + 1)
    BY <1>a, <1>2, <1>4, DenotesFirst
  <2>4. \A k \in j - 1 .. Len(n) : Fits(SubSeq(n, j, k), "**")
    BY <1>2, FitsIs
  <2>5. ASSUME NEW k \in j .. Len(n), M[i + 2][k] PROVE DenotesFrom(I[i], n, j)
    <3>1. k - 1 \in j - 1 .. Len(n) /\ (k - 1) + 1 = k /\ k \in 1 .. Len(n) + 1
      BY <1>2
    <3>2. DenotesFrom(I[i + 2], n, (k - 1) + 1)
      BY <2>5, <3>1 DEF Agree
    <3>3. QED
      BY <2>3, <2>4, <3>1, <3>2
  <2>6. ASSUME NEW k \in j - 1 .. Len(n), DenotesFrom(I[i + 2], n, k + 1)
        PROVE  \E m \in j .. Len(n) : M[i + 2][m]
    <3>1. k # Len(n)
      BY <1>5, <2>6
    <3>2. k + 1 \in j .. Len(n) /\ k + 1 \in 1 .. Len(n) + 1
      BY <1>2, <3>1
    <3>3. M[i + 2][k + 1]
      BY <2>6, <3>2 DEF Agree
    <3>4. QED
      BY <3>2, <3>3
  <2>7. QED
    BY <2>1, <2>2, <2>3, <2>5, <2>6
<1>7. QED
  BY <1>6 DEF Agree

\* The search of glob.cpp misses no way of matching, whatever the pattern and the name.
LEMMA MatchAgrees ==
    ASSUME NEW p, PlainPattern(p), NEW n, Name(n)
    PROVE  Match(p, n) <=> Denotes(Items(p), n)
<1> DEFINE N == Len(p) + 1
<1>1. p \in Seq(ItemsOf(p)) /\ Len(p) \in Nat /\ "**" \in ItemsOf(p) /\ "**/" \in ItemsOf(p)
  BY PlainSymbols DEF ItemsOf
<1>2. n \in Seq(Range(n)) /\ Len(n) \in Nat
  BY NameSymbols
<1>3. PICK M : /\ Match(p, n) <=> M[1][1]
               /\ \A i \in 1 .. Len(p) + 1 : \A j \in 1 .. Len(n) + 1 :
                    M[i][j] <=> Tried(p, n, M, i, j)
  BY <1>1, <1>2, MatchTries
<1>4. PICK I : /\ Items(p) = I[1]
               /\ \A i \in 1 .. Len(p) + 1 : I[i] \in Seq(ItemsOf(p)) /\ I[i] = Itemized(p, I, i)
  BY <1>1, ItemsAre
<1>5. Tables(p, n, M, I)
  BY <1>3, <1>4 DEF Tables
<1>6. ASSUME NEW i \in 1 .. N, \A k \in i + 1 .. N : Agree(n, M, I, k) PROVE Agree(n, M, I, i)
  <2>a. /\ i <= Len(p) => i \in 1 .. Len(p) /\ i + 1 \in i + 1 .. N
        /\ i <= Len(p) /\ CharAt(p, i + 1) = "*" => i + 2 \in i + 1 .. N
        /\ i <= Len(p) /\ CharAt(p, i + 1) = "*" /\ CharAt(p, i + 2) = "/" => i + 3 \in i + 1 .. N
    BY <1>1, Within
  <2>1. CASE i > Len(p)
    <3>1. I[i] = <<>>
      BY <2>1, <1>5 DEF Tables, Itemized
    <3>2. ASSUME NEW j \in 1 .. Len(n) + 1 PROVE M[i][j] <=> DenotesFrom(I[i], n, j)
      <4>1. M[i][j] <=> j > Len(n)
        BY <2>1, <1>5 DEF Tables, Tried
      <4>2. j > Len(n) <=> j - 1 = Len(n)
        BY <1>2
      <4>3. QED
        BY <1>2, <3>1, <4>1, <4>2, DenotesNothing
    <3>3. QED
      BY <3>2 DEF Agree
  <2>2. CASE i <= Len(p) /\ p[i] # "*"
    <3>1. Agree(n, M, I, i + 1) /\ i \in 1 .. Len(p)
      BY <1>6, <2>2, <2>a
    <3>2. ASSUME NEW j \in 1 .. Len(n) + 1 PROVE M[i][j] <=> DenotesFrom(I[i], n, j)
      <4>1. /\ M[i][j] <=> j <= Len(n) /\ (p[i] = "?" \/ SameChar(n[j], p[i])) /\ M[i + 1][j + 1]
            /\ DenotesFrom(I[i], n, j) <=>
                 j <= Len(n) /\ (p[i] = "?" \/ SameChar(n[j], p[i])) /\ DenotesFrom(I[i + 1], n, j + 1)
        BY <1>5, <2>2, <3>1, OneCharacter
      <4>2. j <= Len(n) => (M[i + 1][j + 1] <=> DenotesFrom(I[i + 1], n, j + 1))
        <5>1. j <= Len(n) => j + 1 \in 1 .. Len(n) + 1
          BY <1>2
        <5>2. QED
          BY <3>1, <5>1 DEF Agree
      <4>3. QED
        BY <4>1, <4>2
    <3>3. QED
      BY <3>2 DEF Agree
  <2>3. CASE i <= Len(p) /\ p[i] = "*" /\ CharAt(p, i + 1) # "*" /\ i < Len(p)
    BY <1>5, <1>6, <2>3, <2>a, StarInside
  <2>4. CASE i <= Len(p) /\ p[i] = "*" /\ CharAt(p, i + 1) # "*" /\ ~(i < Len(p))
    <3>1. i = Len(p)
      BY <1>1, <2>4
    <3>2. QED
      BY <1>5, <2>4, <3>1, StarAtEnd
  <2>5. CASE i <= Len(p) /\ p[i] = "*" /\ CharAt(p, i + 1) = "*" /\ CharAt(p, i + 2) = "/"
    BY <1>5, <1>6, <2>5, <2>a, StarsAndSlash
  <2>6. CASE /\ i <= Len(p) /\ p[i] = "*" /\ CharAt(p, i + 1) = "*" /\ CharAt(p, i + 2) # "/"
             /\ i + 1 = Len(p)
    BY <1>5, <2>6, <2>a, StarsAtEnd
  <2>7. CASE /\ i <= Len(p) /\ p[i] = "*" /\ CharAt(p, i + 1) = "*" /\ CharAt(p, i + 2) # "/"
             /\ i + 1 # Len(p)
    <3>1. i + 1 < Len(p)
      <4>1. i + 1 <= Len(p)
        BY <2>7 DEF CharAt
      <4>2. QED
        BY <1>1, <2>7, <4>1
    <3>2. QED
      BY <1>5, <1>6, <2>7, <2>a, <3>1, StarsInside
  <2>8. i > Len(p) \/ i <= Len(p)
    BY <1>1
  <2>9. QED
    BY <2>1, <2>2, <2>3, <2>4, <2>5, <2>6, <2>7, <2>8
<1>7. Agree(n, M, I, 1)
  <2> DEFINE T == {d \in Nat : \A k \in 1 .. N : N - k = d => \A l \in k .. N : Agree(n, M, I, l)}
  <2>1. 0 \in T
    <3> SUFFICES ASSUME NEW k \in 1 .. N, N - k = 0, NEW l \in k .. N PROVE Agree(n, M, I, l)
      OBVIOUS
    <3>1. l \in 1 .. N /\ l + 1 .. N = {}
      BY <1>1
    <3>2. QED
      BY <1>6, <3>1
  <2>2. ASSUME NEW d \in Nat, d \in T PROVE d + 1 \in T
    <3> SUFFICES ASSUME NEW k \in 1 .. N, N - k = d + 1, NEW l \in k .. N PROVE Agree(n, M, I, l)
      OBVIOUS
    <3>1. k + 1 \in 1 .. N /\ N - (k + 1) = d
      BY <1>1
    <3>2. \A m \in k + 1 .. N : Agree(n, M, I, m)
      BY <2>2, <3>1
    <3>3. CASE l = k
      BY <1>6, <3>2, <3>3
    <3>4. CASE l # k
      BY <1>1, <3>2, <3>4
    <3>5. QED
      BY <3>3, <3>4
  <2>3. Nat \subseteq T
    <3> HIDE DEF T
    <3>1. QED
      BY <2>1, <2>2, Induction
  <2>4. N - 1 \in Nat /\ 1 \in 1 .. N
    BY <1>1
  <2>5. N - 1 \in T
    <3> HIDE DEF T
    <3>1. QED
      BY <2>3, <2>4
  <2>6. QED
    BY <2>4, <2>5
<1>8. M[1][1] <=> DenotesFrom(I[1], n, 1)
  <2>1. 1 \in 1 .. Len(n) + 1
    BY <1>2
  <2>2. QED
    BY <1>7, <2>1 DEF Agree
<1>9. I[1] \in Seq(ItemsOf(p))
  BY <1>1, <1>4
<1>10. QED
  BY <1>3, <1>4, <1>8, <1>9, DenotesWhole

\* Nothing is split where there is no separator.
LEMMA NotSplit ==
    ASSUME NEW S, NEW s \in Seq(S), NEW separators, \A i \in 1 .. Len(s) : s[i] \notin separators
    PROVE  Split(s, separators) = [k \in 1 .. 1 |-> s]
<1> DEFINE cuts  == {i \in DOMAIN s : s[i] \in separators}
           at(k) == IF k = 0 THEN 0
                    ELSE IF k > Cardinality(cuts) THEN Len(s) + 1
                    ELSE CHOOSE i \in cuts : Cardinality({j \in cuts : j <= i}) = k
<1>1. Split(s, separators)
        = [k \in 1 .. Cardinality(cuts) + 1 |-> SubSeq(s, at(k - 1) + 1, at(k) - 1)]
  BY DEF Split
<1>2. DOMAIN s = 1 .. Len(s) /\ Len(s) \in Nat
  BY LenProperties
<1>3. cuts = {}
  BY <1>2
<1>4. Cardinality(cuts) = 0
  BY <1>3, FS_EmptySet
<1>5. at(0) = 0 /\ at(1) = Len(s) + 1
  BY <1>4
<1> HIDE DEF cuts, at
<1>6. 0 + 1 = 1 /\ Len(s) + 1 - 1 = Len(s) /\ 1 - 1 = 0
  BY <1>2
<1>7. \A k \in 1 .. 1 : k = 1
  OBVIOUS
<1>8. \A k \in 1 .. 1 : SubSeq(s, at(k - 1) + 1, at(k) - 1) = SubSeq(s, 1, Len(s))
  BY <1>5, <1>6, <1>7
<1>9. SubSeq(s, 1, Len(s)) = s
  BY SubSeqFull
<1>10. QED
  BY <1>1, <1>4, <1>6, <1>8, <1>9

\* One piece is put together to what it is.
LEMMA OneFlattened ==
    ASSUME NEW x PROVE FlattenSeq([k \in 1 .. 1 |-> x]) = x
<1> DEFINE s == [k \in 1 .. 1 |-> x]
           body(w) == [i \in 1 .. Len(s) |-> IF i = 1 THEN s[i] ELSE w[i - 1] \o s[i]]
           flatten == CHOOSE w : w = body(w)
<1>1. s \in Seq({x}) /\ Len(s) = 1
  BY SeqDef, LenProperties
<1>2. FlattenSeq(s) = flatten[Len(s)]
  BY <1>1 DEF FlattenSeq
<1>3. \A w : body(w) = s
  BY <1>1
<1>4. s = body(s)
  BY <1>3
<1> HIDE DEF body
<1>5. flatten = body(flatten)
  BY <1>4
<1>6. flatten = s
  BY <1>3, <1>5
<1>7. s[1] = x
  OBVIOUS
<1> HIDE DEF flatten, s
<1>8. FlattenSeq(s) = x
  BY <1>1, <1>2, <1>6, <1>7
<1>9. QED
  BY <1>8 DEF s

\* What one turn of the loop of expand_group makes of the patterns.
Opened(S, k, f) ==
    [q \in S |->
        IF k = 0 \/ Groups(q) = {} THEN <<q>>
        ELSE LET g == CHOOSE g \in Groups(q) : \A h \in Groups(q) : g[1] <= h[1]
                 options == Split(SubSeq(q, g[1] + 1, g[2] - 1), {","})
             IN  FlattenSeq([i \in DOMAIN options |->
                    f[SubSeq(q, 1, g[1] - 1) \o options[i] \o SubSeq(q, g[2] + 1, Len(q))]])]

\* A pattern without groups stands for itself.
LEMMA NotOpened ==
    ASSUME NEW p, p \in Seq(Range(p)), Groups(p) = {}
    PROVE  expand_group(p) = <<p>>
<1> DEFINE S == Seq(Range(p))
           n == Len(p)
           body(w) == [k \in 0 .. Len(p) |-> Opened(Seq(Range(p)), k, w[k - 1])]
           loop == CHOOSE w : w = body(w)
           Taken(f, m) == /\ f = [k \in 0 .. m |-> f[k]]
                          /\ f[0] = Opened(S, 0, {})
                          /\ \A k \in 1 .. m : f[k] = Opened(S, k, f[k - 1])
           T == {m \in Nat : \E f : Taken(f, m)}
<1>1. n \in Nat
  BY LenProperties
<1>2. expand_group(p) = loop[n][p]
  BY DEF expand_group, Opened
<1>3. 0 \in T
  <2> DEFINE f == [k \in 0 .. 0 |-> Opened(S, 0, {})]
  <2>1. Taken(f, 0)
    OBVIOUS
  <2>2. QED
    BY <2>1
<1>4. ASSUME NEW m \in Nat, m \in T PROVE m + 1 \in T
  <2>1. PICK f : Taken(f, m)
    BY <1>4
  <2> DEFINE g == [k \in 0 .. m + 1 |-> IF k = m + 1 THEN Opened(S, m + 1, f[m]) ELSE f[k]]
  <2>2. g = [k \in 0 .. m + 1 |-> g[k]] /\ g[0] = Opened(S, 0, {})
    BY <2>1
  <2>3. g[m + 1] = Opened(S, m + 1, f[m]) /\ \A k \in 0 .. m : g[k] = f[k]
    OBVIOUS
  <2> HIDE DEF g
  <2>4. ASSUME NEW k \in 1 .. m + 1 PROVE g[k] = Opened(S, k, g[k - 1])
    <3>1. CASE k = m + 1
      <4>1. k - 1 = m /\ m \in 0 .. m
        BY <3>1
      <4>2. QED
        BY <2>3, <3>1, <4>1
    <3>2. CASE k # m + 1
      <4>1. k \in 1 .. m /\ k \in 0 .. m /\ k - 1 \in 0 .. m
        BY <3>2
      <4>2. f[k] = Opened(S, k, f[k - 1])
        BY <2>1, <4>1
      <4>3. QED
        BY <2>3, <4>1, <4>2
    <3>3. QED
      BY <3>1, <3>2
  <2>5. Taken(g, m + 1)
    BY <2>2, <2>4
  <2>6. m + 1 \in Nat
    OBVIOUS
  <2> HIDE DEF Taken
  <2>7. QED
    BY <2>5, <2>6
<1>5. Nat \subseteq T
  <2> HIDE DEF T
  <2>1. QED
    BY <1>3, <1>4, Induction
<1>6. PICK f : Taken(f, n)
  BY <1>1, <1>5
<1>7. ASSUME NEW u, NEW v PROVE Opened(S, 0, u) = Opened(S, 0, v)
  <2>1. \A w : Opened(S, 0, w) = [q \in S |-> <<q>>]
    BY DEF Opened
  <2>2. QED
    BY <2>1
<1>8. \A w : /\ body(w) = [k \in 0 .. n |-> body(w)[k]]
             /\ \A k \in 0 .. n : body(w)[k] = Opened(S, k, w[k - 1])
  OBVIOUS
<1> HIDE DEF body
<1>9. f = body(f)
  <2>1. \A k \in 0 .. n : k = 0 \/ k \in 1 .. n
    BY <1>1
  <2>2. ASSUME NEW k \in 0 .. n PROVE f[k] = body(f)[k]
    <3>1. body(f)[k] = Opened(S, k, f[k - 1])
      BY <1>8
    <3>2. CASE k = 0
      <4>1. Opened(S, 0, {}) = Opened(S, 0, f[0 - 1])
        BY <1>7
      <4>2. QED
        BY <1>6, <3>1, <3>2, <4>1
    <3>3. CASE k \in 1 .. n
      BY <1>6, <3>1, <3>3
    <3>4. QED
      BY <2>1, <3>2, <3>3
  <2>3. QED
    BY <2>2, <1>6, <1>8
<1>10. loop = body(loop)
  BY <1>9
<1>11. \A x : Opened(S, n, x)[p] = <<p>>
  BY DEF Opened
<1>12. n \in 0 .. n
  BY <1>1
<1> HIDE DEF loop, n
<1>13. loop[n] = Opened(S, n, loop[n - 1])
  BY <1>8, <1>10, <1>12
<1>14. QED
  BY <1>2, <1>11, <1>13

\* A plain pattern stands for itself.
LEMMA PlainExpanded ==
    ASSUME NEW p, PlainPattern(p)
    PROVE  Expanded(p) = [k \in 1 .. 1 |-> p]
<1>1. /\ p \in Seq(Range(p)) /\ Len(p) \in Nat \ {0} /\ p[Len(p)] # "/"
      /\ \A i \in 1 .. Len(p) : p[i] \notin {"{", ";"}
  BY PlainSymbols
<1>2. CharAt(p, Len(p)) # "/"
  BY <1>1 DEF CharAt
<1>3. Groups(p) = {}
  BY <1>1 DEF Groups
<1>4. expand_group(p) = <<p>>
  BY <1>1, <1>3, NotOpened
<1>5. Split(p, {";"}) = [k \in 1 .. 1 |-> p]
  BY <1>1, NotSplit
<1> DEFINE parts == [k \in 1 .. 1 |-> p]
<1>6. Expanded(p) = FlattenSeq([i \in DOMAIN parts |-> expand_group(parts[i])])
  BY <1>2, <1>5 DEF Expanded
<1>7. [i \in DOMAIN parts |-> expand_group(parts[i])] = [k \in 1 .. 1 |-> <<p>>]
  BY <1>4
<1>8. FlattenSeq([k \in 1 .. 1 |-> <<p>>]) = <<p>>
  BY OneFlattened
<1>9. <<p>> = [k \in 1 .. 1 |-> p]
  OBVIOUS
<1>10. QED
  BY <1>6, <1>7, <1>8, <1>9

\* glob_match looks for such a pattern as a whole.
LEMMA PlainMatch ==
    ASSUME NEW p, PlainPattern(p), NEW path, Name(path)
    PROVE  glob_match(path, p) <=> Match(p, path)
<1>1. Expanded(p) = [k \in 1 .. 1 |-> p] /\ p # <<>>
  BY PlainExpanded DEF PlainPattern
<1>2. Range(Expanded(p)) = {p}
  BY <1>1 DEF Range
<1>3. QED
  BY <1>1, <1>2 DEF glob_match

\* glob_match, Match: a plain pattern matches exactly the names it denotes, although the
\* search takes a star that ends the pattern for one with nothing behind it, and tries
\* the others at every place but the end of the name.
THEOREM PatternsAsMeant ==
    ASSUME NEW p, PlainPattern(p), NEW path, Name(path)
    PROVE  glob_match(path, p) <=> Denotes(Items(p), path)
BY PlainMatch, MatchAgrees

\* The login page's address is a pattern for itself alone.
LEMMA OnlyLogin ==
    ASSUME NEW path, Name(path)
    PROVE  glob_match(path, Login) <=> path = Login
<1>1. /\ Login \in Seq({"/", "login"}) /\ Len(Login) = 2 /\ DOMAIN Login = 1 .. 2
      /\ Login[1] = "/" /\ Login[2] = "login" /\ Login # <<>>
  BY DEF Login
<1>2. PlainPattern(Login)
  <2>1. Range(Login) = {"/", "login"}
    BY <1>1 DEF Range
  <2>2. Last(Login) # "/"
    BY <1>1 DEF Last
  <2>3. \A i \in 1 .. Len(Login) - 2 : \E j \in i .. i + 2 : Login[j] # "*"
    BY <1>1
  <2>4. QED
    BY <1>1, <2>1, <2>2, <2>3 DEF PlainPattern
<1>3. path \in Seq(Range(path)) /\ Len(path) \in Nat
  BY NameSymbols
<1>4. PICK M : /\ Match(Login, path) <=> M[1][1]
               /\ \A i \in 1 .. Len(Login) + 1 : \A j \in 1 .. Len(path) + 1 :
                    M[i][j] <=> Tried(Login, path, M, i, j)
  BY <1>1, <1>3, MatchTries
<1>5. \A j \in 1 .. Len(path) + 1 :
        /\ M[1][j] <=> j <= Len(path) /\ SameChar(path[j], "/") /\ M[2][j + 1]
        /\ M[2][j] <=> j <= Len(path) /\ SameChar(path[j], "login") /\ M[3][j + 1]
        /\ M[3][j] <=> j > Len(path)
  BY <1>1, <1>4 DEF Tried
<1>6. M[1][1] <=> Len(path) = 2 /\ SameChar(path[1], "/") /\ SameChar(path[2], "login")
  <2>1. M[1][1] <=> 1 <= Len(path) /\ SameChar(path[1], "/") /\ M[2][2]
    <3>1. 1 \in 1 .. Len(path) + 1 /\ 1 + 1 = 2
      BY <1>3
    <3>2. QED
      BY <1>5, <3>1
  <2>2. 1 <= Len(path) => (M[2][2] <=> 2 <= Len(path) /\ SameChar(path[2], "login") /\ M[3][3])
    <3>1. 1 <= Len(path) => 2 \in 1 .. Len(path) + 1 /\ 2 + 1 = 3
      BY <1>3
    <3>2. QED
      BY <1>5, <3>1
  <2>3. ASSUME 2 <= Len(path) PROVE M[3][3] <=> 3 > Len(path)
    <3>1. 3 \in 1 .. Len(path) + 1
      BY <1>3, <2>3
    <3>2. \A j \in 1 .. Len(path) + 1 : M[3][j] <=> j > Len(path)
      BY <1>5
    <3>3. QED
      BY <3>1, <3>2
  <2>4. Len(path) = 2 <=> 1 <= Len(path) /\ 2 <= Len(path) /\ 3 > Len(path)
    <3>1. \A k \in Nat : k = 2 <=> 1 <= k /\ 2 <= k /\ 3 > k
      OBVIOUS
    <3>2. QED
      BY <1>3, <3>1
  <2>5. QED
    BY <2>1, <2>2, <2>3, <2>4
<1>7. Len(path) = 2 => (SameChar(path[1], "/") <=> path[1] = "/")
                       /\ (SameChar(path[2], "login") <=> path[2] = "login")
  <2>1. Len(path) = 2 => (SameChar(path[1], "/") <=> path[1] = "/")
    BY NameSymbols
  <2>2. \A c : SameChar(c, "login") <=> c = "login"
    BY DEF SameChar, Lower
  <2>3. QED
    BY <2>1, <2>2
<1>8. Len(path) = 2 /\ path[1] = "/" /\ path[2] = "login" <=> path = Login
  BY <1>1, <1>3 DEF Login
<1>9. QED
  BY <1>2, <1>4, <1>6, <1>7, <1>8, PlainMatch

-----------------------------------------------------------------------------
(* The loop over the controllers *)

NotFound == Result(Reply("not_found", Error), FALSE, None)

\* One turn of the loop.
Turn(i, req, done) ==
    IF \/ done.handled \/ done.thrown # None
       \/ ~path_matches_prefix(Controllers[i], req.path)
    THEN done ELSE HandleBy(i, req, done.reply)

\* The loop is a function that takes these turns.
LEMMA DispatchTurns ==
    ASSUME AsUsual, NEW req
    PROVE  \E D : /\ Dispatch(req) = D[Len(Controllers)]
                  /\ D[0] = NotFound
                  /\ \A i \in 1 .. Len(Controllers) : D[i] = Turn(i, req, D[i - 1])
<1> DEFINE n == Len(Controllers)
           body(w) == [i \in 0 .. Len(Controllers) |->
                         IF i = 0 THEN Result(Reply("not_found", Error), FALSE, None)
                         ELSE LET done == w[i - 1]
                              IN  IF \/ done.handled \/ done.thrown # None
                                     \/ ~path_matches_prefix(Controllers[i], req.path)
                                  THEN done ELSE HandleBy(i, req, done.reply)]
           loop == CHOOSE w : w = body(w)
           Taken(f, m) == /\ f = [k \in 0 .. m |-> f[k]]
                          /\ f[0] = NotFound
                          /\ \A k \in 1 .. m : f[k] = Turn(k, req, f[k - 1])
           T == {m \in Nat : \E f : Taken(f, m)}
<1>1. n \in Nat
  BY DEF AsUsual
<1>2. Dispatch(req) = loop[n]
  BY DEF Dispatch
<1>3. 0 \in T
  <2> DEFINE f == [k \in 0 .. 0 |-> NotFound]
  <2>1. Taken(f, 0)
    OBVIOUS
  <2>2. QED
    BY <2>1
<1>4. ASSUME NEW m \in Nat, m \in T PROVE m + 1 \in T
  <2>1. PICK f : Taken(f, m)
    BY <1>4
  <2> DEFINE g == [k \in 0 .. m + 1 |-> IF k = m + 1 THEN Turn(m + 1, req, f[m]) ELSE f[k]]
  <2>2. g = [k \in 0 .. m + 1 |-> g[k]] /\ g[0] = NotFound
    BY <2>1
  <2>3. g[m + 1] = Turn(m + 1, req, f[m]) /\ \A k \in 0 .. m : g[k] = f[k]
    OBVIOUS
  <2> HIDE DEF g
  <2>4. ASSUME NEW k \in 1 .. m + 1 PROVE g[k] = Turn(k, req, g[k - 1])
    <3>1. CASE k = m + 1
      <4>1. k - 1 = m /\ m \in 0 .. m
        BY <3>1
      <4>2. QED
        BY <2>3, <3>1, <4>1
    <3>2. CASE k # m + 1
      <4>1. k \in 1 .. m /\ k \in 0 .. m /\ k - 1 \in 0 .. m
        BY <3>2
      <4>2. f[k] = Turn(k, req, f[k - 1])
        BY <2>1, <4>1
      <4>3. QED
        BY <2>3, <4>1, <4>2
    <3>3. QED
      BY <3>1, <3>2
  <2>5. Taken(g, m + 1)
    BY <2>2, <2>4
  <2>6. m + 1 \in Nat
    OBVIOUS
  <2> HIDE DEF Taken
  <2>7. QED
    BY <2>5, <2>6
<1>5. Nat \subseteq T
  <2> HIDE DEF T
  <2>1. QED
    BY <1>3, <1>4, Induction
<1>6. PICK f : Taken(f, n)
  BY <1>1, <1>5
<1>7. \A w : /\ body(w) = [k \in 0 .. n |-> body(w)[k]]
             /\ body(w)[0] = NotFound
             /\ \A k \in 1 .. n : body(w)[k] = Turn(k, req, w[k - 1])
  <2> SUFFICES ASSUME NEW w
               PROVE  /\ body(w) = [k \in 0 .. n |-> body(w)[k]]
                      /\ body(w)[0] = NotFound
                      /\ \A k \in 1 .. n : body(w)[k] = Turn(k, req, w[k - 1])
    OBVIOUS
  <2>1. body(w) = [k \in 0 .. n |-> body(w)[k]]
    OBVIOUS
  <2>2. body(w)[0] = NotFound
    BY <1>1 DEF NotFound
  <2>3. ASSUME NEW k \in 1 .. n PROVE body(w)[k] = Turn(k, req, w[k - 1])
    <3>1. k \in 0 .. n /\ k # 0
      OBVIOUS
    <3>2. QED
      BY <3>1 DEF Turn
  <2>4. QED
    BY <2>1, <2>2, <2>3
<1> HIDE DEF body
<1>8. f = body(f)
  <2>1. \A k \in 0 .. n : k = 0 \/ k \in 1 .. n
    BY <1>1
  <2>2. \A k \in 0 .. n : f[k] = body(f)[k]
    BY <2>1, <1>6, <1>7
  <2>3. QED
    BY <2>2, <1>6, <1>7
<1>9. loop = body(loop)
  BY <1>8
<1> HIDE DEF loop
<1>10. QED
  BY <1>2, <1>7, <1>9

\* The loop has nothing more to do.
Done(r) == r.handled \/ r.thrown # None

\* A request that is handled, or ends in an exception, stays as it is.
LEMMA HandledOnce ==
    ASSUME AsUsual, NEW req, NEW D, NEW b \in 1 .. Len(Controllers), NEW r, D[b] = r, Done(r),
           \A i \in 1 .. Len(Controllers) : D[i] = Turn(i, req, D[i - 1])
    PROVE  D[Len(Controllers)] = r
<1> DEFINE n == Len(Controllers)
           T == {k \in Nat : b + k <= n => D[b + k] = r}
<1>1. n \in Nat \ {0} /\ b + 0 = b /\ b \in Nat
  BY DEF AsUsual
<1>2. 0 \in T
  BY <1>1
<1>3. ASSUME NEW k \in Nat, k \in T PROVE k + 1 \in T
  <2> SUFFICES ASSUME b + (k + 1) <= n PROVE D[b + (k + 1)] = r
    OBVIOUS
  <2>1. PICK m : m = b + (k + 1)
    OBVIOUS
  <2>2. m \in 1 .. n /\ m - 1 = b + k /\ b + k <= n
    BY <1>1, <2>1
  <2>3. D[m] = Turn(m, req, D[m - 1]) /\ D[m - 1] = r
    BY <1>3, <2>2
  <2>4. QED
    BY <2>1, <2>3 DEF Turn, Done
<1>4. Nat \subseteq T
  <2> HIDE DEF T
  <2>1. QED
    BY <1>2, <1>3, Induction
<1>5. n - b \in Nat /\ b + (n - b) = n /\ n <= n
  BY <1>1
<1>6. D[b + (n - b)] = r
  <2>1. n - b \in T
    BY <1>4, <1>5
  <2>2. QED
    BY <2>1, <1>5
<1>7. QED
  BY <1>5, <1>6

-----------------------------------------------------------------------------
(* Replies *)

\* The cookies a reply comes with: an access token, and behind it a csrf token.
Access(token) == << <<"access_token", token>> >>
Given(cookies, token) == Append(cookies, <<"csrf-token", token>>)

ReplyOf(status, body, location, cookies) ==
    [status |-> status, body |-> body, location |-> location, cookies |-> cookies]

\* What the calls on a reply make of it.
LEMMA ReplyFields ==
    ASSUME NEW s, NEW b, NEW l, NEW c
    PROVE  /\ ReplyOf(s, b, l, c).status = s /\ ReplyOf(s, b, l, c).body = b
           /\ ReplyOf(s, b, l, c).location = l /\ ReplyOf(s, b, l, c).cookies = c
           /\ \A x : SetContent(ReplyOf(s, b, l, c), x) = ReplyOf("ok", x, l, c)
           /\ \A x : [ReplyOf(s, b, l, c) EXCEPT !.status = x] = ReplyOf(x, b, l, c)
           /\ \A x : [ReplyOf(s, b, l, c) EXCEPT !.location = x] = ReplyOf(s, b, x, c)
           /\ \A n, v : SetCookie(ReplyOf(s, b, l, c), n, v)
                            = ReplyOf(s, b, l, Append(c, <<n, v>>))
<1>1. ASSUME NEW n, NEW v
      PROVE  SetCookie(ReplyOf(s, b, l, c), n, v) = ReplyOf(s, b, l, Append(c, <<n, v>>))
  <2> DEFINE d == Append(c, <<n, v>>)
  <2>1. [ReplyOf(s, b, l, c) EXCEPT !.cookies = Append(@, <<n, v>>)]
          = [ReplyOf(s, b, l, c) EXCEPT !.cookies = d]
    BY DEF ReplyOf
  <2> HIDE DEF d
  <2>2. [ReplyOf(s, b, l, c) EXCEPT !.cookies = d] = ReplyOf(s, b, l, d)
    BY DEF ReplyOf
  <2>3. QED
    BY <2>1, <2>2 DEF SetCookie, d
<1>2. ASSUME NEW x PROVE SetContent(ReplyOf(s, b, l, c), x) = ReplyOf("ok", x, l, c)
  <2> DEFINE r == ReplyOf(s, b, l, c)
             q == SetContent(r, x)
  <2>1. r = [status |-> s, body |-> b, location |-> l, cookies |-> c]
    BY DEF ReplyOf
  <2>2. q = [r EXCEPT !.status = "ok", !.body = x]
    BY DEF SetContent
  <2> HIDE DEF r, q
  <2>3. q = [status |-> "ok", body |-> x, location |-> l, cookies |-> c]
    BY <2>1, <2>2
  <2>4. QED
    BY <2>3 DEF r, q, ReplyOf
<1>3. /\ \A x : [ReplyOf(s, b, l, c) EXCEPT !.status = x] = ReplyOf(x, b, l, c)
      /\ \A x : [ReplyOf(s, b, l, c) EXCEPT !.location = x] = ReplyOf(s, b, x, c)
  BY DEF ReplyOf
<1>4. /\ ReplyOf(s, b, l, c).status = s /\ ReplyOf(s, b, l, c).body = b
      /\ ReplyOf(s, b, l, c).location = l /\ ReplyOf(s, b, l, c).cookies = c
  BY DEF ReplyOf
<1>5. QED
  BY <1>1, <1>2, <1>3, <1>4

\* The replies the code starts from.
LEMMA ReplyMade ==
    /\ \A s, b : Reply(s, b) = ReplyOf(s, b, None, <<>>)
    /\ \A l : Redirect(l) = ReplyOf("moved_temporarily", Error, l, <<>>)
<1>1. \A s, b : Reply(s, b) = ReplyOf(s, b, None, <<>>)
  BY DEF Reply, ReplyOf
<1>2. ASSUME NEW l PROVE Redirect(l) = ReplyOf("moved_temporarily", Error, l, <<>>)
  <2> DEFINE e == <<>>
  <2>1. Redirect(l) = [ReplyOf("moved_temporarily", Error, None, e) EXCEPT !.location = l]
    BY <1>1 DEF Redirect
  <2> HIDE DEF e
  <2>2. Redirect(l) = ReplyOf("moved_temporarily", Error, l, e)
    BY <2>1, ReplyFields
  <2>3. QED
    BY <2>2 DEF e
<1>3. QED
  BY <1>1, <1>2

\* The bodies of replies, told apart.
LEMMA Bodies ==
    /\ Error.kind = "error" /\ NoBody.kind = "empty"
    /\ \A x : PageOf(x).kind = "page"
    /\ \A c, u : Form(c, u).kind = "form" /\ Form(c, u).csrf = c /\ Form(c, u).uri = u
BY DEF Error, NoBody, PageOf, Form

-----------------------------------------------------------------------------
(* What the controllers give *)

\* A reply of a controller that has nothing to do with logging in.
PlainReply(rep) ==
    \E s \in {"not_found", "ok", "forbidden", "internal_server_error"} : \E b :
        b.kind # "form" /\ rep = ReplyOf(s, b, None, <<>>)

Plain(r) == /\ PlainReply(r.reply)
            /\ r.thrown \in {None, "forbidden", "internal_server_error"}

\* A result with a plain reply is plain.
LEMMA PlainIf ==
    ASSUME NEW rep, PlainReply(rep), NEW h, NEW t \in {None, "forbidden", "internal_server_error"}
    PROVE  Plain(Result(rep, h, t))
<1>1. Result(rep, h, t).reply = rep /\ Result(rep, h, t).thrown = t
  BY DEF Result
<1>2. QED
  BY <1>1 DEF Plain

\* set_content keeps a reply plain, whatever status is set after it.
LEMMA PlainReplies ==
    ASSUME NEW rep, PlainReply(rep), NEW body, body.kind # "form"
    PROVE  /\ PlainReply(SetContent(rep, body))
           /\ \A x \in {"forbidden", "internal_server_error"} :
                PlainReply([SetContent(rep, body) EXCEPT !.status = x])
<1> DEFINE e == <<>>
<1>1. PICK s, c : rep = ReplyOf(s, c, None, e)
  BY DEF PlainReply
<1> HIDE DEF e
<1>2. SetContent(rep, body) = ReplyOf("ok", body, None, e)
  BY <1>1, ReplyFields
<1>3. \A x : [SetContent(rep, body) EXCEPT !.status = x] = ReplyOf(x, body, None, e)
  BY <1>2, ReplyFields
<1>4. QED
  BY <1>2, <1>3 DEF PlainReply, e

\* The replies the controllers start from are plain.
LEMMA FreshReplies ==
    /\ PlainReply(Reply("not_found", Error)) /\ PlainReply(Reply("ok", NoBody))
    /\ PlainReply(SetContent(Reply("forbidden", Error), Error))
<1> DEFINE e == <<>>
<1>1. /\ Reply("not_found", Error) = ReplyOf("not_found", Error, None, e)
      /\ Reply("ok", NoBody) = ReplyOf("ok", NoBody, None, e)
      /\ Reply("forbidden", Error) = ReplyOf("forbidden", Error, None, e)
  BY ReplyMade
<1> HIDE DEF e
<1>2. SetContent(Reply("forbidden", Error), Error) = ReplyOf("ok", Error, None, e)
  BY <1>1, ReplyFields
<1>3. Error.kind # "form" /\ NoBody.kind # "form"
  BY Bodies
<1>4. QED
  BY <1>1, <1>2, <1>3 DEF PlainReply, e

\* An application's handler gives a plain result.
LEMMA CalledPlain ==
    ASSUME NEW mount, mount.does \in {"page", "status", "throw"}, NEW rep, PlainReply(rep)
    PROVE  /\ Plain(Called(mount, rep))
           /\ mount.does = "status" => Called(mount, rep).thrown = "forbidden"
           /\ mount.does = "throw" => Called(mount, rep).thrown = "internal_server_error"
           /\ mount.does = "page" => Called(mount, rep).thrown = None
<1>1. CASE mount.does = "page"
  <2>1. Called(mount, rep) = Result(SetContent(rep, PageOf(mount.page)), TRUE, None)
    BY <1>1 DEF Called
  <2>2. PlainReply(SetContent(rep, PageOf(mount.page)))
    BY PlainReplies, Bodies
  <2>3. Called(mount, rep).thrown = None
    BY <2>1 DEF Result
  <2>4. Plain(Called(mount, rep))
    BY <2>1, <2>2, PlainIf
  <2>5. QED
    BY <1>1, <2>3, <2>4
<1>2. CASE mount.does = "status"
  BY <1>2, PlainIf DEF Called, Result
<1>3. CASE mount.does = "throw"
  BY <1>3, PlainIf DEF Called, Result
<1>4. QED
  BY <1>1, <1>2, <1>3

\* The first mount is one of the controller's.
LEMMA FirstMountIs ==
    ASSUME AsUsual, NEW i \in 2 .. Len(Controllers), NEW matching,
           matching \subseteq DOMAIN Controllers[i].mounts,
           NEW mount, mount = FirstMount(Controllers[i], matching), mount # None
    PROVE  mount.does \in {"page", "status", "throw"}
<1> DEFINE m == CHOOSE x \in matching : \A y \in matching : x <= y
<1>1. matching # {} /\ mount = Controllers[i].mounts[m]
  BY DEF FirstMount
<1>2. matching \subseteq Nat
  BY DEF AsUsual
<1>3. \E x \in matching : \A y \in matching : x <= y
  BY <1>1, <1>2, Smallest
<1>4. m \in matching
  BY <1>3
<1> HIDE DEF m
<1>5. QED
  BY <1>1, <1>4 DEF AsUsual

\* html_controller::handle_request gives a plain result.
LEMMA HtmlPlain ==
    ASSUME AsUsual, NEW i \in 2 .. Len(Controllers), NEW fitting, NEW req, NEW rep,
           PlainReply(rep), fitting \subseteq DOMAIN Controllers[i].mounts
    PROVE  Plain(HtmlRequest(Controllers[i], fitting, req, rep))
<1> DEFINE c == Controllers[i]
           matching == {j \in fitting : \/ req.method \in {"HEAD", "OPTIONS"}
                                        \/ c.mounts[j].method \in {req.method, "UNDEFINED"}}
           mount == FirstMount(c, matching)
<1>1. HtmlRequest(c, fitting, req, rep) =
        IF mount = None THEN Result(Reply("not_found", Error), FALSE, None)
        ELSE IF req.method = "OPTIONS" THEN Result(Reply("ok", NoBody), TRUE, None)
        ELSE Called(mount, rep)
  BY DEF HtmlRequest
<1>2. matching \subseteq DOMAIN Controllers[i].mounts
  OBVIOUS
<1> HIDE DEF matching
<1>3. mount # None => mount.does \in {"page", "status", "throw"}
  BY <1>2, FirstMountIs
<1> HIDE DEF mount, c
<1>4. mount # None => Plain(Called(mount, rep))
  BY <1>3, CalledPlain
<1>5. Plain(Result(Reply("not_found", Error), FALSE, None))
      /\ Plain(Result(Reply("ok", NoBody), TRUE, None))
  BY FreshReplies, PlainIf
<1>6. QED
  BY <1>1, <1>4, <1>5 DEF c

\* rest_controller::handle_request gives a plain result.
LEMMA RestPlain ==
    ASSUME AsUsual, NEW i \in 2 .. Len(Controllers), NEW fitting, NEW req, NEW rep,
           PlainReply(rep), fitting \subseteq DOMAIN Controllers[i].mounts
    PROVE  Plain(RestRequest(Controllers[i], fitting, req, rep))
<1> DEFINE c == Controllers[i]
           matching == {j \in fitting : c.mounts[j].method = req.method}
           mount == FirstMount(c, matching)
           called == Called(mount, rep)
<1>1. RestRequest(c, fitting, req, rep) =
        IF mount = None THEN Result(rep, FALSE, None)
        ELSE IF called.thrown = None THEN called
        ELSE IF mount.does = "status"
        THEN Result(SetContent(Reply(called.thrown, Error), Error), TRUE, None)
        ELSE Result([SetContent(rep, Error) EXCEPT !.status = called.thrown], TRUE, None)
  BY DEF RestRequest
<1>2. matching \subseteq DOMAIN Controllers[i].mounts
  OBVIOUS
<1> HIDE DEF matching
<1>3. mount # None => mount.does \in {"page", "status", "throw"}
  BY <1>2, FirstMountIs
<1> HIDE DEF mount, c
<1>4. mount # None => /\ Plain(called)
                      /\ mount.does = "status" => called.thrown = "forbidden"
                      /\ mount.does = "throw" => called.thrown = "internal_server_error"
                      /\ mount.does = "page" => called.thrown = None
  BY <1>3, CalledPlain
<1> HIDE DEF called
<1>5. Plain(Result(rep, FALSE, None))
  BY PlainIf
<1>6. Plain(Result(SetContent(Reply("forbidden", Error), Error), TRUE, None))
  BY FreshReplies, PlainIf
<1>7. Plain(Result([SetContent(rep, Error) EXCEPT !.status = "internal_server_error"], TRUE, None))
  BY PlainReplies, Bodies, PlainIf
<1>8. QED
  BY <1>1, <1>3, <1>4, <1>5, <1>6, <1>7 DEF c

\* soap_controller::handle_request gives a plain result.
LEMMA SoapPlain ==
    ASSUME AsUsual, NEW i \in 2 .. Len(Controllers), Controllers[i].kind = "soap",
           NEW req, NEW rep, PlainReply(rep)
    PROVE  Plain(SoapRequest(Controllers[i], req, rep))
<1> DEFINE c == Controllers[i]
           called == Called(c.mounts[1], rep)
           uri == WithoutSlashes(req.path)
<1>1. SoapRequest(c, req, rep) =
        IF req.method = "POST" /\ uri = m_prefix_path(c)
        THEN IF called.thrown = None THEN called
             ELSE Result([SetContent(rep, Error) EXCEPT !.status = called.thrown], TRUE, None)
        ELSE IF req.method = "GET" /\ uri = m_prefix_path(c) \o <<"/", "wsdl">>
        THEN Result(SetContent(rep, PageOf("wsdl")), FALSE, None)
        ELSE Result(rep, FALSE, None)
  BY DEF SoapRequest
<1>2. Plain(called)
  <2>1. c.mounts[1].does \in {"page", "status", "throw"}
    BY DEF AsUsual
  <2>2. QED
    BY <2>1, CalledPlain
<1> HIDE DEF called, uri, c
<1>3. called.thrown # None
        => Plain(Result([SetContent(rep, Error) EXCEPT !.status = called.thrown], TRUE, None))
  <2>1. called.thrown \in {None, "forbidden", "internal_server_error"}
    BY <1>2 DEF Plain
  <2>2. QED
    BY <2>1, PlainReplies, Bodies, PlainIf
<1>4. Plain(Result(SetContent(rep, PageOf("wsdl")), FALSE, None)) /\ Plain(Result(rep, FALSE, None))
  BY PlainReplies, Bodies, PlainIf
<1>5. QED
  BY <1>1, <1>2, <1>3, <1>4 DEF c

\* A controller other than the login controller gives a plain reply.
LEMMA OthersPlain ==
    ASSUME AsUsual, NEW i \in 2 .. Len(Controllers), NEW req, req.path \in Paths,
           NEW rep, PlainReply(rep)
    PROVE  Plain(HandleBy(i, req, rep))
<1>1. i \in DOMAIN Controllers
  BY DEF AsUsual
<1>2. Fitting[i][req.path] \subseteq DOMAIN Controllers[i].mounts
  BY <1>1 DEF Fitting
<1>3. Controllers[i].kind \in {"html", "rest", "soap"}
  BY DEF AsUsual
<1>4. CASE Controllers[i].kind = "html"
  <2>1. HandleBy(i, req, rep) = HtmlRequest(Controllers[i], Fitting[i][req.path], req, rep)
    BY <1>4 DEF HandleBy
  <2>2. QED
    BY <1>2, <2>1, HtmlPlain
<1>5. CASE Controllers[i].kind = "rest"
  <2>1. HandleBy(i, req, rep) = RestRequest(Controllers[i], Fitting[i][req.path], req, rep)
    BY <1>5 DEF HandleBy
  <2>2. QED
    BY <1>2, <2>1, RestPlain
<1>6. CASE Controllers[i].kind = "soap"
  <2>1. HandleBy(i, req, rep) = SoapRequest(Controllers[i], req, rep)
    BY <1>6 DEF HandleBy
  <2>2. QED
    BY <1>6, <2>1, SoapPlain
<1>7. QED
  BY <1>3, <1>4, <1>5, <1>6

\* So does the whole loop when the login controller leaves the request alone.
LEMMA LoopPlain ==
    ASSUME AsUsual, NEW req, req.path \in Paths, NEW D, Plain(D[1]),
           \A i \in 1 .. Len(Controllers) : D[i] = Turn(i, req, D[i - 1])
    PROVE  Plain(D[Len(Controllers)])
<1> DEFINE n == Len(Controllers)
           T == {k \in Nat : k + 1 <= n => Plain(D[k + 1])}
<1>1. n \in Nat \ {0}
  BY DEF AsUsual
<1>2. 0 \in T
  OBVIOUS
<1>3. ASSUME NEW k \in Nat, k \in T PROVE k + 1 \in T
  <2> SUFFICES ASSUME (k + 1) + 1 <= n PROVE Plain(D[(k + 1) + 1])
    OBVIOUS
  <2>1. Plain(D[k + 1])
    BY <1>1, <1>3
  <2>2. (k + 1) + 1 \in 2 .. n /\ (k + 1) + 1 \in 1 .. n /\ ((k + 1) + 1) - 1 = k + 1
    BY <1>1
  <2>3. D[(k + 1) + 1] = Turn((k + 1) + 1, req, D[k + 1])
    BY <2>2
  <2>4. PlainReply(D[k + 1].reply)
    BY <2>1 DEF Plain
  <2>5. Plain(HandleBy((k + 1) + 1, req, D[k + 1].reply))
    BY <2>2, <2>4, OthersPlain
  <2>6. QED
    BY <2>1, <2>3, <2>5 DEF Turn
<1>4. Nat \subseteq T
  <2> HIDE DEF T
  <2>1. QED
    BY <1>2, <1>3, Induction
<1>5. n - 1 \in Nat /\ (n - 1) + 1 = n /\ n <= n
  BY <1>1
<1>6. (n - 1) + 1 <= n => Plain(D[(n - 1) + 1])
  <2>1. n - 1 \in T
    BY <1>4, <1>5
  <2>2. QED
    BY <2>1
<1>7. QED
  BY <1>5, <1>6

-----------------------------------------------------------------------------
(* The login controller *)

\* The login controller is at the root.
LEMMA LoginPrefix ==
    ASSUME AsUsual
    PROVE  m_prefix_path(Controllers[1]) = <<"/">>
<1> DEFINE s == <<"/">>
<1>1. m_prefix_path(Controllers[1]) = PrefixPath(s)
  BY DEF AsUsual, m_prefix_path
<1>2. s # <<>> /\ s[1] = "/" /\ {i \in DOMAIN s : s[i] # "/"} = {}
  OBVIOUS
<1>3. s \o <<>> = s
  OBVIOUS
<1> HIDE DEF s
<1>4. PrefixPath(s) = <<"/">> \o <<>>
  BY <1>2 DEF PrefixPath
<1>5. QED
  BY <1>1, <1>3, <1>4 DEF s

\* The symbols of a path, and those of the login controller's pages.
Symbols(path) == Range(path) \cup {"/", "login", "logout"}

\* The first symbol of a string, and what follows it.
LEMMA Pieces ==
    ASSUME NEW S, NEW s \in Seq(S), NEW n \in Nat \ {0}, n = Len(s)
    PROVE  /\ SubSeq(s, 1, 1) = <<s[1]>>
           /\ SubSeq(s, 2, n) \in Seq(S)
           /\ Len(SubSeq(s, 2, n)) = n - 1
           /\ \A i \in 1 .. n - 1 : SubSeq(s, 2, n)[i] = s[i + 1]
<1>1. \A i \in 1 .. n : s[i] \in S
  BY LenProperties
<1>2. SubSeq(s, 1, 1) = <<s[1]>>
  <2>1. s[1] \in S /\ \A i \in 1 .. 1 : s[i] \in S
    BY <1>1
  <2> DEFINE t == SubSeq(s, 1, 1)
             u == <<s[1]>>
  <2>2. t \in Seq(S) /\ Len(t) = 1 /\ t[1] = s[1]
    BY <2>1, SubSeqProperties
  <2>3. u \in Seq(S) /\ Len(u) = 1 /\ u[1] = s[1]
    BY <2>1
  <2> HIDE DEF t, u
  <2>4. t = u
    <3>1. \A i \in 1 .. Len(t) : t[i] = u[i]
      BY <2>2, <2>3
    <3>2. QED
      BY <2>2, <2>3, <3>1, SeqEqual
  <2>5. QED
    BY <2>4 DEF t, u
<1>3. /\ SubSeq(s, 2, n) \in Seq(S)
      /\ Len(SubSeq(s, 2, n)) = IF 2 <= n THEN n - 2 + 1 ELSE 0
      /\ \A i \in 1 .. n - 2 + 1 : SubSeq(s, 2, n)[i] = s[2 + i - 1]
  <2>1. \A i \in 2 .. n : s[i] \in S
    BY <1>1
  <2>2. 2 \in Int /\ n \in Int
    OBVIOUS
  <2>3. QED
    BY <2>1, <2>2, SubSeqProperties
<1>4. \A i \in 1 .. n - 1 : i \in 1 .. n - 2 + 1 /\ 2 + i - 1 = i + 1
  OBVIOUS
<1>5. n - 1 = IF 2 <= n THEN n - 2 + 1 ELSE 0
  OBVIOUS
<1>6. \A i \in 1 .. n - 1 : SubSeq(s, 2, n)[i] = s[i + 1]
  BY <1>3, <1>4
<1>7. QED
  BY <1>2, <1>3, <1>5, <1>6

\* Paths have one slash at the front, so what is left of one is all that follows it.
LEMMA Prefixless ==
    ASSUME AsUsual, NEW path \in Paths
    PROVE  /\ path \in Seq(Symbols(path)) /\ Len(path) \in Nat \ {0} /\ path[1] = "/"
           /\ path_matches_prefix(Controllers[1], path)
           /\ get_prefixless_path(Controllers[1], path) = SubSeq(path, 2, Len(path))
<1> DEFINE S == Symbols(path)
<1>1. /\ path \in Seq(Range(path)) /\ path # <<>> /\ path[1] = "/"
      /\ \A i \in 1 .. Len(path) - 1 : path[i] = "/" => path[i + 1] # "/"
  BY DEF AsUsual
<1>2. Len(path) \in Nat \ {0}
  BY <1>1
<1> HIDE DEF S
<1>a. path \in Seq(S)
  BY <1>1, SeqMonotonic DEF S, Symbols
<1>3. path_matches_prefix(Controllers[1], path)
  <2> DEFINE f == <<"/">>
  <2>1. f \in Seq({"/"}) /\ Len(f) = 1 /\ f[1] = "/" /\ 1 \in Nat \ {0}
    OBVIOUS
  <2>2. SubSeq(path, 1, 1) = <<"/">> /\ SubSeq(f, 1, 1) = f
    BY <1>1, <1>2, <1>a, <2>1, Pieces
  <2> HIDE DEF f
  <2>3. IsPrefix(f, path)
    <3>1. SubSeq(f, 1, Len(f)) = SubSeq(path, 1, Len(f))
      BY <2>1, <2>2 DEF f
    <3>2. Len(f) <= Len(path)
      BY <1>2, <2>1
    <3>3. QED
      BY <3>1, <3>2 DEF IsPrefix
  <2>4. QED
    BY <2>3, LoginPrefix DEF path_matches_prefix, f
<1> DEFINE rest == SubSeq(path, 2, Len(path))
           words == {i \in DOMAIN rest : rest[i] # "/"}
<1>4. rest \in Seq(S) /\ Len(rest) = Len(path) - 1
      /\ \A i \in 1 .. Len(rest) : rest[i] = path[i + 1]
  BY <1>2, <1>a, Pieces
<1>5. get_prefixless_path(Controllers[1], path) = WithoutSlashes(rest)
  <2>1. Len(<<"/">>) + 1 = 2
    OBVIOUS
  <2>2. QED
    BY <2>1, LoginPrefix DEF get_prefixless_path
<1> HIDE DEF rest
<1>6. WithoutSlashes(rest) = IF words = {} THEN <<>>
        ELSE SubSeq(rest, CHOOSE i \in words : \A j \in words : i <= j, Len(rest))
  BY DEF WithoutSlashes
<1>7. CASE Len(path) = 1
  <2>1. rest = <<>> /\ words = {}
    BY <1>4, <1>7
  <2>2. QED
    BY <1>1, <1>2, <1>3, <1>a, <1>5, <1>6, <2>1 DEF rest, S
<1>8. CASE Len(path) # 1
  <2>1. 1 \in 1 .. Len(path) - 1 /\ 1 \in 1 .. Len(rest)
    BY <1>2, <1>4, <1>8
  <2>2. path[2] # "/"
    BY <1>1, <2>1
  <2>3. 1 \in words /\ words \subseteq 1 .. Len(rest)
    BY <1>4, <2>1, <2>2
  <2> HIDE DEF words
  <2>4. 1 = CHOOSE i \in words : \A j \in words : i <= j
    <3>1. \A j \in words : 1 <= j
      BY <2>3, <1>4
    <3>2. \A i \in words : (\A j \in words : i <= j) => i = 1
      BY <2>3, <1>4
    <3>3. QED
      BY <2>3, <3>1, <3>2
  <2>5. SubSeq(rest, 1, Len(rest)) = rest
    BY <1>4
  <2>6. QED
    BY <1>1, <1>2, <1>3, <1>a, <1>5, <1>6, <2>3, <2>4, <2>5 DEF rest, S
<1>9. QED
  BY <1>7, <1>8

\* A path whose rest is a word is a slash and that word.
LEMMA WordOnly ==
    ASSUME NEW S, NEW word \in S, "/" \in S, NEW path \in Seq(S), Len(path) \in Nat \ {0},
           path[1] = "/"
    PROVE  SubSeq(path, 2, Len(path)) = <<word>> <=> path = <<"/", word>>
<1> DEFINE t == SubSeq(path, 2, Len(path))
           u == <<word>>
           v == <<"/", word>>
<1>1. /\ t \in Seq(S) /\ Len(t) = Len(path) - 1
      /\ \A i \in 1 .. Len(path) - 1 : t[i] = path[i + 1]
  BY Pieces
<1>2. u \in Seq(S) /\ Len(u) = 1 /\ u[1] = word
  OBVIOUS
<1>3. v \in Seq(S) /\ Len(v) = 2 /\ v[1] = "/" /\ v[2] = word
  OBVIOUS
<1> HIDE DEF t, u, v
<1> DEFINE n == Len(path)
<1>n. n \in Nat
  OBVIOUS
<1> HIDE DEF n
<1>4. ASSUME t = u PROVE path = v
  <2>1. Len(path) = 2
    <3>1. n - 1 = 1
      BY <1>1, <1>2, <1>4 DEF n
    <3>2. QED
      BY <1>n, <3>1 DEF n
  <2>2. path[2] = word
    BY <1>1, <1>2, <1>4, <2>1
  <2>3. \A i \in 1 .. Len(path) : path[i] = v[i]
    BY <1>3, <2>1, <2>2
  <2>4. QED
    BY <1>3, <2>1, <2>3, SeqEqual
<1>5. ASSUME path = v PROVE t = u
  <2>1. Len(t) = 1 /\ t[1] = word
    <3>1. Len(path) = 2 /\ 1 \in 1 .. 1 /\ path[1 + 1] = word
      BY <1>3, <1>5
    <3>2. QED
      BY <1>1, <3>1
  <2>2. \A i \in 1 .. Len(t) : t[i] = u[i]
    BY <1>2, <2>1
  <2>3. QED
    BY <1>1, <1>2, <2>1, <2>2, SeqEqual
<1>6. QED
  BY <1>4, <1>5 DEF t, u, v

\* The login controller answers to its two pages, and to nothing else.
LEMMA LoginPages ==
    ASSUME AsUsual, NEW req, req.path \in Paths, NEW rep
    PROVE  HandleBy(1, req, rep) =
             IF req.path = Login /\ req.method = "GET"
             THEN Result(SetContent(rep, Form(req.csrf, None)), TRUE, None)
             ELSE IF req.path = Login /\ req.method = "POST" THEN PostLogin(req)
             ELSE IF req.path = Logout
             THEN Result(SetCookie(Redirect(Destination(req, "logout")), "access_token", None),
                         TRUE, None)
             ELSE Result(rep, FALSE, None)
<1> DEFINE uri == get_prefixless_path(Controllers[1], req.path)
<1>1. HandleBy(1, req, rep) = LoginRequest(Controllers[1], req, rep)
  BY DEF HandleBy, AsUsual
<1>2. (uri = <<"login">> <=> req.path = Login) /\ (uri = <<"logout">> <=> req.path = Logout)
  <2> DEFINE S == Symbols(req.path)
  <2>1. uri = SubSeq(req.path, 2, Len(req.path)) /\ req.path \in Seq(S)
        /\ Len(req.path) \in Nat \ {0} /\ req.path[1] = "/"
    BY Prefixless
  <2>2. "/" \in S /\ "login" \in S /\ "logout" \in S
    BY DEF Symbols
  <2> HIDE DEF S
  <2>3. \A word \in S : uri = <<word>> <=> req.path = <<"/", word>>
    BY <2>1, <2>2, WordOnly
  <2>4. QED
    BY <2>2, <2>3 DEF Login, Logout
<1> HIDE DEF uri
<1>3. LoginRequest(Controllers[1], req, rep) =
        IF uri = <<"login">> /\ req.method = "GET"
        THEN Result(SetContent(rep, Form(req.csrf, None)), TRUE, None)
        ELSE IF uri = <<"login">> /\ req.method = "POST" THEN PostLogin(req)
        ELSE IF uri = <<"logout">>
        THEN Result(SetCookie(Redirect(Destination(req, "logout")), "access_token", None),
                    TRUE, None)
        ELSE Result(rep, FALSE, None)
  BY DEF LoginRequest, uri
<1>4. QED
  BY <1>1, <1>2, <1>3

\* What the loop over the controllers makes of a request.
LEMMA Dispatched ==
    ASSUME AsUsual, NEW req, req.path \in Paths
    PROVE  IF req.path = Login /\ req.method = "GET"
           THEN Dispatch(req) = Result(ReplyOf("ok", Form(req.csrf, None), None, <<>>), TRUE, None)
           ELSE IF req.path = Login /\ req.method = "POST" THEN Dispatch(req) = PostLogin(req)
           ELSE IF req.path = Logout
           THEN Dispatch(req) = Result(ReplyOf("moved_temporarily", Error, Destination(req, "logout"),
                                               Access(None)), TRUE, None)
           ELSE Plain(Dispatch(req))
<1>1. PICK D : /\ Dispatch(req) = D[Len(Controllers)]
               /\ D[0] = NotFound
               /\ \A i \in 1 .. Len(Controllers) : D[i] = Turn(i, req, D[i - 1])
  BY DispatchTurns
<1>2. D[1] = HandleBy(1, req, Reply("not_found", Error))
  <2>1. 1 \in 1 .. Len(Controllers) /\ 1 - 1 = 0
    BY DEF AsUsual
  <2>2. D[1] = Turn(1, req, NotFound)
    BY <1>1, <2>1
  <2>3. NotFound.reply = Reply("not_found", Error) /\ NotFound.thrown = None /\ ~NotFound.handled
    BY DEF NotFound, Result
  <2>4. path_matches_prefix(Controllers[1], req.path)
    BY Prefixless
  <2>5. QED
    BY <2>2, <2>3, <2>4 DEF Turn
<1>0. 1 \in 1 .. Len(Controllers)
  BY DEF AsUsual
<1>3. \A r : Result(r, TRUE, None).handled
  BY DEF Result
<1>4. CASE req.path = Login /\ req.method = "GET"
  <2> DEFINE e == <<>>
             r == ReplyOf("ok", Form(req.csrf, None), None, e)
  <2>1. Reply("not_found", Error) = ReplyOf("not_found", Error, None, e)
    BY ReplyMade
  <2> HIDE DEF e
  <2>2. SetContent(Reply("not_found", Error), Form(req.csrf, None)) = r
    BY <2>1, ReplyFields
  <2> HIDE DEF r
  <2>3. D[1] = Result(r, TRUE, None)
    BY <1>2, <1>4, <2>2, LoginPages
  <2>4. Dispatch(req) = Result(r, TRUE, None)
    <3>1. Done(D[1])
      BY <1>3, <2>3 DEF Done
    <3>2. QED
      BY <1>0, <1>1, <2>3, <3>1, HandledOnce
  <2>5. QED
    BY <1>4, <2>4 DEF r, e
<1>5. CASE req.path = Login /\ req.method = "POST"
  <2>1. D[1] = PostLogin(req)
    BY <1>2, <1>5, LoginPages
  <2>2. Done(PostLogin(req))
    <3>1. \A r : Result(r, FALSE, "forbidden").thrown # None
      BY NoneAssumption DEF Result
    <3>2. \E r : PostLogin(req) = Result(r, FALSE, "forbidden") \/ PostLogin(req) = Result(r, TRUE, None)
      BY DEF PostLogin
    <3>3. QED
      BY <1>3, <3>1, <3>2 DEF Done
  <2>3. Dispatch(req) = PostLogin(req)
    BY <1>0, <1>1, <2>1, <2>2, HandledOnce
  <2>4. QED
    BY <1>5, <2>3
<1>6. CASE req.path = Logout
  <2> DEFINE e == <<>>
             to == Destination(req, "logout")
             r == ReplyOf("moved_temporarily", Error, to, Append(e, <<"access_token", None>>))
  <2>1. Redirect(to) = ReplyOf("moved_temporarily", Error, to, e)
    BY ReplyMade
  <2>2. Append(e, <<"access_token", None>>) = Access(None)
    BY DEF Access
  <2> HIDE DEF e, to
  <2>3. SetCookie(Redirect(to), "access_token", None) = r
    BY <2>1, ReplyFields
  <2>4. Login # Logout
    BY DEF Login, Logout
  <2> HIDE DEF r
  <2>5. D[1] = Result(r, TRUE, None)
    BY <1>2, <1>6, <2>3, <2>4, LoginPages DEF to
  <2>6. Dispatch(req) = Result(r, TRUE, None)
    <3>1. Done(D[1])
      BY <1>3, <2>5 DEF Done
    <3>2. QED
      BY <1>0, <1>1, <2>5, <3>1, HandledOnce
  <2>7. QED
    BY <1>6, <2>2, <2>4, <2>6 DEF r, to
<1>7. CASE /\ ~(req.path = Login /\ req.method = "GET")
           /\ ~(req.path = Login /\ req.method = "POST") /\ req.path # Logout
  <2>1. D[1] = Result(Reply("not_found", Error), FALSE, None)
    BY <1>2, <1>7, LoginPages
  <2>2. Plain(D[1])
    BY <2>1, FreshReplies, PlainIf
  <2>3. Plain(Dispatch(req))
    BY <1>1, <2>2, LoopPlain
  <2>4. QED
    BY <1>7, <2>3
<1>8. QED
  BY <1>4, <1>5, <1>6, <1>7

-----------------------------------------------------------------------------
(* Cookies *)

\* The last value that the cookies of a reply give to a name.
Latest(c, name, old) ==
    LET at == {i \in DOMAIN c : c[i][1] = name}
    IN  IF at = {} THEN old ELSE c[CHOOSE i \in at : \A j \in at : i >= j][2]

\* The cookies a browser has after a reply.
LEMMA AfterReplyIs ==
    ASSUME NEW old, NEW s, NEW b, NEW l, NEW c
    PROVE  AfterReply(old, ReplyOf(s, b, l, c))
             = [access |-> Latest(c, "access_token", old.access),
                csrf   |-> Latest(c, "csrf-token", old.csrf)]
<1> DEFINE r == ReplyOf(s, b, l, c)
<1>1. r.cookies = c
  BY ReplyFields
<1> HIDE DEF r
<1>2. AfterReply(old, r) = [access |-> Latest(r.cookies, "access_token", old.access),
                            csrf   |-> Latest(r.cookies, "csrf-token", old.csrf)]
  BY DEF AfterReply, Latest
<1>3. QED
  BY <1>1, <1>2 DEF r

\* A name the reply does not mention keeps its value; one it mentions once gets a new one.
LEMMA LatestIs ==
    ASSUME NEW c, NEW name, NEW old
    PROVE  /\ (\A i \in DOMAIN c : c[i][1] # name) => Latest(c, name, old) = old
           /\ \A k \in DOMAIN c :
                (k >= k /\ \A i \in DOMAIN c : c[i][1] = name <=> i = k)
                    => Latest(c, name, old) = c[k][2]
<1> DEFINE at == {i \in DOMAIN c : c[i][1] = name}
<1>1. Latest(c, name, old) = IF at = {} THEN old
                             ELSE c[CHOOSE i \in at : \A j \in at : i >= j][2]
  BY DEF Latest
<1>2. ASSUME \A i \in DOMAIN c : c[i][1] # name PROVE Latest(c, name, old) = old
  BY <1>1, <1>2
<1>3. ASSUME NEW k \in DOMAIN c, k >= k, \A i \in DOMAIN c : c[i][1] = name <=> i = k
      PROVE  Latest(c, name, old) = c[k][2]
  <2>1. at = {k}
    BY <1>3
  <2> HIDE DEF at
  <2>2. k = CHOOSE i \in at : \A j \in at : i >= j
    BY <1>3, <2>1
  <2>3. QED
    BY <1>1, <2>1, <2>2
<1>4. QED
  BY <1>2, <1>3

\* What each of the replies the code makes does to the cookies of a browser.
LEMMA CookiesKept ==
    /\ \A old, s, b, l :
        AfterReply(old, ReplyOf(s, b, l, <<>>)) = [access |-> old.access, csrf |-> old.csrf]
    /\ \A old, s, b, l, a :
        AfterReply(old, ReplyOf(s, b, l, Access(a))) = [access |-> a, csrf |-> old.csrf]
    /\ \A old, s, b, l, t :
        AfterReply(old, ReplyOf(s, b, l, Given(<<>>, t))) = [access |-> old.access, csrf |-> t]
    /\ \A old, s, b, l, a, t :
        AfterReply(old, ReplyOf(s, b, l, Given(Access(a), t))) = [access |-> a, csrf |-> t]
<1>0. 1 >= 1 /\ 2 >= 2 /\ "access_token" # "csrf-token"
  OBVIOUS
<1>1. ASSUME NEW old, NEW s, NEW b, NEW l
      PROVE  AfterReply(old, ReplyOf(s, b, l, <<>>)) = [access |-> old.access, csrf |-> old.csrf]
  <2> DEFINE c == <<>>
  <2>1. DOMAIN c = {}
    OBVIOUS
  <2> HIDE DEF c
  <2>2. AfterReply(old, ReplyOf(s, b, l, c)) = [access |-> old.access, csrf |-> old.csrf]
    BY <2>1, LatestIs, AfterReplyIs
  <2>3. QED
    BY <2>2 DEF c
<1>2. ASSUME NEW old, NEW s, NEW b, NEW l, NEW a
      PROVE  AfterReply(old, ReplyOf(s, b, l, Access(a))) = [access |-> a, csrf |-> old.csrf]
  <2> DEFINE c == Access(a)
  <2>1. DOMAIN c = {1} /\ c[1][1] = "access_token" /\ c[1][2] = a
    BY DEF Access
  <2> HIDE DEF c
  <2>2. Latest(c, "access_token", old.access) = a /\ Latest(c, "csrf-token", old.csrf) = old.csrf
    BY <1>0, <2>1, LatestIs
  <2>3. AfterReply(old, ReplyOf(s, b, l, c)) = [access |-> a, csrf |-> old.csrf]
    BY <2>2, AfterReplyIs
  <2>4. QED
    BY <2>3 DEF c
<1>3. ASSUME NEW old, NEW s, NEW b, NEW l, NEW t
      PROVE  AfterReply(old, ReplyOf(s, b, l, Given(<<>>, t))) = [access |-> old.access, csrf |-> t]
  <2> DEFINE c == Given(<<>>, t)
  <2>1. DOMAIN c = {1} /\ c[1][1] = "csrf-token" /\ c[1][2] = t
    BY DEF Given
  <2> HIDE DEF c
  <2>2. Latest(c, "access_token", old.access) = old.access /\ Latest(c, "csrf-token", old.csrf) = t
    BY <1>0, <2>1, LatestIs
  <2>3. AfterReply(old, ReplyOf(s, b, l, c)) = [access |-> old.access, csrf |-> t]
    BY <2>2, AfterReplyIs
  <2>4. QED
    BY <2>3 DEF c
<1>4. ASSUME NEW old, NEW s, NEW b, NEW l, NEW a, NEW t
      PROVE  AfterReply(old, ReplyOf(s, b, l, Given(Access(a), t))) = [access |-> a, csrf |-> t]
  <2> DEFINE c == Given(Access(a), t)
  <2>1. /\ DOMAIN c = {1, 2} /\ c[1][1] = "access_token" /\ c[1][2] = a
        /\ c[2][1] = "csrf-token" /\ c[2][2] = t
    BY DEF Given, Access
  <2> HIDE DEF c
  <2>2. Latest(c, "access_token", old.access) = a
    BY <1>0, <2>1, LatestIs
  <2>3. Latest(c, "csrf-token", old.csrf) = t
    BY <1>0, <2>1, LatestIs
  <2>4. AfterReply(old, ReplyOf(s, b, l, c)) = [access |-> a, csrf |-> t]
    BY <2>2, <2>3, AfterReplyIs
  <2>5. QED
    BY <2>4 DEF c
<1>5. QED
  BY <1>1, <1>2, <1>3, <1>4

-----------------------------------------------------------------------------
(* What server::handle_request answers *)

\* The three ways a request goes: a method that is not known, a refusal, the controllers.
LEMMA HandleRequestIs ==
    ASSUME AsUsual, NEW req, req.method \in Methods \cup {"GET", "POST"}
    PROVE  HandleRequest(req) =
             IF req.method = "PATCH" THEN ReplyOf("bad_request", Error, None, <<>>)
             ELSE IF ~ValidateRequest(req)
             THEN ReplyOf("unauthorized", Form(req.csrf, req.path), None, <<>>)
             ELSE Finished(req, GetCsrfToken(req), Dispatch(GetCsrfToken(req)))
<1>1. req.method = "PATCH" <=> req.method \notin {"GET", "POST", "PUT", "OPTIONS", "HEAD", "DELETE"}
  BY DEF AsUsual
<1>2. ErrorReply(req, "bad_request") = ReplyOf("bad_request", Error, None, <<>>)
  <2>1. ErrorReply(req, "bad_request") = Reply("bad_request", Error)
    BY DEF ErrorReply
  <2>2. QED
    BY <2>1, ReplyMade
<1>3. ErrorReply(req, "unauthorized") = ReplyOf("unauthorized", Form(req.csrf, req.path), None, <<>>)
  <2>1. HasLogin
    BY DEF HasLogin, AsUsual
  <2>2. ErrorReply(req, "unauthorized") = Reply("unauthorized", Form(req.csrf, req.path))
    BY <2>1 DEF ErrorReply
  <2>3. QED
    BY <2>2, ReplyMade
<1>4. QED
  BY <1>1, <1>2, <1>3 DEF HandleRequest

\* What is done to the reply of the controllers, or to an exception.
LEMMA FinishedIs ==
    ASSUME NEW req, NEW known, NEW done
    PROVE  /\ done.thrown \in {"forbidden", "internal_server_error"} =>
                Finished(req, known, done) = ReplyOf(done.thrown, Error, None, <<>>)
           /\ \A s, b, l, c : done.thrown = None /\ done.reply = ReplyOf(s, b, l, c) =>
                Finished(req, known, done) =
                    IF req.method = "HEAD" THEN ReplyOf("ok", NoBody, l, c)
                    ELSE IF req.csrf = None
                    THEN ReplyOf(s, b, l, Given(c, tokens))
                    ELSE ReplyOf(s, b, l, c)
<1>1. ASSUME done.thrown \in {"forbidden", "internal_server_error"}
      PROVE  Finished(req, known, done) = ReplyOf(done.thrown, Error, None, <<>>)
  <2>1. done.thrown # None /\ done.thrown # "unauthorized"
    BY <1>1, NoneAssumption
  <2>2. Finished(req, known, done) = Reply(done.thrown, Error)
    BY <2>1 DEF Finished, ErrorReply
  <2>3. QED
    BY <2>2, ReplyMade
<1>2. ASSUME NEW s, NEW b, NEW l, NEW c, done.thrown = None, done.reply = ReplyOf(s, b, l, c)
      PROVE  Finished(req, known, done) =
                    IF req.method = "HEAD" THEN ReplyOf("ok", NoBody, l, c)
                    ELSE IF req.csrf = None
                    THEN ReplyOf(s, b, l, Given(c, tokens))
                    ELSE ReplyOf(s, b, l, c)
  <2>1. /\ SetContent(done.reply, NoBody) = ReplyOf("ok", NoBody, l, c)
        /\ SetCookie(done.reply, "csrf-token", tokens)
             = ReplyOf(s, b, l, Given(c, tokens))
    BY <1>2, ReplyFields DEF Given
  <2>2. QED
    BY <1>2, <2>1 DEF Finished
<1>3. QED
  BY <1>1, <1>2

\* A browser's request, and the token it is given when it has none.
LEMMA RequestFields ==
    ASSUME NEW b, NEW m, NEW path, NEW fields, NEW req, req = Request(b, m, path, fields),
           tokens \in Nat, NEW known, known = GetCsrfToken(req)
    PROVE  /\ req.method = m /\ req.path = path /\ req.fields = fields
           /\ req.access = jar[b].access /\ req.csrf = jar[b].csrf
           /\ known.method = m /\ known.path = path /\ known.fields = fields
           /\ known.csrf = (IF jar[b].csrf = None THEN tokens ELSE jar[b].csrf)
           /\ known.csrf # None
<1>1. /\ req.method = m /\ req.path = path /\ req.fields = fields
      /\ req.access = jar[b].access /\ req.csrf = jar[b].csrf
  BY DEF Request
<1>2. known.method = m /\ known.path = path /\ known.fields = fields
  BY DEF Request, GetCsrfToken
<1>3. known.csrf = (IF jar[b].csrf = None THEN tokens ELSE jar[b].csrf)
  BY DEF Request, GetCsrfToken
<1>4. tokens # None
  BY NoneAssumption
<1>5. QED
  BY <1>1, <1>2, <1>3, <1>4

\* The answer to a request without a form.
Answer(b, m, path, rep) ==
    LET new == AfterReply(jar[b], rep)
        valid == ValidateRequest(Request(b, m, path, NoFields))
    IN  \/ /\ m = "PATCH" /\ rep.status = "bad_request" /\ rep.body.kind # "form"
           /\ new.access = jar[b].access
        \/ /\ m # "PATCH" /\ ~valid /\ rep.status = "unauthorized"
           /\ rep.body = Form(jar[b].csrf, path)
           /\ new.access = jar[b].access /\ new.csrf = jar[b].csrf
        \/ /\ m # "PATCH" /\ valid /\ path # Logout
           /\ rep.status \notin {"unauthorized", "moved_temporarily"}
           /\ new.access = jar[b].access
           /\ rep.body.kind = "form" => rep.body.csrf = new.csrf /\ rep.body.uri = None
        \/ /\ m # "PATCH" /\ valid /\ path = Logout
           /\ rep.status \in {"moved_temporarily", "ok"} /\ rep.body.kind # "form"
           /\ rep.location = <<"/">> /\ new.access = None

\* server::handle_request, for a request without a form.
LEMMA Answered ==
    ASSUME AsUsual, NEW b, NEW m \in Methods \cup {"GET", "POST"}, NEW path \in Paths,
           tokens \in Nat
    PROVE  Answer(b, m, path, HandleRequest(Request(b, m, path, NoFields)))
<1> DEFINE req == Request(b, m, path, NoFields)
           known == GetCsrfToken(req)
           rep == HandleRequest(req)
           new == AfterReply(jar[b], rep)
           done == Dispatch(known)
           e == <<>>
<1>1. /\ req.method = m /\ req.path = path /\ req.fields = NoFields
      /\ req.access = jar[b].access /\ req.csrf = jar[b].csrf
      /\ known.method = m /\ known.path = path /\ known.fields = NoFields
      /\ known.csrf = (IF jar[b].csrf = None THEN tokens ELSE jar[b].csrf)
      /\ known.csrf # None
  BY RequestFields
<1> HIDE DEF req, known, done
<1>2. rep = IF m = "PATCH" THEN ReplyOf("bad_request", Error, None, e)
            ELSE IF ~ValidateRequest(req)
            THEN ReplyOf("unauthorized", Form(jar[b].csrf, path), None, e)
            ELSE Finished(req, known, done)
  BY <1>1, HandleRequestIs DEF known, done
<1> HIDE DEF rep
<1> SUFFICES Answer(b, m, path, rep)
  BY DEF rep, req
<1>k. \A s, x, l : /\ AfterReply(jar[b], ReplyOf(s, x, l, e)).access = jar[b].access
                   /\ AfterReply(jar[b], ReplyOf(s, x, l, e)).csrf = jar[b].csrf
  <2>1. ASSUME NEW s, NEW x, NEW l
        PROVE  AfterReply(jar[b], ReplyOf(s, x, l, e)) = [access |-> jar[b].access, csrf |-> jar[b].csrf]
    BY CookiesKept
  <2> HIDE DEF e
  <2>2. QED
    BY <2>1
<1>m. \A s, x, l : /\ AfterReply(jar[b], ReplyOf(s, x, l, Given(e, tokens))).access
                        = jar[b].access
                   /\ AfterReply(jar[b], ReplyOf(s, x, l, Given(e, tokens))).csrf
                        = tokens
  <2>1. ASSUME NEW s, NEW x, NEW l
        PROVE  AfterReply(jar[b], ReplyOf(s, x, l, Given(e, tokens)))
                        = [access |-> jar[b].access, csrf |-> tokens]
    BY CookiesKept
  <2> HIDE DEF e
  <2>2. QED
    BY <2>1
<1>3. CASE m = "PATCH"
  <2> HIDE DEF e
  <2>1. rep = ReplyOf("bad_request", Error, None, e)
    BY <1>2, <1>3
  <2>2. rep.status = "bad_request" /\ rep.body.kind # "form" /\ new.access = jar[b].access
    BY <2>1, <1>k, ReplyFields, Bodies
  <2>3. QED
    BY <1>3, <2>2 DEF Answer
<1>4. CASE m # "PATCH" /\ ~ValidateRequest(req)
  <2> HIDE DEF e
  <2>1. rep = ReplyOf("unauthorized", Form(jar[b].csrf, path), None, e)
    BY <1>2, <1>4
  <2>2. /\ rep.status = "unauthorized" /\ rep.body = Form(jar[b].csrf, path)
        /\ new.access = jar[b].access /\ new.csrf = jar[b].csrf
    BY <2>1, <1>k, ReplyFields
  <2>3. QED
    BY <1>4, <2>2 DEF Answer, req
<1>5. CASE m # "PATCH" /\ ValidateRequest(req)
  <2>0. rep = Finished(req, known, done)
    BY <1>2, <1>5
  <2>1. ASSUME done.thrown \in {"forbidden", "internal_server_error"}, path # Logout
        PROVE  Answer(b, m, path, rep)
    <3>1. rep = ReplyOf(done.thrown, Error, None, e)
      BY <2>0, <2>1, FinishedIs
    <3> HIDE DEF e
    <3>2. /\ rep.status \notin {"unauthorized", "moved_temporarily"} /\ rep.body.kind # "form"
          /\ new.access = jar[b].access
      BY <2>1, <3>1, <1>k, ReplyFields, Bodies
    <3>3. QED
      BY <1>5, <2>1, <3>2 DEF Answer, req
  <2>2. ASSUME NEW s, NEW x, done.thrown = None, done.reply = ReplyOf(s, x, None, e), path # Logout,
               s \in {"not_found", "ok", "forbidden", "internal_server_error"},
               x.kind = "form" => x.csrf = known.csrf /\ x.uri = None
        PROVE  Answer(b, m, path, rep)
    <3> HIDE DEF e
    <3>1. rep = IF m = "HEAD" THEN ReplyOf("ok", NoBody, None, e)
                ELSE IF jar[b].csrf = None
                THEN ReplyOf(s, x, None, Given(e, tokens))
                ELSE ReplyOf(s, x, None, e)
      BY <1>1, <2>0, <2>2, FinishedIs
    <3>2. /\ rep.status \notin {"unauthorized", "moved_temporarily"}
          /\ new.access = jar[b].access
          /\ rep.body.kind = "form" => rep.body.csrf = new.csrf /\ rep.body.uri = None
      <4>1. CASE m = "HEAD"
        <5>1. rep = ReplyOf("ok", NoBody, None, e)
          BY <3>1, <4>1
        <5>2. QED
          BY <5>1, <1>k, ReplyFields, Bodies
      <4>2. CASE m # "HEAD" /\ jar[b].csrf = None
        <5>1. rep = ReplyOf(s, x, None, Given(e, tokens))
          BY <3>1, <4>2
        <5>2. rep.status = s /\ rep.body = x
          BY <5>1, ReplyFields
        <5>3. new.access = jar[b].access /\ new.csrf = tokens
          BY <5>1, <1>m
        <5>4. QED
          BY <1>1, <2>2, <4>2, <5>2, <5>3
      <4>3. CASE m # "HEAD" /\ jar[b].csrf # None
        <5>1. rep = ReplyOf(s, x, None, e)
          BY <3>1, <4>3
        <5>2. rep.status = s /\ rep.body = x
          BY <5>1, ReplyFields
        <5>3. new.access = jar[b].access /\ new.csrf = jar[b].csrf
          BY <5>1, <1>k
        <5>4. QED
          BY <1>1, <2>2, <4>3, <5>2, <5>3
      <4>4. QED
        BY <4>1, <4>2, <4>3
    <3>3. QED
      BY <1>5, <2>2, <3>2 DEF Answer, req
  <2>3. CASE path = Login /\ m = "GET"
    <3> DEFINE r == ReplyOf("ok", Form(known.csrf, None), None, e)
    <3>1. done = Result(r, TRUE, None)
      BY <1>1, <2>3, Dispatched DEF done
    <3>2. done.reply = r /\ done.thrown = None
      BY <3>1 DEF Result
    <3>3. path # Logout
      BY <2>3 DEF Login, Logout
    <3> HIDE DEF e
    <3>4. Form(known.csrf, None).csrf = known.csrf /\ Form(known.csrf, None).uri = None
      BY Bodies
    <3>5. QED
      BY <2>2, <3>2, <3>3, <3>4
  <2>4. CASE path = Login /\ m = "POST"
    <3>1. done = PostLogin(known)
      BY <1>1, <2>4, Dispatched DEF done
    <3>2. NoFields["_csrf"] = None
      BY DEF NoFields, FieldNames
    <3>3. done = Result(Reply("not_found", Error), FALSE, "forbidden")
      BY <1>1, <3>1, <3>2 DEF PostLogin
    <3>4. done.thrown = "forbidden"
      BY <3>3 DEF Result
    <3>5. path # Logout
      BY <2>4 DEF Login, Logout
    <3>6. QED
      BY <2>1, <3>4, <3>5
  <2>5. CASE path = Logout
    <3> DEFINE a == Access(None)
               r == ReplyOf("moved_temporarily", Error, <<"/">>, a)
    <3>1. Destination(known, "logout") = <<"/">>
      <4>1. known.fields["uri"] = None
        BY <1>1 DEF NoFields, FieldNames
      <4>2. QED
        BY <4>1 DEF Destination
    <3>2. path # Login
      BY <2>5 DEF Login, Logout
    <3>3. done = Result(r, TRUE, None)
      BY <1>1, <2>5, <3>1, <3>2, Dispatched DEF done
    <3>4. done.reply = r /\ done.thrown = None
      BY <3>3 DEF Result
    <3>5. ASSUME NEW s, NEW x, NEW l
          PROVE  /\ AfterReply(jar[b], ReplyOf(s, x, l, a)) = [access |-> None, csrf |-> jar[b].csrf]
                 /\ AfterReply(jar[b], ReplyOf(s, x, l, Given(a, tokens)))
                      = [access |-> None, csrf |-> tokens]
      BY CookiesKept
    <3> DEFINE front == <<"/">>
    <3> HIDE DEF a, front
    <3>6. rep = IF m = "HEAD" THEN ReplyOf("ok", NoBody, front, a)
                ELSE IF jar[b].csrf = None
                THEN ReplyOf("moved_temporarily", Error, front, Given(a, tokens))
                ELSE ReplyOf("moved_temporarily", Error, front, a)
      BY <1>1, <2>0, <3>4, FinishedIs DEF front
    <3>7. /\ rep.status \in {"moved_temporarily", "ok"} /\ rep.body.kind # "form"
          /\ rep.location = front /\ new.access = None
      <4>1. \E s \in {"moved_temporarily", "ok"}, x \in {Error, NoBody},
               c \in {a, Given(a, tokens)} : rep = ReplyOf(s, x, front, c)
        BY <3>6
      <4>2. PICK s \in {"moved_temporarily", "ok"}, x \in {Error, NoBody},
               c \in {a, Given(a, tokens)} : rep = ReplyOf(s, x, front, c)
        BY <4>1
      <4>3. rep.status = s /\ rep.body = x /\ rep.location = front
        BY <4>2, ReplyFields
      <4>4. new.access = None
        <5>1. \E v : new = [access |-> None, csrf |-> v]
          BY <4>2, <3>5
        <5>2. QED
          BY <5>1
      <4>5. QED
        BY <4>3, <4>4, Bodies
    <3>8. QED
      BY <1>5, <2>5, <3>7 DEF Answer, req, front
  <2>6. CASE /\ ~(path = Login /\ m = "GET") /\ ~(path = Login /\ m = "POST") /\ path # Logout
    <3>1. Plain(done)
      BY <1>1, <2>6, Dispatched DEF done
    <3>2. CASE done.thrown = None
      <4>1. PICK s, x :
                /\ s \in {"not_found", "ok", "forbidden", "internal_server_error"}
                /\ x.kind # "form" /\ done.reply = ReplyOf(s, x, None, e)
        BY <3>1 DEF Plain, PlainReply
      <4> HIDE DEF e
      <4>2. QED
        BY <2>2, <2>6, <3>2, <4>1
    <3>3. CASE done.thrown # None
      <4>1. done.thrown \in {"forbidden", "internal_server_error"}
        BY <3>1, <3>3 DEF Plain
      <4>2. QED
        BY <2>1, <2>6, <4>1
    <3>4. QED
      BY <3>2, <3>3
  <2>7. QED
    BY <2>3, <2>4, <2>5, <2>6
<1>6. QED
  BY <1>3, <1>4, <1>5

-----------------------------------------------------------------------------
(* The invariant *)

Token(user, launch) == [user |-> user, roles |-> Users[user].roles, secret |-> launch]
Session(user, launch, wanted) == [user |-> user, launch |-> launch, wanted |-> wanted]

\* Where the redirect after a login leads.
Wanted(uri) == IF uri = None THEN <<"/">> ELSE uri

Uris == (Paths \ {Login}) \cup {None}

\* The cookies, the page and the session of a browser belong together: it has the token
\* of its session, it can send the form it is shown with the csrf token it has, and a
\* redirect after a login leads to what was wanted.
Belong(cookies, shown, who) ==
    /\ \/ who = None /\ cookies.access = None
       \/ \E u \in DOMAIN Users, k \in 0 .. MaxRestarts, w \in Paths \cup {None} :
            who = Session(u, k, w) /\ cookies.access = Token(u, k)
    /\ shown.body.kind = "form" => shown.body.csrf = cookies.csrf /\ shown.body.uri \in Uris
    /\ shown.status = "moved_temporarily" =>
        /\ shown.location \in Paths
        /\ shown.asked = <<"POST", Login>> =>
            who # None /\ shown.location = Wanted(who.wanted)

SiteInv ==
    /\ jar = [b \in Browsers |-> jar[b]] /\ page = [b \in Browsers |-> page[b]]
    /\ session = [b \in Browsers |-> session[b]]
    /\ secret \in 0 .. MaxRestarts /\ tokens \in Nat
    /\ \A b \in Browsers : Belong(jar[b], page[b], session[b])

\* A session is not None, and shows its parts.
LEMMA Sessions ==
    ASSUME NEW u \in DOMAIN Users, NEW k \in 0 .. MaxRestarts, NEW w \in Paths \cup {None}
    PROVE  /\ Session(u, k, w) # None /\ Token(u, k) # None
           /\ Session(u, k, w).user = u /\ Session(u, k, w).launch = k /\ Session(u, k, w).wanted = w
           /\ Token(u, k).user = u /\ Token(u, k).roles = Users[u].roles /\ Token(u, k).secret = k
<1>1. Session(u, k, w) # None /\ Token(u, k) # None
  BY NoneAssumption DEF Session, Token
<1>2. QED
  BY <1>1 DEF Session, Token

\* The rule the code finds for a path is the first the application gave for it, and
\* nothing keeps anybody from the login page.
LEMMA RuleIsRequired ==
    ASSUME AsUsual, RulesAsGiven, NEW path \in Paths
    PROVE  /\ path = Login => RuleFor[path] # None /\ RuleFor[path].roles = {}
           /\ path # Login => IF Required[path] = None THEN RuleFor[path] = None
                              ELSE RuleFor[path] # None /\ RuleFor[path].roles = Required[path]
<1> DEFINE matching == {i \in DOMAIN Rules : glob_match(path, Rules[i].pattern)}
           given == {i \in DOMAIN Setup : /\ Setup[i].call = "add_rule"
                                          /\ Denotes(Items(Setup[i].pattern), path)}
           first == CHOOSE i \in matching : \A j \in matching : i <= j
           Added(i) == Setup[i].call = "add_rule"
           LoginAdded(i) == Setup[i].call = "add_controller" /\ Setup[i].kind = "login"
<1>1. RuleFor[path] = IF matching = {} THEN None ELSE Rules[first]
  BY DEF RuleFor, Min
<1>2. Required[path] = IF given = {} THEN None
                       ELSE Setup[CHOOSE i \in given : \A j \in given : i <= j].roles
  BY DEF Required
<1>3. /\ DOMAIN Rules = {i \in DOMAIN Setup : Added(i) \/ LoginAdded(i)}
      /\ \A i \in DOMAIN Rules : Rules[i] = IF Added(i)
                                           THEN [pattern |-> Setup[i].pattern, roles |-> Setup[i].roles]
                                           ELSE [pattern |-> Login, roles |-> {}]
  BY DEF Rules
<1>4. ASSUME NEW i \in DOMAIN Rules
      PROVE  /\ Added(i) => Rules[i].pattern = Setup[i].pattern /\ Rules[i].roles = Setup[i].roles
             /\ ~Added(i) => Rules[i].pattern = Login
  <2>1. CASE Added(i)
    <3>1. Rules[i] = [pattern |-> Setup[i].pattern, roles |-> Setup[i].roles]
      BY <1>3, <2>1
    <3>2. QED
      BY <2>1, <3>1
  <2>2. CASE ~Added(i)
    <3>1. Rules[i] = [pattern |-> Login, roles |-> {}]
      BY <1>3, <2>2
    <3>2. QED
      BY <2>2, <3>1
  <2>3. QED
    BY <2>1, <2>2
<1>5. first \in matching \/ matching = {}
  <2>1. matching \subseteq Nat
    BY <1>3 DEF RulesAsGiven
  <2> HIDE DEF matching
  <2>2. matching # {} => \E i \in matching : \A j \in matching : i <= j
    BY <2>1, Smallest
  <2>3. QED
    BY <2>2
<1>6. CASE path = Login
  BY <1>6 DEF RulesAsGiven
<1>7. CASE path # Login
  <2>0. Name(path)
    BY DEF AsUsual, Name
  <2>1. matching = given
    <3>1. \A i \in matching : Added(i)
      BY <1>4, <1>7, <2>0, OnlyLogin
    <3>2. ASSUME NEW i \in DOMAIN Rules, Added(i)
          PROVE  glob_match(path, Rules[i].pattern) <=> Denotes(Items(Setup[i].pattern), path)
      <4>1. PlainPattern(Setup[i].pattern)
        BY <1>3, <3>2 DEF RulesAsGiven
      <4>2. Rules[i].pattern = Setup[i].pattern
        BY <1>4, <3>2
      <4>3. QED
        BY <2>0, <4>1, <4>2, PatternsAsMeant
    <3>3. QED
      BY <1>3, <3>1, <3>2
  <2>2. CASE matching = {}
    BY <1>1, <1>2, <1>7, <2>1, <2>2
  <2>3. CASE matching # {}
    <3>1. first \in matching /\ first \in given
      BY <1>5, <2>1, <2>3
    <3>2. first \in DOMAIN Rules /\ Added(first)
      BY <3>1
    <3>3. Required[path] = Setup[first].roles
      BY <1>2, <2>1, <2>3
    <3>4. RuleFor[path] = Rules[first]
      BY <1>1, <2>3
    <3> HIDE DEF first, matching, given
    <3>5. Rules[first] # None /\ Rules[first].roles # None
      BY <3>2 DEF RulesAsGiven
    <3>6. QED
      BY <1>4, <1>7, <3>2, <3>3, <3>4, <3>5
  <2>4. QED
    BY <2>2, <2>3
<1>8. QED
  BY <1>6, <1>7

\* A request is validated exactly when the browser is entitled to the page.
LEMMA ValidIfEntitled ==
    ASSUME AsUsual, RulesAsGiven, SiteInv, NEW b \in Browsers, NEW m, NEW path \in Paths
    PROVE  ValidateRequest(Request(b, m, path, NoFields)) <=> Entitled(b, path)
<1> DEFINE req == Request(b, m, path, NoFields)
           cred == Credentials(req)
           rule == RuleFor[path]
<1>1. req.path = path /\ req.fields = NoFields /\ req.access = jar[b].access
  BY DEF Request
<1>2. ValidateRequest(req) <=> RuleAllows(rule, cred)
  <2>1. NoFields["_csrf"] = None
    BY DEF NoFields, FieldNames
  <2> HIDE DEF req, cred, rule
  <2>2. QED
    BY <1>1, <2>1 DEF ValidateRequest, cred, rule
<1>3. Belong(jar[b], page[b], session[b])
  BY DEF SiteInv
<1> HIDE DEF req, rule
<1>4. CASE path = Login
  <2>1. rule # None /\ rule.roles = {}
    BY <1>4, RuleIsRequired DEF rule
  <2>2. QED
    BY <1>2, <1>4, <2>1 DEF RuleAllows, Entitled, req
<1>5. CASE path # Login /\ Required[path] = None
  <2>1. rule = None
    BY <1>5, RuleIsRequired DEF rule
  <2>2. None # {}
    BY NoneAssumption
  <2>3. Entitled(b, path) <=> DefaultAllow
    BY <1>5, <2>2 DEF Entitled
  <2>4. RuleAllows(rule, cred) <=> DefaultAllow
    BY <2>1 DEF RuleAllows
  <2>5. QED
    BY <1>2, <2>3, <2>4 DEF req
<1>6. CASE path # Login /\ Required[path] # None
  <2> DEFINE need == Required[path]
  <2>1. rule # None /\ rule.roles = need
    BY <1>6, RuleIsRequired DEF rule
  <2>2. RuleAllows(rule, cred) <=> need = {} \/ (cred # None /\ need \cap cred.roles # {})
    BY <2>1 DEF RuleAllows
  <2>3. Entitled(b, path) <=> \/ need = {}
                              \/ /\ session[b] # None /\ session[b].launch = secret
                                 /\ Users[session[b].user].roles \cap need # {}
    BY <1>6 DEF Entitled
  <2> HIDE DEF need, cred
  <2>4. CASE session[b] = None
    <3>1. jar[b].access = None
      BY <1>3, <2>4, Sessions DEF Belong
    <3>2. cred = None
      BY <1>1, <3>1 DEF Credentials, cred
    <3>3. QED
      BY <1>2, <2>2, <2>3, <2>4, <3>2 DEF req
  <2>5. CASE session[b] # None
    <3>1. PICK u \in DOMAIN Users, k \in 0 .. MaxRestarts, w \in Paths \cup {None} :
            session[b] = Session(u, k, w) /\ jar[b].access = Token(u, k)
      BY <1>3, <2>5 DEF Belong
    <3>2. /\ session[b].user = u /\ session[b].launch = k /\ req.access # None
          /\ req.access.roles = Users[u].roles /\ req.access.secret = k
      BY <1>1, <3>1, Sessions
    <3>3. cred = IF Users[u].roles = {} \/ k # secret THEN None ELSE req.access
      BY <3>2 DEF Credentials, cred
    <3>4. QED
      BY <1>2, <2>2, <2>3, <2>5, <3>2, <3>3 DEF req
  <2>6. QED
    BY <2>4, <2>5
<1>7. QED
  BY <1>4, <1>5, <1>6

\* The form as a browser sends it.
FormFields(b, user, password) ==
    [f \in FieldNames |-> CASE f = "_csrf"    -> page[b].body.csrf
                            [] f = "uri"      -> page[b].body.uri
                            [] f = "username" -> user
                            [] f = "password" -> password]

\* The answer to a form: refused as forged when the browser has no csrf token, else the
\* user is logged in and redirected, or is given the form again.
FormAnswer(b, user, password, rep) ==
    LET new == AfterReply(jar[b], rep)
    IN  \/ /\ jar[b].csrf = None /\ rep.status = "forbidden" /\ rep.body.kind # "form"
           /\ new.access = jar[b].access
        \/ /\ jar[b].csrf # None /\ user \in DOMAIN Users /\ password = Users[user].password
           /\ rep.status = "moved_temporarily" /\ rep.body.kind # "form"
           /\ rep.location = Wanted(page[b].body.uri) /\ new.access = Token(user, secret)
        \/ /\ jar[b].csrf # None /\ ~(user \in DOMAIN Users /\ password = Users[user].password)
           /\ rep.status = "ok" /\ rep.body = Form(jar[b].csrf, page[b].body.uri)
           /\ new.access = jar[b].access /\ new.csrf = jar[b].csrf

\* server::handle_request, for a form that is sent back.
LEMMA FormAnswered ==
    ASSUME AsUsual, RulesAsGiven, SiteInv, NEW b \in Browsers,
           page[b].body.kind = "form", NEW user, NEW password
    PROVE  FormAnswer(b, user, password,
                      HandleRequest(Request(b, "POST", Login, FormFields(b, user, password))))
<1> DEFINE fields == FormFields(b, user, password)
           req == Request(b, "POST", Login, fields)
           known == GetCsrfToken(req)
           rep == HandleRequest(req)
           new == AfterReply(jar[b], rep)
           done == Dispatch(known)
           uri == page[b].body.uri
           e == <<>>
<1>1. /\ req.method = "POST" /\ req.path = Login /\ req.fields = fields
      /\ req.access = jar[b].access /\ req.csrf = jar[b].csrf
      /\ known.method = "POST" /\ known.path = Login /\ known.fields = fields
      /\ known.csrf = (IF jar[b].csrf = None THEN tokens ELSE jar[b].csrf)
      /\ known.csrf # None
  <2>1. tokens \in Nat
    BY DEF SiteInv
  <2> HIDE DEF fields
  <2>2. QED
    BY <2>1, RequestFields
<1>2. /\ fields["_csrf"] = page[b].body.csrf /\ fields["uri"] = uri
      /\ fields["username"] = user /\ fields["password"] = password
  BY DEF FormFields, FieldNames
<1>3. page[b].body.csrf = jar[b].csrf /\ uri \in Uris
  BY DEF SiteInv, Belong
<1> HIDE DEF fields, req, known, done, uri
<1>4. ValidateRequest(req)
  <2>1. RuleFor[Login] # None /\ RuleFor[Login].roles = {}
    BY RuleIsRequired DEF AsUsual
  <2>2. RuleAllows(RuleFor[req.path], Credentials(req))
    BY <1>1, <2>1 DEF RuleAllows
  <2>3. req.fields["_csrf"] = req.csrf
    BY <1>1, <1>2, <1>3
  <2>4. QED
    BY <2>2, <2>3 DEF ValidateRequest
<1>5. rep = Finished(req, known, done)
  BY <1>1, <1>4, HandleRequestIs DEF known, done
<1>6. done = PostLogin(known)
  <2>1. Login \in Paths
    BY DEF AsUsual
  <2>2. QED
    BY <1>1, <2>1, Dispatched DEF done
<1> HIDE DEF rep
<1> SUFFICES FormAnswer(b, user, password, rep)
  BY DEF rep, req, fields
<1>7. CASE jar[b].csrf = None
  <2>1. done = Result(Reply("not_found", Error), FALSE, "forbidden")
    BY <1>1, <1>2, <1>3, <1>6, <1>7 DEF PostLogin
  <2>2. done.thrown = "forbidden"
    BY <2>1 DEF Result
  <2>3. rep = ReplyOf("forbidden", Error, None, e)
    BY <1>5, <2>2, FinishedIs
  <2>4. new = [access |-> jar[b].access, csrf |-> jar[b].csrf]
    BY <2>3, CookiesKept
  <2> HIDE DEF e, new
  <2>5. rep.status = "forbidden" /\ rep.body.kind # "form" /\ new.access = jar[b].access
    BY <2>3, <2>4, ReplyFields, Bodies
  <2>6. QED
    BY <1>7, <2>5 DEF FormAnswer, new
<1>8. CASE jar[b].csrf # None
  <2> DEFINE to == Destination(known, "login")
             right == user \in DOMAIN Users /\ password = Users[user].password
  <2>1. known.csrf = jar[b].csrf /\ known.fields["_csrf"] = known.csrf /\ known.fields["uri"] = uri
        /\ known.fields["username"] = user /\ known.fields["password"] = password
    BY <1>1, <1>2, <1>3, <1>8
  <2>2. to = Wanted(uri)
    <3>1. CASE uri = None
      BY <2>1, <3>1 DEF Destination, Wanted
    <3>2. CASE uri # None
      <4>1. uri \in Paths /\ uri # Login
        BY <1>3, <3>2 DEF Uris
      <4>2. uri # <<>> /\ Last(uri) # "login"
        BY <4>1 DEF AsUsual
      <4>3. QED
        BY <2>1, <3>2, <4>2 DEF Destination, Wanted
    <3>3. QED
      BY <3>1, <3>2
  <2>3. Verified(user, password) <=> right
    BY DEF Verified
  <2>4. Redirect(to) = ReplyOf("moved_temporarily", Error, to, e)
    BY ReplyMade
  <2>5. AccessToken(user) = Token(user, secret)
    BY DEF AccessToken, Token
  <2>6. done = IF right
               THEN Result(SetCookie(Redirect(to), "access_token", Token(user, secret)), TRUE, None)
               ELSE Result(SetContent(Redirect(to), Form(jar[b].csrf, uri)), TRUE, None)
    <3> HIDE DEF right
    <3>1. QED
      BY <1>6, <2>1, <2>3, <2>5 DEF PostLogin
  <2>7. \A token : Append(e, <<"access_token", token>>) = Access(token)
    BY DEF Access
  <2>8. CASE right
    <3> HIDE DEF e
    <3> DEFINE token == Token(user, secret)
               r == ReplyOf("moved_temporarily", Error, to, Access(token))
    <3> HIDE DEF to, token
    <3>0. SetCookie(Redirect(to), "access_token", token) = r
      <4>1. SetCookie(Redirect(to), "access_token", token)
              = ReplyOf("moved_temporarily", Error, to, Append(e, <<"access_token", token>>))
        BY <2>4, ReplyFields
      <4>2. Append(e, <<"access_token", token>>) = Access(token)
        BY <2>7, Zenon
      <4>3. QED
        BY <4>1, <4>2, Zenon
    <3>1. done = Result(r, TRUE, None)
      BY <2>6, <2>8, <3>0 DEF token
    <3>2. done.reply = r /\ done.thrown = None
      BY <3>1 DEF Result
    <3>3. rep = r
      BY <1>1, <1>5, <1>8, <3>2, FinishedIs
    <3>4. new = [access |-> token, csrf |-> jar[b].csrf]
      BY <3>3, CookiesKept
    <3> HIDE DEF new, to
    <3>5. /\ rep.status = "moved_temporarily" /\ rep.body.kind # "form"
          /\ rep.location = to /\ new.access = token
      BY <3>3, <3>4, ReplyFields, Bodies
    <3>6. QED
      BY <1>8, <2>2, <2>8, <3>5 DEF FormAnswer, new, uri, token
  <2>9. CASE ~right
    <3> DEFINE r == ReplyOf("ok", Form(jar[b].csrf, uri), to, e)
    <3>a. \A s, x, l : AfterReply(jar[b], ReplyOf(s, x, l, e)) = [access |-> jar[b].access, csrf |-> jar[b].csrf]
      BY CookiesKept
    <3> HIDE DEF e, right
    <3> HIDE DEF to
    <3>0. SetContent(Redirect(to), Form(jar[b].csrf, uri)) = r
      BY <2>4, ReplyFields
    <3>1. done = Result(r, TRUE, None)
      BY <2>6, <2>9, <3>0
    <3>2. done.reply = r /\ done.thrown = None
      BY <3>1 DEF Result
    <3>3. rep = r
      BY <1>1, <1>5, <1>8, <3>2, FinishedIs
    <3>4. new = [access |-> jar[b].access, csrf |-> jar[b].csrf]
      BY <3>3, <3>a
    <3> HIDE DEF new, to
    <3>5. /\ rep.status = "ok" /\ rep.body = Form(jar[b].csrf, uri)
          /\ new.access = jar[b].access /\ new.csrf = jar[b].csrf
      BY <3>3, <3>4, ReplyFields
    <3>6. QED
      BY <1>8, <2>9, <3>5 DEF FormAnswer, new, uri, right
  <2>10. QED
    BY <2>8, <2>9
<1>9. QED
  BY <1>7, <1>8

-----------------------------------------------------------------------------
(* Every step keeps the invariant *)

\* What a browser has after an answer, and that the others keep what they had.
LEMMA Received ==
    ASSUME SiteInv, NEW b \in Browsers, NEW asked, NEW rep, Receive(b, asked, rep),
           NEW who, session' = [session EXCEPT ![b] = who],
           Belong(AfterReply(jar[b], rep),
                  [asked |-> asked, status |-> rep.status, body |-> rep.body,
                   location |-> rep.location], who)
    PROVE  SiteInv'
<1>1. /\ jar' = [jar EXCEPT ![b] = AfterReply(jar[b], rep)]
      /\ page' = [page EXCEPT ![b] = [asked |-> asked, status |-> rep.status,
                                      body |-> rep.body, location |-> rep.location]]
      /\ secret' = secret
  BY DEF Receive
<1>2. tokens' \in Nat
  BY DEF Receive, SiteInv
<1>3. /\ jar' = [x \in Browsers |-> jar'[x]] /\ page' = [x \in Browsers |-> page'[x]]
      /\ session' = [x \in Browsers |-> session'[x]]
  BY <1>1 DEF SiteInv
<1>4. ASSUME NEW x \in Browsers PROVE Belong(jar'[x], page'[x], session'[x])
  <2>1. CASE x = b
    <3>1. /\ jar'[b] = AfterReply(jar[b], rep) /\ session'[b] = who
          /\ page'[b] = [asked |-> asked, status |-> rep.status, body |-> rep.body,
                         location |-> rep.location]
      BY <1>1 DEF SiteInv
    <3>2. QED
      BY <2>1, <3>1
  <2>2. CASE x # b
    <3>1. jar'[x] = jar[x] /\ page'[x] = page[x] /\ session'[x] = session[x]
      BY <1>1, <2>2 DEF SiteInv
    <3>2. QED
      BY <3>1 DEF SiteInv
  <2>3. QED
    BY <2>1, <2>2
<1>5. secret' \in 0 .. MaxRestarts
  BY <1>1 DEF SiteInv
<1>6. \A x \in Browsers : Belong(jar[x], page[x], session[x])'
  BY <1>4 DEF Belong
<1>7. QED
  BY <1>2, <1>3, <1>5, <1>6 DEF SiteInv

\* What a browser is shown.
LEMMA Shown ==
    ASSUME SiteInv, NEW b \in Browsers, NEW asked, NEW rep, Receive(b, asked, rep)
    PROVE  /\ page'[b].asked = asked /\ page'[b].status = rep.status
           /\ page'[b].body = rep.body /\ page'[b].location = rep.location
<1>1. page'[b] = [asked |-> asked, status |-> rep.status, body |-> rep.body,
                  location |-> rep.location]
  BY DEF Receive, SiteInv
<1>2. QED
  BY <1>1

\* A request without a form keeps the invariant, and is refused to those not entitled.
LEMMA Visited ==
    ASSUME AsUsual, RulesAsGiven, SiteInv, NEW b \in Browsers,
           NEW m \in Methods \cup {"GET"}, NEW path \in Paths,
           Send(b, m, path, NoFields), Leave(b, path)
    PROVE  /\ SiteInv'
           /\ page'[b].asked = <<m, path>>
           /\ m # "PATCH" => (page'[b].status = "unauthorized" <=> ~Entitled(b, path))
<1> DEFINE req == Request(b, m, path, NoFields)
           rep == HandleRequest(req)
           new == AfterReply(jar[b], rep)
           shown == [asked |-> <<m, path>>, status |-> rep.status, body |-> rep.body,
                     location |-> rep.location]
           who == IF path = Logout /\ rep.status \in {"moved_temporarily", "ok"}
                  THEN None ELSE session[b]
<1>1. Receive(b, <<m, path>>, rep)
  BY DEF Send
<1>2. Answer(b, m, path, rep)
  <2>1. tokens \in Nat
    BY DEF SiteInv
  <2>2. QED
    BY <2>1, Answered
<1>3. ValidateRequest(req) <=> Entitled(b, path)
  BY ValidIfEntitled
<1>4. Belong(jar[b], page[b], session[b])
  BY DEF SiteInv
<1>5. Entitled(b, Login)
  BY DEF Entitled
<1> HIDE DEF rep
<1>6. page'[b].asked = <<m, path>> /\ page'[b].status = rep.status
  BY <1>1, Shown
<1>7. session' = [session EXCEPT ![b] = who]
  BY <1>6 DEF Leave
<1>8. /\ shown.asked = <<m, path>> /\ shown.status = rep.status
      /\ shown.body = rep.body /\ shown.location = rep.location
  OBVIOUS
<1>9. <<m, path>> = <<"POST", Login>> => m = "POST" /\ path = Login
  OBVIOUS
<1> DEFINE asked == <<m, path>>
<1>10. Login # Logout /\ <<"/">> \in Paths
  BY DEF Login, Logout, AsUsual
<1>a. \A c, u : Form(c, u).kind = "form" /\ Form(c, u).csrf = c /\ Form(c, u).uri = u
  BY Bodies
<1> HIDE DEF new, req, shown
<1>11. Belong(new, shown, who)
  <2>1. CASE m = "PATCH" /\ rep.status = "bad_request" /\ rep.body.kind # "form"
             /\ new.access = jar[b].access
    <3>1. who = session[b]
      BY <2>1
    <3>2. QED
      BY <1>4, <1>8, <2>1, <3>1 DEF Belong
  <2>2. CASE /\ m # "PATCH" /\ ~ValidateRequest(req) /\ rep.status = "unauthorized"
             /\ rep.body = Form(jar[b].csrf, path)
             /\ new.access = jar[b].access /\ new.csrf = jar[b].csrf
    <3>1. who = session[b]
      BY <2>2
    <3>2. path \in Uris
      BY <1>3, <1>5, <2>2 DEF Uris
    <3>3. shown.body.csrf = new.csrf /\ shown.body.uri \in Uris
      BY <1>8, <1>a, <2>2, <3>2
    <3>4. shown.status # "moved_temporarily"
      BY <1>8, <2>2
    <3>5. QED
      BY <1>4, <2>2, <3>1, <3>3, <3>4 DEF Belong
  <2>3. CASE /\ m # "PATCH" /\ ValidateRequest(req) /\ path # Logout
             /\ rep.status \notin {"unauthorized", "moved_temporarily"}
             /\ new.access = jar[b].access
             /\ rep.body.kind = "form" => rep.body.csrf = new.csrf /\ rep.body.uri = None
    <3>1. who = session[b]
      BY <2>3
    <3>2. None \in Uris
      BY DEF Uris
    <3>3. QED
      BY <1>4, <1>8, <2>3, <3>1, <3>2 DEF Belong
  <2>4. CASE /\ m # "PATCH" /\ ValidateRequest(req) /\ path = Logout
             /\ rep.status \in {"moved_temporarily", "ok"} /\ rep.body.kind # "form"
             /\ rep.location = <<"/">> /\ new.access = None
    <3>1. who = None
      BY <2>4
    <3>2. shown.asked # <<"POST", Login>>
      BY <1>8, <1>9, <1>10, <2>4
    <3>3. shown.location \in Paths /\ shown.body.kind # "form"
      BY <1>8, <1>10, <2>4
    <3>4. QED
      BY <2>4, <3>1, <3>2, <3>3 DEF Belong
  <2>5. QED
    BY <1>2, <2>1, <2>2, <2>3, <2>4 DEF Answer, new, req
<1>12. SiteInv'
  <2> HIDE DEF who
  <2>1. QED
    BY <1>1, <1>7, <1>11, Received DEF new, shown
<1>13. m # "PATCH" => (rep.status = "unauthorized" <=> ~Entitled(b, path))
  BY <1>2, <1>3 DEF Answer, req
<1>14. QED
  BY <1>6, <1>12, <1>13

\* A form that is sent back keeps the invariant, and is not refused as forged.
LEMMA Submitted ==
    ASSUME AsUsual, RulesAsGiven, SiteInv, NEW b \in Browsers, NEW user \in DOMAIN Users,
           NEW password, Submit(b, user, password)
    PROVE  /\ SiteInv'
           /\ jar[b].csrf # None => page'[b].status \notin {"forbidden", "unauthorized"}
<1> DEFINE req == Request(b, "POST", Login, FormFields(b, user, password))
           rep == HandleRequest(req)
           new == AfterReply(jar[b], rep)
           uri == page[b].body.uri
           asked == <<"POST", Login>>
           shown == [asked |-> asked, status |-> rep.status, body |-> rep.body,
                     location |-> rep.location]
           right == password = Users[user].password
           who == IF right /\ rep.status = "moved_temporarily"
                  THEN Session(user, secret, uri) ELSE session[b]
<1>1. page[b].body.kind = "form" /\ Receive(b, asked, rep)
  BY DEF Submit, Send, FormFields
<1>2. FormAnswer(b, user, password, rep)
  BY <1>1, FormAnswered
<1>3. Belong(jar[b], page[b], session[b]) /\ secret \in 0 .. MaxRestarts
  BY DEF SiteInv
<1>4. uri \in Uris
  BY <1>1, <1>3 DEF Belong
<1> HIDE DEF rep
<1>5. page'[b].status = rep.status
  BY <1>1, Shown
<1>6. session' = [session EXCEPT ![b] = who]
  BY <1>5 DEF Submit, Session
<1>7. /\ shown.asked = asked /\ shown.status = rep.status
      /\ shown.body = rep.body /\ shown.location = rep.location
  OBVIOUS
<1>a. \A c, u : Form(c, u).kind = "form" /\ Form(c, u).csrf = c /\ Form(c, u).uri = u
  BY Bodies
<1> HIDE DEF new, req, shown, uri, asked, right
<1>8. Belong(new, shown, who)
  <2>1. CASE /\ rep.status = "forbidden" /\ rep.body.kind # "form"
             /\ new.access = jar[b].access
    <3>1. who = session[b]
      BY <2>1
    <3>2. QED
      BY <1>3, <1>7, <2>1, <3>1 DEF Belong
  <2>2. CASE /\ right /\ rep.status = "moved_temporarily" /\ rep.body.kind # "form"
             /\ rep.location = Wanted(uri) /\ new.access = Token(user, secret)
    <3>1. who = Session(user, secret, uri)
      BY <2>2
    <3>2. uri \in Paths \cup {None}
      BY <1>4 DEF Uris
    <3>3. who # None /\ who.wanted = uri
      BY <1>3, <3>1, <3>2, Sessions
    <3>4. shown.location \in Paths /\ shown.location = Wanted(who.wanted)
      BY <1>7, <2>2, <3>2, <3>3 DEF Wanted, AsUsual
    <3>5. \E u \in DOMAIN Users, k \in 0 .. MaxRestarts, w \in Paths \cup {None} :
            who = Session(u, k, w) /\ new.access = Token(u, k)
      BY <1>3, <2>2, <3>1, <3>2
    <3>6. shown.body.kind # "form"
      BY <1>7, <2>2
    <3> HIDE DEF who
    <3>7. QED
      BY <3>3, <3>4, <3>5, <3>6 DEF Belong
  <2>3. CASE /\ rep.status = "ok" /\ rep.body = Form(jar[b].csrf, uri)
             /\ new.access = jar[b].access /\ new.csrf = jar[b].csrf
    <3>1. who = session[b]
      BY <2>3
    <3>2. shown.body.csrf = new.csrf /\ shown.body.uri \in Uris
      BY <1>4, <1>7, <1>a, <2>3
    <3>3. shown.status # "moved_temporarily"
      BY <1>7, <2>3
    <3>4. QED
      BY <1>3, <2>3, <3>1, <3>2, <3>3 DEF Belong
  <2>4. QED
    BY <1>2, <2>1, <2>2, <2>3 DEF FormAnswer, new, uri, right
<1>9. SiteInv'
  <2> HIDE DEF who
  <2>1. QED
    BY <1>1, <1>6, <1>8, Received DEF new, shown
<1>10. jar[b].csrf # None => rep.status \notin {"forbidden", "unauthorized"}
  BY <1>2 DEF FormAnswer
<1>11. QED
  BY <1>5, <1>9, <1>10

\* The event tells which action was taken.
LEMMA Events ==
    /\ \A b, m, p : Visit(b, m, p) => event' = <<"visit", b>>
    /\ \A b, u, w : Submit(b, u, w) => event' = <<"submit", b>>
    /\ \A b : Follow(b) => event' = <<"follow", b>>
    /\ \A b : Forget(b) => event' = <<"forget", b>>
    /\ Restart => event' = <<"restart", None>>
<1>1. \A b, m, p : Visit(b, m, p) => event' = <<"visit", b>>
  BY DEF Visit
<1>2. \A b, u, w : Submit(b, u, w) => event' = <<"submit", b>>
  BY DEF Submit
<1>3. /\ \A b : Follow(b) => event' = <<"follow", b>>
      /\ \A b : Forget(b) => event' = <<"forget", b>>
      /\ Restart => event' = <<"restart", None>>
  BY DEF Follow, Forget, Restart
<1>4. QED
  BY <1>1, <1>2, <1>3

\* Following a redirect is such a request.
LEMMA Followed ==
    ASSUME AsUsual, RulesAsGiven, SiteInv, NEW b \in Browsers, Follow(b)
    PROVE  /\ SiteInv'
           /\ page'[b].asked = <<"GET", page[b].location>>
           /\ page'[b].status = "unauthorized" <=> ~Entitled(b, page[b].location)
<1>1. page[b].location \in Paths
  BY DEF Follow, Redirected, SiteInv, Belong
<1>2. Send(b, "GET", page[b].location, NoFields) /\ Leave(b, page[b].location)
  BY DEF Follow
<1>3. QED
  BY <1>1, <1>2, Visited

\* The end of a browser keeps the invariant.
LEMMA Forgotten ==
    ASSUME SiteInv, NEW b \in Browsers, Forget(b)
    PROVE  SiteInv'
<1> DEFINE empty == [access |-> None, csrf |-> None]
<1>1. /\ jar' = [jar EXCEPT ![b] = empty] /\ page' = [page EXCEPT ![b] = NoPage]
      /\ session' = [session EXCEPT ![b] = None] /\ secret' = secret /\ tokens' = tokens
  BY DEF Forget
<1>2. Belong(empty, NoPage, None)
  <2>1. /\ empty.access = None /\ NoPage.status = "none" /\ NoPage.body = NoBody
    BY DEF NoPage
  <2>2. NoPage.body.kind # "form"
    BY <2>1, Bodies
  <2>3. QED
    BY <2>1, <2>2 DEF Belong
<1> HIDE DEF empty
<1>3. ASSUME NEW x \in Browsers PROVE Belong(jar'[x], page'[x], session'[x])
  <2>1. CASE x = b
    <3>1. jar'[b] = empty /\ page'[b] = NoPage /\ session'[b] = None
      BY <1>1 DEF SiteInv
    <3>2. QED
      BY <1>2, <2>1, <3>1
  <2>2. CASE x # b
    <3>1. jar'[x] = jar[x] /\ page'[x] = page[x] /\ session'[x] = session[x]
      BY <1>1, <2>2 DEF SiteInv
    <3>2. QED
      BY <3>1 DEF SiteInv
  <2>3. QED
    BY <2>1, <2>2
<1>4. /\ jar' = [x \in Browsers |-> jar'[x]] /\ page' = [x \in Browsers |-> page'[x]]
      /\ session' = [x \in Browsers |-> session'[x]]
      /\ secret' \in 0 .. MaxRestarts /\ tokens' \in Nat
  BY <1>1 DEF SiteInv
<1>5. \A x \in Browsers : Belong(jar[x], page[x], session[x])'
  BY <1>3 DEF Belong
<1>6. QED
  BY <1>4, <1>5 DEF SiteInv

\* Every step keeps the invariant.
LEMMA SiteStep ==
    ASSUME AsUsual, RulesAsGiven, SiteInv, [Next]_vars
    PROVE  SiteInv'
<1>1. ASSUME NEW b \in Browsers, NEW m \in Methods, NEW p \in Paths, Visit(b, m, p)
      PROVE  SiteInv'
  <2>1. Send(b, m, p, NoFields) /\ Leave(b, p)
    BY <1>1 DEF Visit
  <2>2. QED
    BY <2>1, Visited
<1>2. ASSUME NEW b \in Browsers, NEW u \in DOMAIN Users, NEW w \in Passwords, Submit(b, u, w)
      PROVE  SiteInv'
  BY <1>2, Submitted
<1>3. ASSUME NEW b \in Browsers, Follow(b) PROVE SiteInv'
  BY <1>3, Followed
<1>4. ASSUME NEW b \in Browsers, Forget(b) PROVE SiteInv'
  BY <1>4, Forgotten
<1>5. CASE Restart
  <2>1. /\ jar' = jar /\ page' = page /\ session' = session /\ tokens' = tokens
        /\ secret' = secret + 1 /\ secret < MaxRestarts
    BY <1>5 DEF Restart
  <2>2. secret' \in 0 .. MaxRestarts
    <3>1. MaxRestarts \in Int
      BY SiteBounds
    <3>2. QED
      BY <2>1, <3>1 DEF SiteInv
  <2>3. QED
    BY <2>1, <2>2 DEF SiteInv, Belong
<1>6. CASE UNCHANGED vars
  BY <1>6 DEF vars, SiteInv, Belong
<1>7. QED
  BY <1>1, <1>2, <1>3, <1>4, <1>5, <1>6 DEF Next

\* Nobody has logged in at first.
LEMMA SiteInit ==
    ASSUME Init
    PROVE  SiteInv
<1>1. /\ NoPage.status = "none" /\ NoPage.body = NoBody
  BY DEF NoPage
<1>2. NoPage.body.kind # "form"
  BY <1>1, Bodies
<1>3. ASSUME NEW b \in Browsers PROVE Belong(jar[b], page[b], session[b])
  <2>1. jar[b].access = None /\ page[b] = NoPage /\ session[b] = None
    BY DEF Init
  <2>2. QED
    BY <1>1, <1>2, <2>1 DEF Belong
<1>4. secret \in 0 .. MaxRestarts /\ tokens \in Nat
  BY SiteBounds DEF Init
<1>5. /\ jar = [b \in Browsers |-> jar[b]] /\ page = [b \in Browsers |-> page[b]]
      /\ session = [b \in Browsers |-> session[b]]
  BY DEF Init
<1>6. QED
  BY <1>3, <1>4, <1>5 DEF SiteInv

-----------------------------------------------------------------------------
(* Which mount fits a path *)

\* The least of a set of places.
LEMMA LeastIs ==
    ASSUME NEW T, T \subseteq Nat, NEW k \in T, \A j \in T : k <= j
    PROVE  k = CHOOSE i \in T : \A j \in T : i <= j
<1>1. ASSUME NEW i \in T, \A j \in T : i <= j PROVE i = k
  <2>1. i <= k /\ k <= i /\ i \in Nat /\ k \in Nat
    BY <1>1
  <2>2. QED
    BY <2>1
<1>2. QED
  BY <1>1

\* One slash at the front is taken away where none is doubled.
LEMMA StrippedIs ==
    ASSUME NEW S, NEW s \in Seq(S), \A i \in 1 .. Len(s) - 1 : s[i] = "/" => s[i + 1] # "/"
    PROVE  /\ s # <<>> /\ s[1] = "/" => WithoutSlashes(s) = SubSeq(s, 2, Len(s))
           /\ s = <<>> \/ s[1] # "/" => WithoutSlashes(s) = s
<1> DEFINE words == {i \in DOMAIN s : s[i] # "/"}
<1>1. Len(s) \in Nat /\ DOMAIN s = 1 .. Len(s) /\ (s # <<>> => Len(s) # 0) /\ words \subseteq Nat
  BY LenProperties, EmptySeq
<1>2. WithoutSlashes(s) = IF words = {} THEN <<>>
        ELSE SubSeq(s, CHOOSE i \in words : \A j \in words : i <= j, Len(s))
  BY DEF WithoutSlashes
<1>3. CASE s = <<>>
  <2>1. words = {}
    BY <1>3
  <2>2. QED
    BY <2>1, <1>2, <1>3
<1>4. CASE s # <<>> /\ s[1] # "/"
  <2>1. 1 \in words /\ \A j \in words : 1 <= j
    BY <1>1, <1>4
  <2> HIDE DEF words
  <2>2. 1 = CHOOSE i \in words : \A j \in words : i <= j
    BY <1>1, <2>1, LeastIs
  <2>3. SubSeq(s, 1, Len(s)) = s
    BY SubSeqFull
  <2>4. QED
    BY <1>2, <1>4, <2>1, <2>2, <2>3
<1>5. CASE s # <<>> /\ s[1] = "/"
  <2>1. CASE Len(s) = 1
    <3>1. words = {} /\ SubSeq(s, 2, Len(s)) = <<>>
      BY <1>1, <1>5, <2>1, SubSeqEmpty
    <3>2. QED
      BY <3>1, <1>2, <1>5
  <2>2. CASE Len(s) # 1
    <3>1. 2 \in 1 .. Len(s) /\ 1 \in 1 .. Len(s) - 1
      BY <1>1, <1>5, <2>2
    <3>2. s[2] # "/"
      BY <1>5, <3>1
    <3>3. 2 \in words /\ \A j \in words : 2 <= j
      BY <1>1, <1>5, <3>1, <3>2
    <3> HIDE DEF words
    <3>4. 2 = CHOOSE i \in words : \A j \in words : i <= j
      BY <1>1, <3>3, LeastIs
    <3>5. QED
      BY <1>2, <1>5, <3>3, <3>4
  <2>3. QED
    BY <2>1, <2>2
<1>6. QED
  BY <1>3, <1>4, <1>5

\* What is left without the slashes at the front.
LEMMA StrippedSeq ==
    ASSUME NEW S, NEW s \in Seq(S)
    PROVE  /\ WithoutSlashes(s) \in Seq(S)
           /\ (\E i \in 1 .. Len(s) : s[i] # "/") =>
                Len(WithoutSlashes(s)) \in Nat \ {0} /\ WithoutSlashes(s)[1] # "/"
<1> DEFINE words == {i \in DOMAIN s : s[i] # "/"}
           k == CHOOSE i \in words : \A j \in words : i <= j
<1>1. Len(s) \in Nat /\ DOMAIN s = 1 .. Len(s)
  BY LenProperties
<1>2. WithoutSlashes(s) = IF words = {} THEN <<>> ELSE SubSeq(s, k, Len(s))
  BY DEF WithoutSlashes
<1>3. CASE words = {}
  <2>1. ~ \E i \in 1 .. Len(s) : s[i] # "/"
    BY <1>1, <1>3
  <2>2. QED
    BY <2>1, <1>2, <1>3, EmptySeq
<1>4. CASE words # {}
  <2>1. words \subseteq Nat
    BY <1>1
  <2>2. \E i \in words : \A j \in words : i <= j
    <3> HIDE DEF words
    <3>1. QED
      BY <2>1, <1>4, Smallest
  <2>3. k \in words
    BY <2>2
  <2> HIDE DEF k
  <2>4. k \in 1 .. Len(s) /\ k \in 1 .. Len(s) + 1 /\ s[k] # "/"
    BY <2>3, <1>1
  <2> DEFINE w == SubSeq(s, k, Len(s))
  <2>5. /\ w \in Seq(S) /\ Len(w) = Len(s) + 1 - k
        /\ \A i \in 1 .. Len(s) + 1 - k : w[i] = s[k + i - 1]
    BY <2>4, Behind
  <2>6. Len(s) + 1 - k \in Nat \ {0} /\ 1 \in 1 .. Len(s) + 1 - k /\ k + 1 - 1 = k
    BY <2>4, <1>1
  <2> HIDE DEF w
  <2>7. Len(w) \in Nat \ {0} /\ w[1] # "/"
    BY <2>4, <2>5, <2>6
  <2>8. WithoutSlashes(s) = w
    BY <1>2, <1>4 DEF w
  <2>9. QED
    BY <2>5, <2>7, <2>8
<1>5. QED
  BY <1>3, <1>4

\* A prefix has a slash at the front, and no other there, unless it is empty.
LEMMA PrefixIs ==
    ASSUME NEW S, "/" \in S, NEW given \in Seq(S)
    PROVE  /\ PrefixPath(given) \in Seq(S)
           /\ (\E i \in 1 .. Len(given) : given[i] # "/") =>
                \E i \in 1 .. Len(PrefixPath(given)) : PrefixPath(given)[i] # "/"
<1> DEFINE f == <<"/">>
           w == WithoutSlashes(given)
<1>1. PrefixPath(given) = IF given = <<>> THEN <<>>
                          ELSE IF given[1] # "/" THEN f \o given ELSE f \o w
  BY DEF PrefixPath, WithoutSlashes
<1>2. f \in Seq(S) /\ Len(f) = 1
  OBVIOUS
<1>3. w \in Seq(S) /\ ((\E i \in 1 .. Len(given) : given[i] # "/") => Len(w) \in Nat \ {0} /\ w[1] # "/")
  BY StrippedSeq
<1> HIDE DEF f, w
<1>4. ASSUME NEW t \in Seq(S)
      PROVE  /\ f \o t \in Seq(S)
             /\ Len(t) \in Nat \ {0} /\ t[1] # "/" =>
                    \E i \in 1 .. Len(f \o t) : (f \o t)[i] # "/"
  <2>1. /\ f \o t \in Seq(S) /\ Len(f \o t) = Len(f) + Len(t)
        /\ \A i \in 1 .. Len(f) + Len(t) : (f \o t)[i] = IF i <= Len(f) THEN f[i] ELSE t[i - Len(f)]
    BY <1>2, ConcatProperties
  <2>2. ASSUME Len(t) \in Nat \ {0}, t[1] # "/" PROVE \E i \in 1 .. Len(f \o t) : (f \o t)[i] # "/"
    <3>1. 2 \in 1 .. Len(f) + Len(t) /\ ~(2 <= Len(f)) /\ 2 - Len(f) = 1
      BY <1>2, <2>2
    <3>2. (f \o t)[2] # "/"
      BY <2>1, <2>2, <3>1
    <3>3. QED
      BY <2>1, <3>1, <3>2
  <2>3. QED
    BY <2>1, <2>2
<1>5. given # <<>> => Len(given) \in Nat \ {0}
  BY EmptySeq
<1>6. CASE given = <<>>
  <2>1. ~ \E i \in 1 .. Len(given) : given[i] # "/"
    BY <1>6
  <2>2. PrefixPath(given) \in Seq(S)
    BY <1>1, <1>6, EmptySeq
  <2>3. QED
    BY <2>1, <2>2
<1>7. CASE given # <<>> /\ given[1] # "/"
  BY <1>1, <1>4, <1>5, <1>7
<1>8. CASE given # <<>> /\ given[1] = "/"
  BY <1>1, <1>3, <1>4, <1>8
<1>9. QED
  BY <1>6, <1>7, <1>8

\* A path goes on behind a prefix of it, and one that does has it for a prefix.
LEMMA PrefixedIs ==
    ASSUME NEW S, NEW pre \in Seq(S), NEW s \in Seq(S)
    PROVE  /\ IsPrefix(pre, s) => /\ Len(pre) + 1 \in 1 .. Len(s) + 1
                                  /\ s = pre \o SubSeq(s, Len(pre) + 1, Len(s))
           /\ \A r \in Seq(S) : s = pre \o r =>
                IsPrefix(pre, s) /\ SubSeq(s, Len(pre) + 1, Len(s)) = r
<1> DEFINE q == Len(pre)
           n == Len(s)
           rest == SubSeq(s, q + 1, n)
<1>1. q \in Nat /\ n \in Nat
  BY LenProperties
<1>2. ASSUME q <= n
      PROVE  /\ SubSeq(s, 1, q) \in Seq(S) /\ Len(SubSeq(s, 1, q)) = q
             /\ \A i \in 1 .. q : SubSeq(s, 1, q)[i] = s[i]
  <2>1. \A i \in 1 .. n : s[i] \in S
    BY ElementOfSeq
  <2> HIDE DEF n, q
  <2>2. q \in Int /\ 1 \in Int /\ \A i \in 1 .. q : s[i] \in S
    BY <1>1, <1>2, <2>1
  <2>3. /\ SubSeq(s, 1, q) \in Seq(S) /\ Len(SubSeq(s, 1, q)) = (IF 1 <= q THEN q - 1 + 1 ELSE 0)
        /\ \A i \in 1 .. q - 1 + 1 : SubSeq(s, 1, q)[i] = s[1 + i - 1]
    BY <2>2, SubSeqProperties
  <2>4. q = (IF 1 <= q THEN q - 1 + 1 ELSE 0) /\ q - 1 + 1 = q /\ \A i \in 1 .. q : 1 + i - 1 = i
    BY <1>1
  <2>5. QED
    BY <2>3, <2>4
<1>3. SubSeq(pre, 1, q) = pre
  <2>1. \A i \in 1 .. q : pre[i] \in S
    BY ElementOfSeq
  <2> DEFINE t == SubSeq(pre, 1, q)
  <2>2. /\ t \in Seq(S) /\ Len(t) = (IF 1 <= q THEN q - 1 + 1 ELSE 0)
        /\ \A i \in 1 .. q - 1 + 1 : t[i] = pre[1 + i - 1]
    <3> HIDE DEF q
    <3>1. QED
      BY <1>1, <2>1, SubSeqProperties
  <2>3. q = (IF 1 <= q THEN q - 1 + 1 ELSE 0) /\ q - 1 + 1 = q /\ \A i \in 1 .. q : 1 + i - 1 = i
    BY <1>1
  <2> HIDE DEF t
  <2>4. Len(t) = Len(pre) /\ \A i \in 1 .. Len(t) : t[i] = pre[i]
    BY <2>2, <2>3
  <2>5. t = pre
    BY <2>2, <2>4, SeqEqual
  <2>6. QED
    BY <2>5 DEF t
<1>4. ASSUME q <= n
      PROVE  /\ q + 1 \in 1 .. n + 1 /\ rest \in Seq(S) /\ Len(rest) = n - q
             /\ \A i \in 1 .. n - q : rest[i] = s[q + i]
  <2>1. q + 1 \in 1 .. n + 1 /\ n + 1 - (q + 1) = n - q /\ \A i \in 1 .. n - q : (q + 1) + i - 1 = q + i
    BY <1>1, <1>4
  <2>2. /\ rest \in Seq(S) /\ Len(rest) = n + 1 - (q + 1)
        /\ \A i \in 1 .. n + 1 - (q + 1) : rest[i] = s[(q + 1) + i - 1]
    BY <2>1, Behind
  <2> HIDE DEF rest, n, q
  <2>3. QED
    BY <2>1, <2>2
<1>5. ASSUME NEW r \in Seq(S)
      PROVE  /\ pre \o r \in Seq(S) /\ Len(pre \o r) = q + Len(r) /\ Len(r) \in Nat
             /\ \A i \in 1 .. q + Len(r) : (pre \o r)[i] = IF i <= q THEN pre[i] ELSE r[i - q]
  BY <1>5, ConcatProperties, LenProperties
<1> HIDE DEF q, n, rest
<1>6. ASSUME IsPrefix(pre, s) PROVE q + 1 \in 1 .. n + 1 /\ s = pre \o rest
  <2>1. q <= n /\ pre = SubSeq(s, 1, q)
    BY <1>3, <1>6 DEF IsPrefix, q, n
  <2>2. \A i \in 1 .. q : pre[i] = s[i]
    BY <1>2, <2>1
  <2>3. /\ pre \o rest \in Seq(S) /\ Len(pre \o rest) = q + Len(rest)
        /\ \A i \in 1 .. q + Len(rest) : (pre \o rest)[i] = IF i <= q THEN pre[i] ELSE rest[i - q]
    BY <1>4, <1>5, <2>1
  <2>4. Len(pre \o rest) = n /\ q + Len(rest) = n
    BY <1>1, <1>4, <2>1, <2>3
  <2>5. ASSUME NEW i \in 1 .. n PROVE (pre \o rest)[i] = s[i]
    <3>1. CASE i <= q
      BY <1>1, <2>2, <2>3, <2>4, <3>1
    <3>2. CASE ~(i <= q)
      <4>1. i - q \in 1 .. n - q /\ q + (i - q) = i
        BY <1>1, <3>2
      <4>2. rest[i - q] = s[i]
        BY <1>4, <2>1, <4>1
      <4>3. QED
        BY <2>3, <2>4, <3>2, <4>2
    <3>3. QED
      BY <3>1, <3>2
  <2> DEFINE t == pre \o rest
  <2>6. t \in Seq(S) /\ Len(t) = Len(s) /\ \A i \in 1 .. Len(t) : t[i] = s[i]
    BY <2>3, <2>4, <2>5 DEF n
  <2> HIDE DEF t
  <2>7. t = s
    BY <2>6, SeqEqual
  <2>8. QED
    BY <1>4, <2>1, <2>7 DEF t
<1>7. ASSUME NEW r \in Seq(S), s = pre \o r PROVE IsPrefix(pre, s) /\ rest = r
  <2>1. /\ n = q + Len(r) /\ q <= n /\ Len(r) = n - q /\ Len(r) \in Nat
        /\ \A i \in 1 .. n : s[i] = IF i <= q THEN pre[i] ELSE r[i - q]
    <3>1. n = q + Len(r) /\ Len(r) \in Nat
      BY <1>5, <1>7 DEF n
    <3>2. q <= n /\ Len(r) = n - q
      BY <3>1, <1>1
    <3>3. QED
      BY <3>1, <3>2, <1>5, <1>7
  <2> DEFINE t == SubSeq(s, 1, q)
  <2>2. t \in Seq(S) /\ Len(t) = Len(pre) /\ \A i \in 1 .. Len(t) : t[i] = pre[i]
    <3>1. /\ t \in Seq(S) /\ Len(t) = q /\ \A i \in 1 .. q : t[i] = s[i]
      BY <1>2, <2>1
    <3>2. \A i \in 1 .. q : i \in 1 .. n /\ i <= q
      BY <1>1, <2>1
    <3>3. \A i \in 1 .. q : s[i] = pre[i]
      BY <3>2, <2>1
    <3> HIDE DEF t
    <3>4. QED
      BY <3>1, <3>3 DEF q
  <2>3. t = pre
    <3> HIDE DEF t
    <3>1. QED
      BY <2>2, SeqEqual
  <2>4. IsPrefix(pre, s)
    BY <2>1, <2>3, <1>3 DEF IsPrefix, q, n
  <2>5. Len(rest) = Len(r) /\ \A i \in 1 .. Len(rest) : rest[i] = r[i]
    <3>1. Len(rest) = n - q /\ \A i \in 1 .. n - q : rest[i] = s[q + i]
      BY <1>4, <2>1
    <3>2. \A i \in 1 .. n - q : q + i \in 1 .. n /\ ~(q + i <= q) /\ (q + i) - q = i
      BY <1>1, <2>1
    <3>3. \A i \in 1 .. n - q : s[q + i] = r[i]
      BY <3>2, <2>1
    <3>4. QED
      BY <3>1, <3>3, <2>1
  <2>6. rest = r
    BY <2>5, <1>4, <2>1, SeqEqual
  <2>7. QED
    BY <2>4, <2>6
<1>8. QED
  BY <1>6, <1>7 DEF q, n, rest

\* What can be left of a path is what get_prefixless_path gives, if the prefix matches.
LEMMA LeftOverIs ==
    ASSUME AsUsual, NEW c, c.kind \in {"html", "rest"}, c.prefix \in Seq(Range(c.prefix)),
           NEW p \in Paths
    PROVE  LeftOver(c, p) = IF path_matches_prefix(c, p) THEN {get_prefixless_path(c, p)} ELSE {}
<1> DEFINE S == Range(c.prefix) \cup {"/"} \cup Range(p)
           pre == PrefixPath(c.prefix)
           f == <<"/">>
           rest == SubSeq(p, Len(pre) + 1, Len(p))
<1>1. p \in Seq(Range(p)) /\ \A i \in 1 .. Len(p) - 1 : p[i] = "/" => p[i + 1] # "/"
  BY DEF AsUsual
<1>2. "/" \in S /\ p \in Seq(S) /\ c.prefix \in Seq(S)
  BY <1>1, SeqMonotonic
<1> HIDE DEF S
<1>3. pre \in Seq(S)
  BY <1>2, PrefixIs
<1>4. path_matches_prefix(c, p) <=> IsPrefix(pre, p)
  BY DEF path_matches_prefix, m_prefix_path
<1>5. get_prefixless_path(c, p) = WithoutSlashes(rest)
  BY DEF get_prefixless_path, m_prefix_path
<1>6. f \in Seq(S) /\ Len(f) = 1 /\ f[1] = "/"
  BY <1>2
<1>7. \A r : r \in LeftOver(c, p) <=>
        /\ \E k \in 1 .. Len(p) + 1 : r = SubSeq(p, k, Len(p))
        /\ p = pre \o r \/ p = (pre \o f) \o r
        /\ r = <<>> \/ r[1] # "/"
  BY DEF LeftOver
<1> HIDE DEF pre, f
<1>8. Len(p) \in Nat /\ Len(pre) \in Nat /\ pre \o f \in Seq(S) /\ Len(pre \o f) = Len(pre) + 1
  <2>1. Len(p) \in Nat /\ Len(pre) \in Nat
    BY <1>2, <1>3, LenProperties
  <2>2. pre \o f \in Seq(S) /\ Len(pre \o f) = Len(pre) + Len(f)
    BY <1>3, <1>6, ConcatProperties
  <2>3. QED
    BY <2>1, <2>2, <1>6
<1>9. \A r \in Seq(S) : (pre \o f) \o r = pre \o (f \o r) /\ f \o r \in Seq(S)
  BY <1>3, <1>6, ConcatAssociative, ConcatProperties
<1>10. ASSUME IsPrefix(pre, p)
       PROVE  /\ rest \in Seq(S) /\ p = pre \o rest /\ Len(pre) + 1 \in 1 .. Len(p) + 1
              /\ \A i \in 1 .. Len(rest) - 1 : rest[i] = "/" => rest[i + 1] # "/"
  <2>1. p = pre \o rest /\ Len(pre) + 1 \in 1 .. Len(p) + 1
    BY <1>2, <1>3, <1>10, PrefixedIs
  <2>2. /\ rest \in Seq(S) /\ Len(rest) = Len(p) + 1 - (Len(pre) + 1)
        /\ \A i \in 1 .. Len(p) + 1 - (Len(pre) + 1) : rest[i] = p[(Len(pre) + 1) + i - 1]
    BY <2>1, <1>2, Behind
  <2> HIDE DEF rest
  <2>3. ASSUME NEW i \in 1 .. Len(rest) - 1, rest[i] = "/" PROVE rest[i + 1] # "/"
    <3>1. PICK m : m = Len(pre) + i
      OBVIOUS
    <3>2. /\ i \in 1 .. Len(p) + 1 - (Len(pre) + 1) /\ i + 1 \in 1 .. Len(p) + 1 - (Len(pre) + 1)
          /\ (Len(pre) + 1) + i - 1 = m /\ (Len(pre) + 1) + (i + 1) - 1 = m + 1
          /\ m \in 1 .. Len(p) - 1
      BY <1>8, <2>1, <2>2, <3>1
    <3>3. rest[i] = p[m] /\ rest[i + 1] = p[m + 1]
      BY <2>2, <3>2
    <3>4. QED
      BY <1>1, <2>3, <3>2, <3>3
  <2>4. QED
    BY <2>1, <2>2, <2>3
<1> HIDE DEF rest
<1>11. ASSUME IsPrefix(pre, p) PROVE WithoutSlashes(rest) \in LeftOver(c, p)
  <2>1. CASE rest = <<>> \/ rest[1] # "/"
    <3>1. WithoutSlashes(rest) = rest
      BY <1>10, <1>11, <2>1, StrippedIs
    <3>2. \E k \in 1 .. Len(p) + 1 : rest = SubSeq(p, k, Len(p))
      BY <1>10, <1>11 DEF rest
    <3>3. QED
      BY <1>7, <1>10, <1>11, <2>1, <3>1, <3>2
  <2>2. CASE rest # <<>> /\ rest[1] = "/"
    <3> DEFINE t == SubSeq(rest, 2, Len(rest))
    <3>1. WithoutSlashes(rest) = t
      BY <1>10, <1>11, <2>2, StrippedIs
    <3>2. Len(rest) \in Nat \ {0} /\ 2 \in 1 .. Len(rest) + 1 /\ Len(rest) + 1 - 2 = Len(rest) - 1
      BY <1>10, <1>11, <2>2, EmptySeq
    <3>3. /\ t \in Seq(S) /\ Len(t) = Len(rest) - 1
          /\ \A i \in 1 .. Len(rest) - 1 : t[i] = rest[2 + i - 1]
      BY <1>10, <1>11, <3>2, Behind
    <3>4. rest = f \o t
      <4> HIDE DEF t
      <4>1. /\ f \o t \in Seq(S) /\ Len(f \o t) = Len(f) + Len(t)
            /\ \A i \in 1 .. Len(f) + Len(t) : (f \o t)[i] = IF i <= Len(f) THEN f[i] ELSE t[i - Len(f)]
        BY <1>6, <3>3, ConcatProperties
      <4>2. ASSUME NEW i \in 1 .. Len(rest) PROVE (f \o t)[i] = rest[i]
        <5>1. Len(f) + Len(t) = Len(rest) /\ i \in 1 .. Len(f) + Len(t)
          BY <1>6, <3>2, <3>3
        <5>2. CASE i = 1
          BY <1>6, <2>2, <4>1, <5>1, <5>2
        <5>3. CASE i # 1
          <6>1. i - 1 \in 1 .. Len(rest) - 1 /\ 2 + (i - 1) - 1 = i /\ ~(i <= 1)
            BY <3>2, <5>3
          <6>2. t[i - 1] = rest[i]
            BY <3>3, <6>1
          <6>3. QED
            BY <1>6, <4>1, <5>1, <6>1, <6>2
        <5>4. QED
          BY <5>2, <5>3
      <4>3. Len(f \o t) = Len(rest)
        BY <1>6, <3>2, <3>3, <4>1
      <4> DEFINE u == f \o t
      <4>4. u \in Seq(S) /\ Len(u) = Len(rest) /\ \A i \in 1 .. Len(rest) : u[i] = rest[i]
        BY <4>1, <4>2, <4>3
      <4> HIDE DEF u
      <4>5. u = rest
        BY <1>10, <1>11, <4>4, SeqEqual
      <4>6. QED
        BY <4>5 DEF u
    <3>5. t = <<>> \/ t[1] # "/"
      <4>1. CASE Len(rest) = 1
        BY <3>2, <3>3, <4>1, EmptySeq
      <4>2. CASE Len(rest) # 1
        <5>1. 1 \in 1 .. Len(rest) - 1 /\ 2 + 1 - 1 = 2
          BY <3>2, <4>2
        <5>2. t[1] = rest[2] /\ rest[1 + 1] # "/"
          BY <1>10, <1>11, <2>2, <3>3, <5>1
        <5>3. QED
          BY <5>2
      <4>3. QED
        BY <4>1, <4>2
    <3> HIDE DEF t
    <3>6. p = (pre \o f) \o t
      BY <1>9, <1>10, <1>11, <3>3, <3>4
    <3>7. PICK head : head = pre \o f
      OBVIOUS
    <3>8. head \in Seq(S) /\ p = head \o t
      BY <1>8, <3>6, <3>7
    <3>9. SubSeq(p, Len(head) + 1, Len(p)) = t /\ IsPrefix(head, p)
      BY <1>2, <3>3, <3>8, PrefixedIs
    <3>10. Len(head) + 1 \in 1 .. Len(p) + 1
      BY <1>2, <3>8, <3>9, PrefixedIs
    <3>11. QED
      BY <1>7, <3>1, <3>5, <3>6, <3>9, <3>10
  <2>3. QED
    BY <2>1, <2>2
<1>12. ASSUME NEW r \in LeftOver(c, p) PROVE IsPrefix(pre, p) /\ r = WithoutSlashes(rest)
  <2>1. PICK k \in 1 .. Len(p) + 1 : r = SubSeq(p, k, Len(p))
    BY <1>7, <1>12
  <2>2. r \in Seq(S)
    BY <1>2, <2>1, Behind
  <2>3. CASE p = pre \o r
    <3>1. IsPrefix(pre, p) /\ rest = r
      BY <1>2, <1>3, <2>2, <2>3, PrefixedIs DEF rest
    <3>2. rest = <<>> \/ rest[1] # "/"
      BY <1>7, <1>12, <3>1
    <3>3. QED
      BY <1>10, <3>1, <3>2, StrippedIs
  <2>4. CASE p = (pre \o f) \o r
    <3>1. p = pre \o (f \o r) /\ f \o r \in Seq(S)
      BY <1>9, <2>2, <2>4
    <3>2. IsPrefix(pre, p) /\ rest = f \o r
      <4>1. PICK tail : tail = f \o r
        OBVIOUS
      <4>2. tail \in Seq(S) /\ p = pre \o tail
        BY <3>1, <4>1
      <4>3. IsPrefix(pre, p) /\ SubSeq(p, Len(pre) + 1, Len(p)) = tail
        BY <1>2, <1>3, <4>2, PrefixedIs
      <4>4. QED
        BY <4>1, <4>3 DEF rest
    <3>3. Len(rest) = 1 + Len(r) /\ Len(r) \in Nat /\ rest[1] = "/"
      <4>1. /\ Len(f \o r) = Len(f) + Len(r) /\ Len(r) \in Nat
            /\ \A i \in 1 .. Len(f) + Len(r) : (f \o r)[i] = IF i <= Len(f) THEN f[i] ELSE r[i - Len(f)]
        BY <1>6, <2>2, ConcatProperties, LenProperties
      <4>2. 1 \in 1 .. Len(f) + Len(r) /\ 1 <= Len(f)
        BY <1>6, <4>1
      <4>3. QED
        BY <1>6, <3>2, <4>1, <4>2
    <3>4. rest # <<>>
      BY <3>3, EmptySeq
    <3>5. WithoutSlashes(rest) = SubSeq(rest, 2, Len(rest))
      BY <1>10, <3>2, <3>3, <3>4, StrippedIs
    <3>6. SubSeq(rest, Len(f) + 1, Len(rest)) = r
      BY <1>6, <1>10, <2>2, <3>2, PrefixedIs
    <3>7. Len(f) + 1 = 2
      BY <1>6
    <3>8. QED
      BY <3>2, <3>5, <3>6, <3>7
  <2>5. QED
    BY <1>7, <1>12, <2>3, <2>4
<1>13. CASE IsPrefix(pre, p)
  <2>1. LeftOver(c, p) = {WithoutSlashes(rest)}
    BY <1>11, <1>12, <1>13
  <2>2. QED
    BY <1>4, <1>5, <1>13, <2>1 DEF rest
<1>14. CASE ~IsPrefix(pre, p)
  BY <1>4, <1>12, <1>14
<1>15. QED
  BY <1>13, <1>14

\* MountsAsGiven, for one controller.
LEMMA MountsGiven ==
    ASSUME AsUsual, MountsAsGiven, NEW i \in 2 .. Len(Controllers)
    PROVE  /\ i \in DOMAIN Controllers /\ Controllers[i].kind \in {"html", "rest", "soap"}
           /\ Controllers[i].prefix \in Seq(Range(Controllers[i].prefix))
           /\ Controllers[i].kind = "soap" =>
                \E k \in DOMAIN Controllers[i].prefix : Controllers[i].prefix[k] # "/"
           /\ \A j \in DOMAIN Controllers[i].mounts :
                /\ j \in Nat /\ Controllers[i].mounts[j] # None
                /\ Controllers[i].mounts[j].does \in {"page", "status", "throw"}
                /\ Controllers[i].kind = "html" => PlainPattern(Controllers[i].mounts[j].path)
                /\ Controllers[i].kind = "rest" =>
                        LET path == Controllers[i].mounts[j].path
                        IN  path \in Seq(Range(path)) /\ (path = <<>> \/ path[1] # "/")
<1>1. i \in DOMAIN Controllers
  BY DEF AsUsual
<1>2. QED
  BY <1>1 DEF AsUsual, MountsAsGiven

\* The piece of a sequence between two places, when it is of one symbol.
LEMMA OneOf ==
    ASSUME NEW S, NEW s \in Seq(S), NEW i \in 1 .. Len(s)
    PROVE  SubSeq(s, i, i) = <<s[i]>>
<1> DEFINE t == SubSeq(s, i, i)
           u == <<s[i]>>
<1>1. i \in Int /\ s[i] \in S
  BY LenProperties, ElementOfSeq
<1>2. \A k \in i .. i : s[k] \in S
  BY <1>1
<1>3. t \in Seq(S) /\ Len(t) = (IF i <= i THEN i - i + 1 ELSE 0)
      /\ \A k \in 1 .. i - i + 1 : t[k] = s[i + k - 1]
  BY <1>1, <1>2, SubSeqProperties
<1>4. u \in Seq(S) /\ Len(u) = 1 /\ u[1] = s[i]
  BY <1>1
<1> HIDE DEF t, u
<1>5. Len(t) = 1 /\ t[1] = s[i]
  BY <1>1, <1>3
<1>6. \A k \in 1 .. Len(t) : t[k] = u[k]
  BY <1>4, <1>5
<1>7. t = u
  BY <1>3, <1>4, <1>5, <1>6, SeqEqual
<1>8. QED
  BY <1>7 DEF t, u

\* A piece of one symbol lies between two places that follow each other.
LEMMA OneThere ==
    ASSUME NEW S, NEW s \in Seq(S), NEW a \in 0 .. Len(s), NEW b \in 0 .. Len(s), a <= b,
           NEW x, SubSeq(s, a + 1, b) = <<x>>
    PROVE  b = a + 1 /\ s[b] = x
<1> DEFINE t == SubSeq(s, a + 1, b)
<1>1. Len(s) \in Nat /\ a + 1 \in Int /\ b \in Int
  BY LenProperties
<1>2. \A k \in a + 1 .. b : s[k] \in S
  BY <1>1, ElementOfSeq
<1>3. Len(t) = (IF a + 1 <= b THEN b - (a + 1) + 1 ELSE 0)
      /\ \A k \in 1 .. b - (a + 1) + 1 : t[k] = s[(a + 1) + k - 1]
  BY <1>1, <1>2, SubSeqProperties
<1>4. t = <<x>>
  OBVIOUS
<1> HIDE DEF t
<1>5. Len(t) = 1 /\ t[1] = x
  BY <1>4
<1>6. a + 1 <= b => b - (a + 1) + 1 = 1
  BY <1>3, <1>5
<1>7. ~(a + 1 <= b) => 1 = 0
  BY <1>3, <1>5
<1>8. b = a + 1
  BY <1>1, <1>6, <1>7
<1>9. 1 \in 1 .. b - (a + 1) + 1 /\ (a + 1) + 1 - 1 = b
  BY <1>1, <1>8
<1>10. QED
  BY <1>3, <1>5, <1>8, <1>9

\* The rest of a path is a name to be matched.
LEMMA RestIsName ==
    ASSUME AsUsual, NEW p \in Paths, NEW k \in 1 .. Len(p) + 1
    PROVE  Name(SubSeq(p, k, Len(p)))
<1>1. p \in Seq(Range(p)) /\ "\\" \notin Range(p)
  BY DEF AsUsual
<1>2. SubSeq(p, k, Len(p)) \in Seq(Range(p))
  BY <1>1, Behind
<1>3. Range(SubSeq(p, k, Len(p))) \subseteq Range(p)
  BY <1>2, RangeOfSeq
<1>4. QED
  BY <1>1, <1>2, <1>3, SeqOfRange DEF Name

\* Where no slash begins the path of a mount, the expression made of it is found in just
\* those paths that the mount stands for.
LEMMA RestIs ==
    ASSUME NEW R, NEW mount \in Seq(R), mount = <<>> \/ mount[1] # "/",
           NEW Q, NEW uri \in Seq(Q)
    PROVE  RestMatches(mount, uri) <=> RestDenotes(WithoutSlashes(mount), uri)
<1>1. /\ Len(mount) \in Nat /\ DOMAIN mount = 1 .. Len(mount)
      /\ Len(uri) \in Nat /\ DOMAIN uri = 1 .. Len(uri)
  BY LenProperties
<1>2. WithoutSlashes(mount) = mount
  <2> DEFINE words == {i \in DOMAIN mount : mount[i] # "/"}
  <2>1. WithoutSlashes(mount) = IF words = {} THEN <<>>
          ELSE SubSeq(mount, CHOOSE i \in words : \A j \in words : i <= j, Len(mount))
    BY DEF WithoutSlashes
  <2>2. CASE mount = <<>>
    <3>1. words = {}
      BY <2>2
    <3>2. QED
      BY <2>1, <2>2, <3>1
  <2>3. CASE mount # <<>>
    <3>1. Len(mount) # 0
      BY <2>3, EmptySeq
    <3>2. 1 \in words /\ words \subseteq Nat /\ \A j \in words : 1 <= j
      BY <1>1, <2>3, <3>1
    <3> HIDE DEF words
    <3>3. 1 = CHOOSE i \in words : \A j \in words : i <= j
      BY <3>2, LeastIs
    <3>4. SubSeq(mount, 1, Len(mount)) = mount
      BY SubSeqFull
    <3>5. QED
      BY <2>1, <3>2, <3>3, <3>4
  <2>4. QED
    BY <2>2, <2>3
<1>3. RestExpression(mount) = mount
  <2>1. ~(mount[1] = "/" /\ Len(mount) > 1)
    <3>1. mount = <<>> => ~(Len(mount) > 1)
      BY EmptySeq
    <3>2. QED
      BY <3>1
  <2>2. QED
    BY <2>1 DEF RestExpression
<1>4. CASE \E i \in DOMAIN mount : mount[i] = "{}"
  <2>1. RestMatches(mount, uri) <=>
          \E cut \in Cuts(uri, Len(mount)) : \A i \in DOMAIN mount :
            LET piece == SubSeq(uri, cut[i - 1] + 1, cut[i])
            IN  IF mount[i] = "{}" THEN piece # <<>> /\ \A j \in DOMAIN piece : piece[j] # "/"
                                   ELSE piece = <<mount[i]>>
    BY <1>3, <1>4 DEF RestMatches
  <2>2. \A piece : (\A j \in DOMAIN piece : piece[j] # "/") <=> "/" \notin Range(piece)
    BY DEF Range
  <2>3. RestMatches(mount, uri) <=>
          \E cut \in Cuts(uri, Len(mount)) : \A i \in DOMAIN mount :
            LET piece == SubSeq(uri, cut[i - 1] + 1, cut[i])
            IN  IF mount[i] = "{}" THEN piece # <<>> /\ "/" \notin Range(piece)
                                   ELSE piece = <<mount[i]>>
    BY <2>1, <2>2
  <2>4. QED
    BY <1>2, <2>3 DEF RestDenotes
<1>5. CASE \A i \in DOMAIN mount : mount[i] # "{}"
  <2>1. RestMatches(mount, uri) <=> mount = uri
    BY <1>5 DEF RestMatches
  <2>2. RestDenotes(mount, uri) <=>
          \E cut \in Cuts(uri, Len(mount)) : \A i \in 1 .. Len(mount) :
            SubSeq(uri, cut[i - 1] + 1, cut[i]) = <<mount[i]>>
    BY <1>1, <1>5 DEF RestDenotes
  <2>3. ASSUME mount = uri PROVE RestDenotes(mount, uri)
    <3> DEFINE cut == [i \in 0 .. Len(mount) |-> i]
    <3>1. cut \in Cuts(uri, Len(mount))
      BY <1>1, <2>3 DEF Cuts
    <3>2. ASSUME NEW i \in 1 .. Len(mount)
          PROVE  SubSeq(uri, cut[i - 1] + 1, cut[i]) = <<mount[i]>>
      <4>1. cut[i - 1] + 1 = i /\ cut[i] = i
        BY <1>1
      <4>2. SubSeq(uri, i, i) = <<uri[i]>>
        BY <1>1, <2>3, OneOf
      <4>3. QED
        BY <2>3, <4>1, <4>2
    <3> HIDE DEF cut
    <3>3. QED
      BY <2>2, <3>1, <3>2
  <2>4. ASSUME RestDenotes(mount, uri) PROVE mount = uri
    <3>1. PICK cut \in Cuts(uri, Len(mount)) : \A i \in 1 .. Len(mount) :
            SubSeq(uri, cut[i - 1] + 1, cut[i]) = <<mount[i]>>
      BY <2>2, <2>4
    <3>2. /\ cut \in [0 .. Len(mount) -> 0 .. Len(uri)] /\ cut[0] = 0
          /\ cut[Len(mount)] = Len(uri)
          /\ \A i \in 1 .. Len(mount) : cut[i - 1] <= cut[i]
      BY <3>1 DEF Cuts
    <3>3. ASSUME NEW i \in 1 .. Len(mount)
          PROVE  cut[i] = cut[i - 1] + 1 /\ uri[cut[i]] = mount[i]
      <4> DEFINE a == cut[i - 1]
                 b == cut[i]
      <4>1. a \in 0 .. Len(uri) /\ b \in 0 .. Len(uri) /\ a <= b
        BY <1>1, <3>2
      <4>2. SubSeq(uri, a + 1, b) = <<mount[i]>>
        BY <3>1
      <4> HIDE DEF a, b
      <4>3. b = a + 1 /\ uri[b] = mount[i]
        BY <4>1, <4>2, OneThere
      <4>4. QED
        BY <4>3 DEF a, b
    <3>4. \A k \in 0 .. Len(mount) : cut[k] = k
      <4> DEFINE S == [k \in 0 .. Len(mount) |-> {k}]
      <4>1. cut[0] \in S[0]
        BY <1>1, <3>2
      <4>2. ASSUME NEW k \in 1 .. Len(mount), cut[k - 1] \in S[k - 1] PROVE cut[k] \in S[k]
        <5>1. k \in 0 .. Len(mount) /\ k - 1 \in 0 .. Len(mount) /\ (k - 1) + 1 = k
          BY <1>1
        <5>2. cut[k - 1] = k - 1
          BY <4>2, <5>1
        <5>3. cut[k] = k
          BY <3>3, <5>1, <5>2
        <5>4. QED
          BY <5>1, <5>3
      <4>3. \A k \in 0 .. Len(mount) : cut[k] \in S[k]
        <5> HIDE DEF S
        <5>1. QED
          BY <1>1, <4>1, <4>2, UpTo
      <4>4. QED
        BY <4>3
    <3>5. Len(uri) = Len(mount) /\ \A i \in 1 .. Len(mount) : mount[i] = uri[i]
      <4>1. Len(mount) \in 0 .. Len(mount)
        BY <1>1
      <4>2. Len(uri) = Len(mount)
        BY <3>2, <3>4, <4>1
      <4>3. ASSUME NEW i \in 1 .. Len(mount) PROVE mount[i] = uri[i]
        <5>1. i \in 0 .. Len(mount)
          BY <1>1
        <5>2. cut[i] = i /\ uri[cut[i]] = mount[i]
          BY <3>3, <3>4, <5>1
        <5>3. QED
          BY <5>2
      <4>4. QED
        BY <4>2, <4>3
    <3>6. mount = [i \in 1 .. Len(mount) |-> mount[i]] /\ uri = [i \in 1 .. Len(uri) |-> uri[i]]
      BY LenProperties
    <3>7. QED
      BY <3>5, <3>6
  <2>5. QED
    BY <1>2, <2>1, <2>3, <2>4
<1>6. QED
  BY <1>4, <1>5

\* Those the code looks at for a method.
Looked(i, m, p) ==
    {j \in Fitting[i][p] : IF Controllers[i].kind = "html"
                           THEN Controllers[i].mounts[j].method \in {m, "UNDEFINED"}
                           ELSE Controllers[i].mounts[j].method = m}

\* The mounts that fit a path are those the code finds.
LEMMA MountsForIs ==
    ASSUME AsUsual, MountsAsGiven, NEW i \in 2 .. Len(Controllers),
           Controllers[i].kind \in {"html", "rest"}, NEW m, NEW p \in Paths
    PROVE  /\ path_matches_prefix(Controllers[i], p) =>
                MountsFor(Controllers[i], m, p) = Looked(i, m, p)
           /\ ~path_matches_prefix(Controllers[i], p) => MountsFor(Controllers[i], m, p) = {}
<1> DEFINE c == Controllers[i]
           uri == get_prefixless_path(c, p)
<1>1. LeftOver(c, p) = IF path_matches_prefix(c, p) THEN {uri} ELSE {}
  <2>1. c.kind \in {"html", "rest"} /\ c.prefix \in Seq(Range(c.prefix))
    BY MountsGiven
  <2> HIDE DEF c
  <2>2. QED
    BY <2>1, LeftOverIs
<1>2. Fitting[i][p] = {j \in DOMAIN c.mounts :
                /\ path_matches_prefix(c, p)
                /\ \/ c.kind = "html" /\ glob_match(uri, c.mounts[j].path)
                   \/ c.kind = "rest" /\ RestMatches(c.mounts[j].path, uri)}
  BY MountsGiven DEF Fitting
<1>3. CASE ~path_matches_prefix(c, p)
  BY <1>1, <1>3 DEF MountsFor
<1>4. CASE path_matches_prefix(c, p)
  <2>1. uri \in LeftOver(c, p)
    BY <1>1, <1>4
  <2>2. PICK k \in 1 .. Len(p) + 1 : uri = SubSeq(p, k, Len(p))
    BY <2>1 DEF LeftOver
  <2>3. \A j \in DOMAIN c.mounts : c.kind = "html" =>
            (glob_match(uri, c.mounts[j].path) <=> Denotes(Items(c.mounts[j].path), uri))
    <3>1. Name(uri)
      BY <2>2, RestIsName
    <3>2. QED
      BY <3>1, MountsGiven, PatternsAsMeant
  <2>4. \A j \in DOMAIN c.mounts : c.kind = "rest" =>
            (RestMatches(c.mounts[j].path, uri) <=> RestDenotes(WithoutSlashes(c.mounts[j].path), uri))
    <3>1. PICK Q : uri \in Seq(Q)
      BY <2>2, RestIsName DEF Name
    <3>2. ASSUME NEW j \in DOMAIN c.mounts, c.kind = "rest"
          PROVE  RestMatches(c.mounts[j].path, uri) <=>
                    RestDenotes(WithoutSlashes(c.mounts[j].path), uri)
      <4> DEFINE path == c.mounts[j].path
      <4>1. path \in Seq(Range(path)) /\ (path = <<>> \/ path[1] # "/")
        BY <3>2, MountsGiven
      <4> HIDE DEF path, uri
      <4>2. RestMatches(path, uri) <=> RestDenotes(WithoutSlashes(path), uri)
        BY <3>1, <4>1, RestIs
      <4>3. QED
        BY <4>2 DEF path
    <3>3. QED
      BY <3>2
  <2> HIDE DEF uri, c
  <2>5. MountsFor(c, m, p) = {j \in DOMAIN c.mounts :
            IF c.kind = "html"
            THEN c.mounts[j].method \in {m, "UNDEFINED"} /\ Denotes(Items(c.mounts[j].path), uri)
            ELSE c.mounts[j].method = m /\ RestDenotes(WithoutSlashes(c.mounts[j].path), uri)}
    BY <1>1, <1>4 DEF MountsFor
  <2>6. Looked(i, m, p) = {j \in Fitting[i][p] : IF c.kind = "html"
                           THEN c.mounts[j].method \in {m, "UNDEFINED"}
                           ELSE c.mounts[j].method = m}
    BY DEF Looked, c
  <2>7. c.kind \in {"html", "rest"}
    BY DEF c
  <2>8. MountsFor(c, m, p) = Looked(i, m, p)
    BY <1>2, <1>4, <2>3, <2>5, <2>6, <2>7, <2>4
  <2>9. QED
    BY <1>4, <2>8 DEF c
<1>5. QED
  BY <1>3, <1>4

\* What a mount makes of a request that nobody has answered.
Gives(r, mount) ==
    /\ Done(r)
    /\ IF mount.does = "page"
       THEN r.thrown = None /\ r.reply = ReplyOf("ok", PageOf(mount.page), None, <<>>)
       ELSE \/ r.thrown \in {"forbidden", "internal_server_error"}
            \/ r.thrown = None /\ \E s, b : s # "not_found" /\ r.reply = ReplyOf(s, b, None, <<>>)

\* So does an application's handler.
LEMMA CalledGives ==
    ASSUME NEW mount, mount.does \in {"page", "status", "throw"}, NEW rep,
           rep = Reply("not_found", Error)
    PROVE  /\ Gives(Called(mount, rep), mount)
           /\ mount.does = "page" => Called(mount, rep).thrown = None
           /\ mount.does = "status" => Called(mount, rep).thrown = "forbidden"
           /\ mount.does = "throw" => Called(mount, rep).thrown = "internal_server_error"
<1>1. "forbidden" # None /\ "internal_server_error" # None
  BY NoneAssumption
<1>2. CASE mount.does = "page"
  <2> DEFINE e == <<>>
  <2>1. Called(mount, rep) = Result(SetContent(rep, PageOf(mount.page)), TRUE, None)
    BY <1>2 DEF Called
  <2>2. rep = ReplyOf("not_found", Error, None, e)
    BY ReplyMade
  <2> HIDE DEF e
  <2>3. SetContent(rep, PageOf(mount.page)) = ReplyOf("ok", PageOf(mount.page), None, e)
    BY <2>2, ReplyFields
  <2> DEFINE r == Called(mount, rep)
  <2>4. r.handled = TRUE /\ r.thrown = None /\ r.reply = ReplyOf("ok", PageOf(mount.page), None, e)
    BY <2>1, <2>3 DEF Result
  <2> HIDE DEF r
  <2>5. Gives(r, mount)
    BY <1>2, <2>4 DEF Gives, Done, e
  <2>6. QED
    BY <1>2, <2>4, <2>5 DEF r
<1>3. CASE mount.does = "status"
  BY <1>1, <1>3 DEF Called, Result, Gives, Done
<1>4. CASE mount.does = "throw"
  BY <1>1, <1>4 DEF Called, Result, Gives, Done
<1>5. QED
  BY <1>2, <1>3, <1>4

\* The first of a controller's mounts that fit.
FirstOf(M) == CHOOSE j \in M : \A k \in M : j <= k

\* A controller that nothing of fits leaves a request alone, and the first mount that
\* does answers it otherwise.
LEMMA HtmlAnswers ==
    ASSUME AsUsual, MountsAsGiven, NEW i \in 2 .. Len(Controllers),
           Controllers[i].kind = "html", NEW req, req.path \in Paths, req.method \in {"GET", "POST"},
           NEW M, M = Looked(i, req.method, req.path)
    PROVE  LET r == HtmlRequest(Controllers[i], Fitting[i][req.path], req, NotFound.reply)
           IN  IF M = {} THEN r = NotFound ELSE Gives(r, Controllers[i].mounts[FirstOf(M)])
<1> DEFINE c == Controllers[i]
           rep == NotFound.reply
           mount == FirstMount(c, M)
           r == HtmlRequest(c, Fitting[i][req.path], req, rep)
<1>1. rep = Reply("not_found", Error)
  BY DEF NotFound, Result
<1>2. req.method \notin {"HEAD", "OPTIONS"} /\ req.method # "OPTIONS"
  OBVIOUS
<1>3. {j \in Fitting[i][req.path] : \/ req.method \in {"HEAD", "OPTIONS"}
                                    \/ c.mounts[j].method \in {req.method, "UNDEFINED"}} = M
  BY <1>2 DEF Looked
<1>4. r = IF mount = None THEN NotFound ELSE Called(mount, rep)
  BY <1>2, <1>3 DEF HtmlRequest, NotFound
<1>5. mount = IF M = {} THEN None ELSE c.mounts[FirstOf(M)]
  BY DEF FirstMount, FirstOf
<1>6. M \subseteq DOMAIN c.mounts
  BY MountsGiven DEF Looked, Fitting
<1>7. ASSUME M # {} PROVE FirstOf(M) \in M
  <2>1. M \subseteq Nat
    BY <1>6, MountsGiven
  <2>2. QED
    BY <2>1, <1>7, Smallest DEF FirstOf
<1>8. ASSUME M # {} PROVE mount # None /\ mount.does \in {"page", "status", "throw"}
  <2>1. FirstOf(M) \in DOMAIN c.mounts
    BY <1>6, <1>7, <1>8
  <2>2. c.mounts[FirstOf(M)] # None /\ c.mounts[FirstOf(M)].does \in {"page", "status", "throw"}
    BY <2>1, MountsGiven
  <2>3. QED
    BY <2>2, <1>5, <1>8
<1> HIDE DEF mount, rep, r, c
<1>9. M # {} => Gives(r, mount)
  BY <1>1, <1>4, <1>8, CalledGives
<1>10. M = {} => r = NotFound
  BY <1>4, <1>5
<1>11. QED
  BY <1>5, <1>9, <1>10 DEF r, rep, c

\* The same for rest_controller, which makes replies of exceptions.
LEMMA RestAnswers ==
    ASSUME AsUsual, MountsAsGiven, NEW i \in 2 .. Len(Controllers),
           Controllers[i].kind = "rest", NEW req, req.path \in Paths, req.method \in {"GET", "POST"},
           NEW M, M = Looked(i, req.method, req.path)
    PROVE  LET r == RestRequest(Controllers[i], Fitting[i][req.path], req, NotFound.reply)
           IN  IF M = {} THEN r = NotFound ELSE Gives(r, Controllers[i].mounts[FirstOf(M)])
<1> DEFINE c == Controllers[i]
           rep == NotFound.reply
           mount == FirstMount(c, M)
           called == Called(mount, rep)
           r == RestRequest(c, Fitting[i][req.path], req, rep)
<1>1. rep = Reply("not_found", Error)
  BY DEF NotFound, Result
<1>2. {j \in Fitting[i][req.path] : c.mounts[j].method = req.method} = M
  BY DEF Looked
<1>3. r = IF mount = None THEN Result(rep, FALSE, None)
          ELSE IF called.thrown = None THEN called
          ELSE IF mount.does = "status"
          THEN Result(SetContent(Reply(called.thrown, Error), Error), TRUE, None)
          ELSE Result([SetContent(rep, Error) EXCEPT !.status = called.thrown], TRUE, None)
  BY <1>2 DEF RestRequest
<1>4. mount = IF M = {} THEN None ELSE c.mounts[FirstOf(M)]
  BY DEF FirstMount, FirstOf
<1>5. M \subseteq DOMAIN c.mounts
  BY MountsGiven DEF Looked, Fitting
<1>6. ASSUME M # {} PROVE FirstOf(M) \in M
  <2>1. M \subseteq Nat
    BY <1>5, MountsGiven
  <2>2. QED
    BY <2>1, <1>6, Smallest DEF FirstOf
<1>7. ASSUME M # {} PROVE mount # None /\ mount.does \in {"page", "status", "throw"}
  <2>1. FirstOf(M) \in DOMAIN c.mounts
    BY <1>5, <1>6, <1>7
  <2>2. c.mounts[FirstOf(M)] # None /\ c.mounts[FirstOf(M)].does \in {"page", "status", "throw"}
    BY <2>1, MountsGiven
  <2>3. QED
    BY <2>2, <1>4, <1>7
<1> HIDE DEF mount, rep, r, c
<1>8. M = {} => r = NotFound
  BY <1>1, <1>3, <1>4 DEF NotFound
<1>9. ASSUME M # {} PROVE Gives(r, mount)
  <2>1. /\ Gives(called, mount)
        /\ mount.does = "page" => called.thrown = None
        /\ mount.does = "status" => called.thrown = "forbidden"
        /\ mount.does = "throw" => called.thrown = "internal_server_error"
    BY <1>1, <1>7, <1>9, CalledGives
  <2> HIDE DEF called
  <2>2. "forbidden" # None /\ "internal_server_error" # None
    BY NoneAssumption
  <2> DEFINE e == <<>>
  <2>3. Reply("forbidden", Error) = ReplyOf("forbidden", Error, None, e)
        /\ rep = ReplyOf("not_found", Error, None, e)
    BY <1>1, ReplyMade
  <2> HIDE DEF e
  <2>4. CASE mount.does = "page"
    BY <1>3, <1>7, <1>9, <2>1, <2>4
  <2>5. CASE mount.does = "status"
    <3>1. SetContent(Reply("forbidden", Error), Error) = ReplyOf("ok", Error, None, e)
      BY <2>3, ReplyFields
    <3>2. r = Result(ReplyOf("ok", Error, None, e), TRUE, None)
      BY <1>3, <1>7, <1>9, <2>1, <2>2, <2>5, <3>1
    <3>3. r.handled = TRUE /\ r.thrown = None /\ r.reply = ReplyOf("ok", Error, None, e)
      BY <3>2 DEF Result
    <3>4. "ok" # "not_found" /\ mount.does # "page"
      BY <2>5
    <3>5. QED
      BY <3>3, <3>4 DEF Gives, Done, e
  <2>6. CASE mount.does = "throw"
    <3>1. SetContent(rep, Error) = ReplyOf("ok", Error, None, e)
      BY <2>3, ReplyFields
    <3>2. [SetContent(rep, Error) EXCEPT !.status = "internal_server_error"]
            = ReplyOf("internal_server_error", Error, None, e)
      BY <3>1, ReplyFields
    <3>3. r = Result(ReplyOf("internal_server_error", Error, None, e), TRUE, None)
      BY <1>3, <1>7, <1>9, <2>1, <2>2, <2>6, <3>2
    <3>4. r.handled = TRUE /\ r.thrown = None
          /\ r.reply = ReplyOf("internal_server_error", Error, None, e)
      BY <3>3 DEF Result
    <3>5. "internal_server_error" # "not_found" /\ mount.does # "page"
      BY <2>6
    <3>6. QED
      BY <3>4, <3>5 DEF Gives, Done, e
  <2>7. QED
    BY <1>7, <1>9, <2>4, <2>5, <2>6
<1>10. QED
  BY <1>4, <1>8, <1>9 DEF r, rep, c

\* A soap_controller with a name has lost its slash, and no path begins without one.
LEMMA SoapUnreached ==
    ASSUME AsUsual, MountsAsGiven, NEW i \in 2 .. Len(Controllers),
           Controllers[i].kind = "soap", NEW p \in Paths
    PROVE  ~path_matches_prefix(Controllers[i], p)
<1> DEFINE c == Controllers[i]
           S == Range(c.prefix) \cup {"/"} \cup Range(p)
           given == PrefixPath(c.prefix)
           pre == WithoutSlashes(given)
<1>1. c.prefix \in Seq(Range(c.prefix)) /\ \E k \in DOMAIN c.prefix : c.prefix[k] # "/"
  BY MountsGiven
<1>2. p \in Seq(Range(p)) /\ p # <<>> /\ p[1] = "/"
  BY DEF AsUsual
<1>3. "/" \in S /\ p \in Seq(S) /\ c.prefix \in Seq(S)
  BY <1>1, <1>2, SeqMonotonic
<1> HIDE DEF S
<1>4. path_matches_prefix(c, p) <=> IsPrefix(pre, p)
  BY DEF path_matches_prefix, m_prefix_path
<1>5. pre \in Seq(S) /\ Len(pre) \in Nat \ {0} /\ pre[1] # "/"
  <2>1. \E k \in 1 .. Len(c.prefix) : c.prefix[k] # "/"
    BY <1>1, LenProperties
  <2> HIDE DEF c, pre
  <2>2. given \in Seq(S) /\ \E k \in 1 .. Len(given) : given[k] # "/"
    BY <1>3, <2>1, PrefixIs
  <2> HIDE DEF given
  <2>3. QED
    BY <2>2, StrippedSeq DEF pre
<1> HIDE DEF pre, c
<1>6. ASSUME IsPrefix(pre, p) PROVE FALSE
  <2> DEFINE rest == SubSeq(p, Len(pre) + 1, Len(p))
  <2>1. p = pre \o rest /\ Len(pre) + 1 \in 1 .. Len(p) + 1
    BY <1>3, <1>5, <1>6, PrefixedIs
  <2>2. rest \in Seq(S)
    BY <1>3, <2>1, Behind
  <2> HIDE DEF rest
  <2>3. /\ Len(rest) \in Nat
        /\ \A j \in 1 .. Len(pre) + Len(rest) :
             (pre \o rest)[j] = IF j <= Len(pre) THEN pre[j] ELSE rest[j - Len(pre)]
    BY <1>5, <2>2, ConcatProperties, LenProperties
  <2>4. 1 \in 1 .. Len(pre) + Len(rest) /\ 1 <= Len(pre)
    BY <1>5, <2>3
  <2>5. p[1] = pre[1]
    BY <2>1, <2>3, <2>4
  <2>6. QED
    BY <1>2, <1>5, <2>5
<1>7. QED
  BY <1>4, <1>6 DEF c

\* The controllers some mount of which fits.
Serving(m, p) == {i \in 2 .. Len(Controllers) : /\ Controllers[i].kind \in {"html", "rest"}
                                                /\ MountsFor(Controllers[i], m, p) # {}}

\* One turn of the loop, when nobody has answered yet.
LEMMA TurnIs ==
    ASSUME AsUsual, MountsAsGiven, NEW req, req.path \in Paths \ {Login, Logout},
           req.method \in {"GET", "POST"}, NEW i \in 1 .. Len(Controllers)
    PROVE  /\ i \notin Serving(req.method, req.path) => Turn(i, req, NotFound) = NotFound
           /\ i \in Serving(req.method, req.path) =>
                Gives(Turn(i, req, NotFound), Controllers[i].mounts[
                        FirstOf(MountsFor(Controllers[i], req.method, req.path))])
<1> DEFINE M == MountsFor(Controllers[i], req.method, req.path)
           rep == NotFound.reply
<1>1. Turn(i, req, NotFound) = IF ~path_matches_prefix(Controllers[i], req.path) THEN NotFound
                               ELSE HandleBy(i, req, rep)
  BY DEF Turn, NotFound, Result
<1>2. rep = Reply("not_found", Error) /\ Result(rep, FALSE, None) = NotFound
  BY DEF NotFound, Result
<1> HIDE DEF rep
<1>3. CASE i = 1
  <2>1. HandleBy(1, req, rep) = Result(rep, FALSE, None)
    BY LoginPages
  <2>2. 1 \notin Serving(req.method, req.path)
    BY DEF Serving
  <2>3. QED
    BY <1>1, <1>2, <1>3, <2>1, <2>2
<1>4. CASE i # 1
  <2>1. i \in 2 .. Len(Controllers)
    BY <1>4 DEF AsUsual
  <2>2. Controllers[i].kind \in {"html", "rest", "soap"}
    BY <2>1, MountsGiven
  <2>3. CASE ~path_matches_prefix(Controllers[i], req.path)
    <3>1. Controllers[i].kind \in {"html", "rest"} => M = {}
      BY <2>1, <2>3, MountsForIs
    <3>2. i \notin Serving(req.method, req.path)
      BY <3>1 DEF Serving
    <3>3. QED
      BY <1>1, <2>3, <3>2
  <2>4. CASE path_matches_prefix(Controllers[i], req.path) /\ Controllers[i].kind = "soap"
    BY <2>1, <2>4, SoapUnreached
  <2>5. CASE path_matches_prefix(Controllers[i], req.path) /\ Controllers[i].kind \in {"html", "rest"}
    <3>1. M = Looked(i, req.method, req.path)
      BY <2>1, <2>5, MountsForIs
    <3>2. i \in Serving(req.method, req.path) <=> M # {}
      BY <2>1, <2>5 DEF Serving
    <3> HIDE DEF M
    <3>3. HandleBy(i, req, rep) = IF Controllers[i].kind = "html"
                                  THEN HtmlRequest(Controllers[i], Fitting[i][req.path], req, rep)
                                  ELSE RestRequest(Controllers[i], Fitting[i][req.path], req, rep)
      <4>1. CASE Controllers[i].kind = "html"
        BY <4>1 DEF HandleBy
      <4>2. CASE Controllers[i].kind = "rest"
        BY <4>2 DEF HandleBy
      <4>3. QED
        BY <2>5, <4>1, <4>2
    <3>4. IF M = {} THEN HandleBy(i, req, rep) = NotFound
          ELSE Gives(HandleBy(i, req, rep), Controllers[i].mounts[FirstOf(M)])
      <4>1. CASE Controllers[i].kind = "html"
        BY <2>1, <3>1, <3>3, <4>1, HtmlAnswers DEF rep
      <4>2. CASE Controllers[i].kind = "rest"
        BY <2>1, <3>1, <3>3, <4>2, RestAnswers DEF rep
      <4>3. QED
        BY <2>5, <4>1, <4>2
    <3>5. QED
      BY <1>1, <2>5, <3>2, <3>4 DEF M
  <2>6. QED
    BY <2>2, <2>3, <2>4, <2>5
<1>5. QED
  BY <1>3, <1>4

\* The loop stays with what the first controller of a set makes of the request, when
\* the others leave it alone.
LEMMA FirstAnswers ==
    ASSUME AsUsual, NEW req, NEW D, D[0] = NotFound,
           \A i \in 1 .. Len(Controllers) : D[i] = Turn(i, req, D[i - 1]),
           NEW G, G \subseteq 1 .. Len(Controllers),
           \A i \in 1 .. Len(Controllers) : i \notin G => Turn(i, req, NotFound) = NotFound,
           \A i \in G : Done(Turn(i, req, NotFound))
    PROVE  /\ G = {} => D[Len(Controllers)] = NotFound
           /\ \A i \in G : (\A j \in G : i <= j) => D[Len(Controllers)] = Turn(i, req, NotFound)
<1> DEFINE n == Len(Controllers)
<1>1. n \in Nat \ {0}
  BY DEF AsUsual
<1>2. ASSUME NEW m \in 0 .. n, \A j \in G : m < j PROVE D[m] = NotFound
  <2> DEFINE S == [k \in 0 .. n |-> {NotFound}]
  <2>1. D[0] \in S[0]
    BY <1>1
  <2>2. ASSUME NEW k \in 1 .. m, D[k - 1] \in S[k - 1] PROVE D[k] \in S[k]
    <3>1. k \in 1 .. n /\ k \in 0 .. n /\ k - 1 \in 0 .. n /\ ~(m < k)
      BY <1>1
    <3>2. D[k - 1] = NotFound
      BY <2>2, <3>1
    <3>3. k \notin G
      BY <1>2, <3>1
    <3>4. D[k] = NotFound
      BY <3>1, <3>2, <3>3
    <3>5. QED
      BY <3>1, <3>4
  <2>3. m \in Nat /\ m \in 0 .. m
    BY <1>1
  <2> HIDE DEF S
  <2>4. D[m] \in S[m]
    BY <2>1, <2>2, <2>3, UpTo
  <2>5. QED
    BY <2>4 DEF S
<1>3. ASSUME G = {} PROVE D[n] = NotFound
  <2>1. n \in 0 .. n
    BY <1>1
  <2>2. QED
    BY <1>2, <1>3, <2>1
<1>4. ASSUME NEW i \in G, \A j \in G : i <= j PROVE D[n] = Turn(i, req, NotFound)
  <2>1. i \in 1 .. n /\ i - 1 \in 0 .. n /\ \A j \in G : i - 1 < j
    BY <1>1, <1>4
  <2>2. D[i - 1] = NotFound
    BY <1>2, <2>1
  <2>3. D[i] = Turn(i, req, NotFound)
    BY <2>1, <2>2
  <2>4. QED
    BY <2>1, <2>3, HandledOnce
<1>5. QED
  BY <1>3, <1>4

\* The first of the candidates.
FirstCandidate(fits) ==
    CHOOSE x \in fits : \A y \in fits : x[1] < y[1] \/ (x[1] = y[1] /\ x[2] <= y[2])

\* It is the first mount of the first controller that some mount of fits.
LEMMA CandidatesAre ==
    ASSUME AsUsual, MountsAsGiven, NEW m \in {"GET", "POST"}, NEW p \in Paths
    PROVE  /\ Candidates[m][p] = {} <=> Serving(m, p) = {}
           /\ \A i \in Serving(m, p) : (\A j \in Serving(m, p) : i <= j) =>
                FirstCandidate(Candidates[m][p]) = <<i, FirstOf(MountsFor(Controllers[i], m, p))>>
<1> DEFINE n == Len(Controllers)
           fits == Candidates[m][p]
           For(i) == MountsFor(Controllers[i], m, p)
<1>1. n \in Nat \ {0} /\ DOMAIN Controllers = 1 .. n /\ Controllers[1].kind = "login"
  BY DEF AsUsual
<1>2. fits = UNION {{i} \X For(i) : i \in {k \in DOMAIN Controllers :
                                              Controllers[k].kind \in {"html", "rest"}}}
  <2>1. fits = CandidatesFor(m, p)
    BY DEF Candidates
  <2>2. QED
    BY <2>1 DEF CandidatesFor
<1> HIDE DEF fits
<1>3. \A i \in Serving(m, p) : i \in 2 .. n /\ i \in Nat /\ For(i) # {} /\ For(i) \subseteq Nat
  <2>1. \A i \in Serving(m, p) : i \in 2 .. n /\ For(i) # {}
    BY DEF Serving
  <2>2. ASSUME NEW i \in 2 .. n PROVE For(i) \subseteq Nat
    BY MountsGiven DEF MountsFor
  <2>3. QED
    BY <2>1, <2>2, <1>1
<1>4. ASSUME NEW x PROVE x \in fits <=> \E i \in Serving(m, p) : \E j \in For(i) : x = <<i, j>>
  <2>1. ASSUME x \in fits PROVE \E i \in Serving(m, p) : \E j \in For(i) : x = <<i, j>>
    <3>1. PICK i \in DOMAIN Controllers : Controllers[i].kind \in {"html", "rest"} /\ x \in {i} \X For(i)
      BY <1>2, <2>1
    <3>2. i # 1 /\ i \in 2 .. n
      BY <1>1, <3>1
    <3>3. PICK j \in For(i) : x = <<i, j>>
      BY <3>1
    <3>4. i \in Serving(m, p)
      BY <3>1, <3>2, <3>3 DEF Serving
    <3>5. QED
      BY <3>3, <3>4
  <2>2. ASSUME NEW i \in Serving(m, p), NEW j \in For(i), x = <<i, j>> PROVE x \in fits
    <3>1. i \in DOMAIN Controllers /\ Controllers[i].kind \in {"html", "rest"}
      BY <1>1, <2>2 DEF Serving
    <3>2. x \in {i} \X For(i)
      BY <2>2
    <3>3. QED
      BY <1>2, <3>1, <3>2
  <2>3. QED
    BY <2>1, <2>2
<1> HIDE DEF For
<1>5. fits = {} <=> Serving(m, p) = {}
  <2>1. ASSUME NEW i \in Serving(m, p) PROVE fits # {}
    <3>1. PICK j : j \in For(i)
      BY <1>3
    <3>2. <<i, j>> \in fits
      BY <1>4, <3>1
    <3>3. QED
      BY <3>2
  <2>2. QED
    BY <1>4, <2>1
<1>6. ASSUME NEW i \in Serving(m, p), \A k \in Serving(m, p) : i <= k
      PROVE  FirstCandidate(fits) = <<i, FirstOf(For(i))>>
  <2>1. PICK j : j \in For(i) /\ \A k \in For(i) : j <= k
    BY <1>3, Smallest
  <2>2. j = FirstOf(For(i))
    BY <1>3, <2>1, LeastIs DEF FirstOf
  <2> DEFINE x == <<i, j>>
             Before(u, v) == u[1] < v[1] \/ (u[1] = v[1] /\ u[2] <= v[2])
  <2>3. x \in fits
    BY <1>4, <2>1
  <2>4. ASSUME NEW y \in fits PROVE Before(x, y)
    <3>0. PICK k \in Serving(m, p) : \E l \in For(k) : y = <<k, l>>
      BY <1>4
    <3>1. PICK l \in For(k) : y = <<k, l>>
      BY <3>0
    <3>2. y[1] = k /\ y[2] = l /\ x[1] = i /\ x[2] = j /\ i \in Nat /\ k \in Nat
      BY <1>3, <3>1
    <3>3. i <= k
      BY <1>6
    <3>4. CASE i = k
      BY <2>1, <3>2, <3>4
    <3>5. CASE i # k
      BY <3>2, <3>3, <3>5
    <3>6. QED
      BY <3>4, <3>5
  <2>5. ASSUME NEW y \in fits, \A z \in fits : Before(y, z) PROVE y = x
    <3>0. PICK k \in Serving(m, p) : \E l \in For(k) : y = <<k, l>>
      BY <1>4
    <3>1. PICK l \in For(k) : y = <<k, l>>
      BY <3>0
    <3>2. /\ y[1] = k /\ y[2] = l /\ x[1] = i /\ x[2] = j
          /\ i \in Nat /\ k \in Nat /\ j \in Nat /\ l \in Nat
      BY <1>3, <2>1, <3>1
    <3>3. Before(x, y) /\ Before(y, x)
      BY <2>3, <2>4, <2>5
    <3>4. i = k /\ j = l
      BY <3>2, <3>3
    <3>5. QED
      BY <3>1, <3>4
  <2> HIDE DEF x
  <2>6. x = FirstCandidate(fits)
    BY <2>3, <2>4, <2>5 DEF FirstCandidate
  <2>7. QED
    BY <2>2, <2>6 DEF x
<1>7. QED
  BY <1>5, <1>6 DEF fits, For

\* What a page has to be, where these mounts fit.
Served(fits, status, body) ==
    IF fits = {} THEN status = "not_found"
    ELSE LET x     == FirstCandidate(fits)
             mount == Controllers[x[1]].mounts[x[2]]
         IN  status # "not_found" /\ (mount.does = "page" => body = PageOf(mount.page))

\* The loop over the controllers ends with what the first of the mounts gives.
LEMMA RightDispatch ==
    ASSUME AsUsual, MountsAsGiven, NEW req, req.path \in Paths \ {Login, Logout},
           req.method \in {"GET", "POST"},
           NEW fits, fits = Candidates[req.method][req.path]
    PROVE  IF fits = {} THEN Dispatch(req) = NotFound
           ELSE LET x == FirstCandidate(fits)
                IN  Gives(Dispatch(req), Controllers[x[1]].mounts[x[2]])
<1> DEFINE G == Serving(req.method, req.path)
           First(i) == FirstOf(MountsFor(Controllers[i], req.method, req.path))
<1>1. PICK D : /\ Dispatch(req) = D[Len(Controllers)]
               /\ D[0] = NotFound
               /\ \A i \in 1 .. Len(Controllers) : D[i] = Turn(i, req, D[i - 1])
  BY DispatchTurns
<1>2. /\ fits = {} <=> G = {}
      /\ \A i \in G : (\A j \in G : i <= j) => FirstCandidate(fits) = <<i, First(i)>>
  BY CandidatesAre
<1>3. Len(Controllers) \in Nat \ {0}
  BY DEF AsUsual
<1>4. G \subseteq 1 .. Len(Controllers) /\ G \subseteq Nat
  BY <1>3 DEF Serving
<1>5. /\ \A i \in 1 .. Len(Controllers) : i \notin G => Turn(i, req, NotFound) = NotFound
      /\ \A i \in G : Gives(Turn(i, req, NotFound), Controllers[i].mounts[First(i)])
  BY <1>4, TurnIs
<1> HIDE DEF G, First
<1>6. \A i \in G : Done(Turn(i, req, NotFound))
  BY <1>5 DEF Gives
<1>7. /\ G = {} => D[Len(Controllers)] = NotFound
      /\ \A i \in G : (\A j \in G : i <= j) => D[Len(Controllers)] = Turn(i, req, NotFound)
  BY <1>1, <1>4, <1>5, <1>6, FirstAnswers
<1>8. CASE fits = {}
  BY <1>1, <1>2, <1>7, <1>8
<1>9. CASE fits # {}
  <2>1. PICK i \in G : \A j \in G : i <= j
    BY <1>2, <1>4, <1>9, Smallest
  <2>2. PICK x : x = FirstCandidate(fits)
    OBVIOUS
  <2>3. x = <<i, First(i)>>
    BY <1>2, <2>1, <2>2
  <2>4. x[1] = i /\ x[2] = First(i)
    BY <2>3
  <2>5. Gives(Dispatch(req), Controllers[x[1]].mounts[x[2]])
    BY <1>1, <1>5, <1>7, <2>1, <2>4
  <2>6. QED
    BY <1>9, <2>2, <2>5
<1>10. QED
  BY <1>8, <1>9

\* What is done to it afterwards changes neither the status nor what is shown.
LEMMA ServedRight ==
    ASSUME AsUsual, RulesAsGiven, MountsAsGiven, SiteInv, NEW b \in Browsers,
           NEW m \in {"GET", "POST"}, NEW p \in Paths \ {Login, Logout}, Entitled(b, p),
           NEW rep, rep = HandleRequest(Request(b, m, p, NoFields))
    PROVE  Served(Candidates[m][p], rep.status, rep.body)
<1> DEFINE req == Request(b, m, p, NoFields)
           known == GetCsrfToken(req)
           done == Dispatch(known)
           fits == Candidates[m][p]
           e == <<>>
<1>1. /\ req.method = m /\ req.path = p
      /\ known.method = m /\ known.path = p
  <2>1. tokens \in Nat
    BY DEF SiteInv
  <2>2. QED
    BY <2>1, RequestFields
<1>2. ValidateRequest(req)
  BY ValidIfEntitled
<1> HIDE DEF req, known, done, fits
<1>3. rep = Finished(req, known, done)
  <2>1. req.method \in Methods \cup {"GET", "POST"} /\ req.method # "PATCH"
    BY <1>1
  <2>2. rep = HandleRequest(req)
    BY DEF req
  <2>3. QED
    BY <1>2, <2>1, <2>2, HandleRequestIs DEF known, done
<1>4. IF fits = {} THEN done = NotFound
      ELSE LET x == FirstCandidate(fits)
           IN  Gives(done, Controllers[x[1]].mounts[x[2]])
  <2>1. known.path \in Paths \ {Login, Logout} /\ known.method \in {"GET", "POST"}
    BY <1>1
  <2>2. fits = Candidates[known.method][known.path]
    BY <1>1 DEF fits
  <2>3. QED
    BY <2>1, <2>2, RightDispatch DEF done
<1>5. ASSUME done.thrown \in {"forbidden", "internal_server_error"}
      PROVE  rep.status \in {"forbidden", "internal_server_error"}
  <2>1. rep = ReplyOf(done.thrown, Error, None, e)
    BY <1>3, <1>5, FinishedIs
  <2> HIDE DEF e
  <2>2. QED
    BY <1>5, <2>1, ReplyFields
<1>6. ASSUME NEW s, NEW c, done.thrown = None, done.reply = ReplyOf(s, c, None, e)
      PROVE  rep.status = s /\ rep.body = c
  <2> HIDE DEF e
  <2>1. /\ Finished(req, known, done) =
            IF req.method = "HEAD" THEN ReplyOf("ok", NoBody, None, e)
            ELSE IF req.csrf = None
            THEN ReplyOf(s, c, None, Given(e, tokens))
            ELSE ReplyOf(s, c, None, e)
    BY <1>6, FinishedIs
  <2>2. req.method # "HEAD"
    BY <1>1
  <2>3. QED
    BY <1>3, <2>1, <2>2, ReplyFields
<1>7. CASE fits = {}
  <2>1. done = NotFound
    BY <1>4, <1>7
  <2>2. NotFound.thrown = None /\ NotFound.reply = Reply("not_found", Error)
    BY DEF NotFound, Result
  <2>3. Reply("not_found", Error) = ReplyOf("not_found", Error, None, e)
    BY ReplyMade
  <2> HIDE DEF e
  <2>4. rep.status = "not_found"
    BY <1>6, <2>1, <2>2, <2>3
  <2>5. QED
    BY <1>7, <2>4 DEF Served, fits
<1>8. CASE fits # {}
  <2>1. PICK x : x = FirstCandidate(fits)
    OBVIOUS
  <2>2. PICK mount : mount = Controllers[x[1]].mounts[x[2]]
    OBVIOUS
  <2>3. Gives(done, mount)
    BY <1>4, <1>8, <2>1, <2>2
  <2>4. rep.status # "not_found" /\ (mount.does = "page" => rep.body = PageOf(mount.page))
    <3>1. CASE mount.does = "page"
      <4>1. done.thrown = None /\ done.reply = ReplyOf("ok", PageOf(mount.page), None, e)
        BY <2>3, <3>1 DEF Gives
      <4> HIDE DEF e
      <4>2. rep.status = "ok" /\ rep.body = PageOf(mount.page)
        BY <1>6, <4>1
      <4>3. QED
        BY <4>2
    <3>2. CASE mount.does # "page" /\ done.thrown \in {"forbidden", "internal_server_error"}
      BY <1>5, <3>2
    <3>3. CASE mount.does # "page" /\ done.thrown \notin {"forbidden", "internal_server_error"}
      <4>1. PICK s, c : done.thrown = None /\ s # "not_found" /\ done.reply = ReplyOf(s, c, None, e)
        BY <2>3, <3>3 DEF Gives
      <4> HIDE DEF e
      <4>2. rep.status = s
        BY <1>6, <4>1
      <4>3. QED
        BY <3>3, <4>1, <4>2
    <3>4. QED
      BY <3>1, <3>2, <3>3
  <2>5. QED
    BY <1>8, <2>1, <2>2, <2>4 DEF Served, fits
<1>9. QED
  BY <1>7, <1>8 DEF fits

-----------------------------------------------------------------------------
(* The theorems *)

\* validate_request: a page is refused as unauthorized exactly to those who are not
\* entitled to it, whatever logins, logouts, restarts and lost cookies came before.
THEOREM AccessIsAsConfigured ==
    ASSUME AsUsual, RulesAsGiven
    PROVE  Spec => AccessAsConfigured
<1> DEFINE A == \A b \in Browsers :
                    event' = <<"visit", b>> /\ page'[b].asked[1] # "PATCH" =>
                        (page'[b].status = "unauthorized" <=> ~Entitled(b, page'[b].asked[2]))
<1>1. Init => SiteInv
  BY SiteInit
<1>2. SiteInv /\ [Next]_vars => SiteInv'
  BY SiteStep
<1>3. SiteInv /\ [Next]_vars => [A]_vars
  <2> SUFFICES ASSUME SiteInv, Next, NEW b \in Browsers, event' = <<"visit", b>>,
                      page'[b].asked[1] # "PATCH"
               PROVE  page'[b].status = "unauthorized" <=> ~Entitled(b, page'[b].asked[2])
    OBVIOUS
  <2>1. PICK m \in Methods, p \in Paths : Visit(b, m, p)
    BY Events DEF Next
  <2>2. Send(b, m, p, NoFields) /\ Leave(b, p)
    BY <2>1 DEF Visit
  <2>3. /\ page'[b].asked = <<m, p>>
        /\ m # "PATCH" => (page'[b].status = "unauthorized" <=> ~Entitled(b, p))
    BY <2>2, Visited
  <2>4. page'[b].asked[1] = m /\ page'[b].asked[2] = p
    BY <2>3
  <2>5. QED
    BY <2>3, <2>4
<1> HIDE DEF A
<1>4. QED
  BY <1>1, <1>2, <1>3, PTL DEF Spec, AccessAsConfigured, A

\* login_controller: the redirect after a login leads back to the page whose refusal
\* brought up the form, and that is shown to whoever may see it.
THEOREM LoginLeadsBack ==
    ASSUME AsUsual, RulesAsGiven
    PROVE  Spec => LeadsBack
<1> DEFINE A == \A b \in Browsers :
                    event' = <<"follow", b>> /\ page[b].asked = <<"POST", Login>> =>
                        LET wanted == IF session[b].wanted = None THEN <<"/">> ELSE session[b].wanted
                        IN  /\ page'[b].asked = <<"GET", wanted>>
                            /\ Entitled(b, wanted) => page'[b].status # "unauthorized"
<1>1. Init => SiteInv
  BY SiteInit
<1>2. SiteInv /\ [Next]_vars => SiteInv'
  BY SiteStep
<1>3. SiteInv /\ [Next]_vars => [A]_vars
  <2> SUFFICES ASSUME SiteInv, Next, NEW b \in Browsers, event' = <<"follow", b>>,
                      page[b].asked = <<"POST", Login>>
               PROVE  /\ page'[b].asked = <<"GET", Wanted(session[b].wanted)>>
                      /\ Entitled(b, Wanted(session[b].wanted)) => page'[b].status # "unauthorized"
    BY DEF Wanted
  <2>1. Follow(b)
    BY Events DEF Next
  <2>2. page[b].location = Wanted(session[b].wanted)
    BY <2>1 DEF Follow, Redirected, SiteInv, Belong
  <2>3. /\ page'[b].asked = <<"GET", page[b].location>>
        /\ page'[b].status = "unauthorized" <=> ~Entitled(b, page[b].location)
    BY <2>1, Followed
  <2>4. QED
    BY <2>2, <2>3
<1> HIDE DEF A
<1>4. QED
  BY <1>1, <1>2, <1>3, PTL DEF Spec, LeadsBack, A

\* get_csrf_token: the form that a browser is shown is never refused as forged when it
\* is sent back by a browser that has a csrf cookie, neither by the security context
\* (unauthorized) nor by the login controller (forbidden).
THEOREM FormsAreAccepted ==
    ASSUME AsUsual, RulesAsGiven
    PROVE  Spec => FormsAccepted
<1> DEFINE A == \A b \in Browsers :
                    event' = <<"submit", b>> /\ jar[b].csrf # None =>
                        page'[b].status \notin {"forbidden", "unauthorized"}
<1>1. Init => SiteInv
  BY SiteInit
<1>2. SiteInv /\ [Next]_vars => SiteInv'
  BY SiteStep
<1>3. SiteInv /\ [Next]_vars => [A]_vars
  <2> SUFFICES ASSUME SiteInv, Next, NEW b \in Browsers, event' = <<"submit", b>>,
                      jar[b].csrf # None
               PROVE  page'[b].status \notin {"forbidden", "unauthorized"}
    OBVIOUS
  <2>1. PICK u \in DOMAIN Users, w \in Passwords : Submit(b, u, w)
    BY Events DEF Next
  <2>2. QED
    BY <2>1, Submitted
<1> HIDE DEF A
<1>4. QED
  BY <1>1, <1>2, <1>3, PTL DEF Spec, FormsAccepted, A

\* server::handle_request and the controllers: whoever may see a path is shown the page
\* of the first mount of the first controller that fits the whole of it, and is told that
\* there is none only when nothing fits.
THEOREM PagesAreRight ==
    ASSUME AsUsual, RulesAsGiven, MountsAsGiven
    PROVE  Spec => RightPage
<1> DEFINE A == \A b \in Browsers :
                    LET m == page'[b].asked[1]
                        p == page'[b].asked[2]
                    IN  /\ event' = <<"visit", b>> /\ m \in {"GET", "POST"}
                        /\ Entitled(b, p) /\ p \notin {Login, Logout} /\ <<m, p>> \notin ForService
                        => Served(Candidates[m][p], page'[b].status, page'[b].body)
<1>1. Init => SiteInv
  BY SiteInit
<1>2. SiteInv /\ [Next]_vars => SiteInv'
  BY SiteStep
<1>3. SiteInv /\ [Next]_vars => [A]_vars
  <2> SUFFICES ASSUME SiteInv, Next, NEW b \in Browsers, event' = <<"visit", b>>,
                      page'[b].asked[1] \in {"GET", "POST"}, Entitled(b, page'[b].asked[2]),
                      page'[b].asked[2] \notin {Login, Logout},
                      <<page'[b].asked[1], page'[b].asked[2]>> \notin ForService
               PROVE  Served(Candidates[page'[b].asked[1]][page'[b].asked[2]],
                             page'[b].status, page'[b].body)
    OBVIOUS
  <2>1. PICK m \in Methods, p \in Paths : Visit(b, m, p)
    BY Events DEF Next
  <2>2. PICK rep : rep = HandleRequest(Request(b, m, p, NoFields))
    OBVIOUS
  <2>3. Receive(b, <<m, p>>, rep)
    BY <2>1, <2>2 DEF Visit, Send
  <2>4. page'[b].asked = <<m, p>> /\ page'[b].status = rep.status /\ page'[b].body = rep.body
    BY <2>3, Shown
  <2>5. page'[b].asked[1] = m /\ page'[b].asked[2] = p
    BY <2>4
  <2>6. Served(Candidates[m][p], rep.status, rep.body)
    BY <2>2, <2>5, ServedRight
  <2>7. QED
    BY <2>4, <2>5, <2>6
<1>4. [A]_vars => [\A b \in Browsers :
        LET m == page'[b].asked[1]
            p == page'[b].asked[2]
        IN  /\ event' = <<"visit", b>> /\ m \in {"GET", "POST"}
            /\ Entitled(b, p) /\ p \notin {Login, Logout} /\ <<m, p>> \notin ForService
            => LET fits  == Candidates[m][p]
                   first == CHOOSE x \in fits : \A y \in fits :
                                x[1] < y[1] \/ (x[1] = y[1] /\ x[2] <= y[2])
                   mount == Controllers[first[1]].mounts[first[2]]
               IN  IF fits = {} THEN page'[b].status = "not_found"
                   ELSE /\ page'[b].status # "not_found"
                        /\ mount.does = "page" => page'[b].body = PageOf(mount.page)]_vars
  BY DEF Served, FirstCandidate
<1> HIDE DEF A
<1>5. QED
  BY <1>1, <1>2, <1>3, <1>4, PTL DEF Spec, RightPage
=============================================================================
