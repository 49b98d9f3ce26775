--------------------------- MODULE NodeListProofs ---------------------------
(***************************************************************************)
(* Proofs about NodeList, for every finite memory and every set of         *)
(* elements: first that its lists stay linked, then that it implements     *)
(* NodeSequence.  For the second the chain of cells an element's m_head    *)
(* leads to is the sequence of its children, and every operation edits the *)
(* chain as NodeSequence edits the sequence.                               *)
(***************************************************************************)
EXTENDS NodeList, RecursionTheorems, SequenceTheorems, FiniteSetTheorems,
        WellFoundedInduction

-----------------------------------------------------------------------------
(* Lists *)

\* A function on 1 .. n is a sequence of length n.
LEMMA FunctionIsSeq ==
    ASSUME NEW S, NEW n \in Nat, NEW f \in [1 .. n -> S]
    PROVE  f \in Seq(S) /\ Len(f) = n
<1>1. f \in Seq(S)
  BY SeqDef
<1>2. Len(f) \in Nat /\ DOMAIN f = 1 .. Len(f)
  BY <1>1, LenProperties
<1>3. 1 .. n = 1 .. Len(f)
  BY <1>2
<1>4. QED
  BY <1>1, <1>2, <1>3

\* InsertAt moves what stood from the place on one place further.
LEMMA InsertAtIs ==
    ASSUME NEW S, NEW l \in Seq(S), NEW p \in 1 .. Len(l) + 1, NEW x \in S
    PROVE  InsertAt(l, p, x) = [i \in 1 .. Len(l) + 1 |->
                                  IF i < p THEN l[i] ELSE IF i = p THEN x ELSE l[i - 1]]
<1> DEFINE L == Len(l)
           a == SubSeq(l, 1, p - 1)
           b == SubSeq(l, p, L)
           r == InsertAt(l, p, x)
<1>1. L \in Nat /\ p \in Int /\ p - 1 \in Int /\ L \in Int /\ 1 \in Int /\ p >= 1 /\ p <= L + 1
      /\ \A i \in 1 .. L : l[i] \in S
  BY LenProperties, ElementOfSeq
<1>2. a \in Seq(S) /\ Len(a) = p - 1 /\ \A i \in 1 .. p - 1 : a[i] = l[i]
  <2>1. \A i \in 1 .. p - 1 : l[i] \in S
    BY <1>1
  <2>2. /\ a \in Seq(S) /\ Len(a) = (IF 1 <= p - 1 THEN (p - 1) - 1 + 1 ELSE 0)
        /\ \A i \in 1 .. (p - 1) - 1 + 1 : a[i] = l[1 + i - 1]
    BY <1>1, <2>1, SubSeqProperties
  <2> HIDE DEF a
  <2>3. QED
    BY <2>2, <1>1
<1>3. b \in Seq(S) /\ Len(b) = L - p + 1 /\ \A i \in 1 .. L - p + 1 : b[i] = l[p + i - 1]
  <2>1. \A i \in p .. L : l[i] \in S
    BY <1>1
  <2>2. /\ b \in Seq(S) /\ Len(b) = (IF p <= L THEN L - p + 1 ELSE 0)
        /\ \A i \in 1 .. L - p + 1 : b[i] = l[p + i - 1]
    BY <1>1, <2>1, SubSeqProperties
  <2> HIDE DEF b
  <2>3. QED
    BY <2>2, <1>1
<1>4. <<x>> \in Seq(S) /\ Len(<<x>>) = 1 /\ <<x>>[1] = x
  OBVIOUS
<1>5. r = a \o <<x>> \o b
  BY DEF InsertAt
<1> DEFINE c == a \o <<x>>
<1> HIDE DEF a, b, r
<1>6. c \in Seq(S) /\ Len(c) = p /\ \A i \in 1 .. p : c[i] = IF i < p THEN l[i] ELSE x
  <2>1. /\ c \in Seq(S) /\ Len(c) = Len(a) + 1
        /\ \A i \in 1 .. Len(a) + 1 : c[i] = IF i <= Len(a) THEN a[i] ELSE <<x>>[i - Len(a)]
    <3> DEFINE d == <<x>>
    <3>1. d \in Seq(S) /\ Len(d) = 1
      BY <1>4
    <3> HIDE DEF d
    <3>2. /\ a \o d \in Seq(S) /\ Len(a \o d) = Len(a) + Len(d)
          /\ \A i \in 1 .. Len(a) + Len(d) : (a \o d)[i] = IF i <= Len(a) THEN a[i] ELSE d[i - Len(a)]
      BY <3>1, <1>2, ConcatProperties
    <3>3. QED
      BY <3>1, <3>2 DEF d
  <2> HIDE DEF c
  <2>2. Len(c) = p
    BY <2>1, <1>1, <1>2
  <2>3. ASSUME NEW i \in 1 .. p PROVE c[i] = IF i < p THEN l[i] ELSE x
    <3>1. CASE i < p
      <4>1. i \in 1 .. p - 1 /\ i \in 1 .. Len(a) + 1 /\ i <= Len(a)
        BY <3>1, <1>1, <1>2
      <4>2. QED
        BY <4>1, <3>1, <2>1, <1>2
    <3>2. CASE i = p
      <4>1. i \in 1 .. Len(a) + 1 /\ ~(i <= Len(a)) /\ i - Len(a) = 1
        BY <3>2, <1>1, <1>2
      <4>2. c[i] = <<x>>[1]
        BY <4>1, <2>1
      <4>3. QED
        BY <4>2, <3>2, <1>1
    <3>3. QED
      BY <3>1, <3>2, <1>1
  <2>4. QED
    BY <2>1, <2>2, <2>3
<1> HIDE DEF c
<1>7. /\ r \in Seq(S) /\ Len(r) = Len(c) + Len(b)
      /\ \A i \in 1 .. Len(c) + Len(b) : r[i] = IF i <= Len(c) THEN c[i] ELSE b[i - Len(c)]
  <2>1. r = c \o b
    BY <1>5 DEF c
  <2>2. QED
    BY <2>1, <1>3, <1>6, ConcatProperties
<1>8. Len(r) = L + 1
  BY <1>1, <1>3, <1>6, <1>7
<1>9. ASSUME NEW i \in 1 .. L + 1
      PROVE  r[i] = IF i < p THEN l[i] ELSE IF i = p THEN x ELSE l[i - 1]
  <2>0. i \in 1 .. Len(c) + Len(b)
    BY <1>1, <1>3, <1>6
  <2>1. CASE i <= p
    <3>1. i \in 1 .. p /\ i <= Len(c)
      BY <2>1, <1>1, <1>6
    <3>2. QED
      BY <3>1, <2>0, <2>1, <1>1, <1>6, <1>7
  <2>2. CASE i > p
    <3>1. ~(i <= Len(c)) /\ i - Len(c) \in 1 .. L - p + 1 /\ p + (i - Len(c)) - 1 = i - 1
      BY <2>2, <1>1, <1>6
    <3>2. r[i] = b[i - Len(c)]
      BY <3>1, <2>0, <1>7
    <3>3. b[i - Len(c)] = l[p + (i - Len(c)) - 1]
      BY <3>1, <1>3
    <3>4. QED
      BY <3>1, <3>2, <3>3, <2>2, <1>1
  <2>3. QED
    BY <2>1, <2>2, <1>1
<1>10. r = [i \in 1 .. Len(r) |-> r[i]]
  BY <1>7, LenProperties
<1>11. QED
  BY <1>8, <1>9, <1>10 DEF r

\* RemoveAt moves what stood after the place one place back.
LEMMA RemoveAtIs ==
    ASSUME NEW S, NEW l \in Seq(S), NEW p \in 1 .. Len(l)
    PROVE  RemoveAt(l, p) = [i \in 1 .. Len(l) - 1 |-> IF i < p THEN l[i] ELSE l[i + 1]]
<1> DEFINE L == Len(l)
           a == SubSeq(l, 1, p - 1)
           b == SubSeq(l, p + 1, L)
           r == RemoveAt(l, p)
<1>1. L \in Nat /\ p \in Int /\ p - 1 \in Int /\ p + 1 \in Int /\ L \in Int /\ 1 \in Int
      /\ p >= 1 /\ p <= L /\ \A i \in 1 .. L : l[i] \in S
  BY LenProperties, ElementOfSeq
<1>2. a \in Seq(S) /\ Len(a) = p - 1 /\ \A i \in 1 .. p - 1 : a[i] = l[i]
  <2>1. \A i \in 1 .. p - 1 : l[i] \in S
    BY <1>1
  <2>2. /\ a \in Seq(S) /\ Len(a) = (IF 1 <= p - 1 THEN (p - 1) - 1 + 1 ELSE 0)
        /\ \A i \in 1 .. (p - 1) - 1 + 1 : a[i] = l[1 + i - 1]
    BY <1>1, <2>1, SubSeqProperties
  <2> HIDE DEF a
  <2>3. QED
    BY <2>2, <1>1
<1>3. b \in Seq(S) /\ Len(b) = L - p /\ \A i \in 1 .. L - p : b[i] = l[p + i]
  <2>1. \A i \in p + 1 .. L : l[i] \in S
    BY <1>1
  <2>2. /\ b \in Seq(S) /\ Len(b) = (IF p + 1 <= L THEN L - (p + 1) + 1 ELSE 0)
        /\ \A i \in 1 .. L - (p + 1) + 1 : b[i] = l[(p + 1) + i - 1]
    BY <1>1, <2>1, SubSeqProperties
  <2> HIDE DEF b
  <2>3. QED
    BY <2>2, <1>1
<1>4. r = a \o b
  BY DEF RemoveAt
<1> HIDE DEF a, b, r
<1>5. /\ r \in Seq(S) /\ Len(r) = Len(a) + Len(b)
      /\ \A i \in 1 .. Len(a) + Len(b) : r[i] = IF i <= Len(a) THEN a[i] ELSE b[i - Len(a)]
  BY <1>2, <1>3, <1>4, ConcatProperties
<1>6. Len(r) = L - 1
  BY <1>1, <1>2, <1>3, <1>5
<1>7. ASSUME NEW i \in 1 .. L - 1 PROVE r[i] = IF i < p THEN l[i] ELSE l[i + 1]
  <2>0. i \in 1 .. Len(a) + Len(b)
    BY <1>1, <1>2, <1>3
  <2>1. CASE i < p
    <3>1. i \in 1 .. p - 1 /\ i <= Len(a)
      BY <2>1, <1>1, <1>2
    <3>2. QED
      BY <3>1, <2>0, <2>1, <1>2, <1>5
  <2>2. CASE i >= p
    <3>1. ~(i <= Len(a)) /\ i - Len(a) \in 1 .. L - p /\ p + (i - Len(a)) = i + 1 /\ ~(i < p)
      BY <2>2, <1>1, <1>2
    <3>2. r[i] = b[i - Len(a)]
      BY <3>1, <2>0, <1>5
    <3>3. b[i - Len(a)] = l[p + (i - Len(a))]
      BY <3>1, <1>3
    <3>4. QED
      BY <3>1, <3>2, <3>3
  <2>3. QED
    BY <2>1, <2>2, <1>1
<1>8. r = [i \in 1 .. Len(r) |-> r[i]]
  BY <1>5, LenProperties
<1>9. QED
  BY <1>6, <1>7, <1>8 DEF r

\* A list of distinct cells has no more of them than there are.
LEMMA ListFits ==
    ASSUME NEW l \in Seq(Nodes), \A i, j \in 1 .. Len(l) : l[i] = l[j] => i = j
    PROVE  N \in Nat /\ Len(l) <= N
<1>1. IsFiniteSet(Nodes) /\ N = Cardinality(Nodes)
  BY CellsAreFinite DEF N
<1>2. l \in [1 .. Len(l) -> Nodes] /\ Len(l) \in Nat
  BY LenProperties
<1>3. l \in Injection(1 .. Len(l), Nodes)
  BY <1>2 DEF Injection, IsInjective
<1>4. Cardinality(1 .. Len(l)) <= Cardinality(Nodes)
  BY <1>1, <1>3, FS_Injection
<1>5. Cardinality(1 .. Len(l)) = Len(l)
  <2> DEFINE n == Len(l)
  <2>1. n \in Nat /\ n \in Int /\ 1 \in Int
    BY <1>2
  <2> HIDE DEF n
  <2>2. Cardinality(1 .. n) = IF 1 > n THEN 0 ELSE n - 1 + 1
    BY <2>1, FS_Interval
  <2>3. QED
    BY <2>1, <2>2 DEF n
<1>6. N \in Nat
  BY <1>1, FS_CardinalityType
<1>7. QED
  BY <1>1, <1>4, <1>5, <1>6

\* No cell is shown by a null pointer.
LEMMA CellsType == N \in Nat /\ NIL \notin Nodes /\ NIL \notin Elements
BY CellsAreFinite, FS_CardinalityType DEF N

\* The cells of l are linked by m_next, and it ends at the last of them.
Linked(h, l) ==
    /\ l \in Seq(Nodes)
    /\ \A i, j \in 1 .. Len(l) : l[i] = l[j] => i = j
    /\ \A i \in 1 .. Len(l) : h.next[l[i]] = IF i = Len(l) THEN NIL ELSE l[i + 1]

\* One turn of the walk along m_next.
WalkOn(h, s) ==
    LET m == h.next[Last(s)]
    IN  IF m = NIL THEN s ELSE Append(s, m)

\* f is a function with these arguments.
OnTurns(f) == f = [k \in 0 .. N |-> f[k]]

\* The walk is known as soon as some function takes its steps.
LEMMA ChainIsWalk ==
    ASSUME NEW h, NEW n, n # NIL, N >= 1, NEW f, OnTurns(f),
           f[0] = <<n>>, \A k \in 1 .. N : f[k] = WalkOn(h, f[k - 1])
    PROVE  Chain(h, n) = f[N - 1]
<1> DEFINE body(w) == [k \in 0 .. N |-> IF k = 0 THEN << n >>
                                        ELSE LET s == w[k - 1]
                                                 m == h.next[Last(s)]
                                             IN  IF m = NIL THEN s ELSE Append(s, m)]
           walk == CHOOSE w : w = body(w)
<1>1. Chain(h, n) = walk[N - 1]
  BY DEF Chain
<1>2. f = body(f)
  <2>1. ASSUME NEW k \in 0 .. N PROVE f[k] = body(f)[k]
    <3>1. CASE k = 0
      BY <3>1
    <3>2. CASE k # 0
      <4>1. k \in 1 .. N
        BY <3>2, CellsType
      <4>2. f[k] = WalkOn(h, f[k - 1])
        BY <4>1
      <4>3. body(f)[k] = WalkOn(h, f[k - 1])
        BY <3>2 DEF WalkOn
      <4>4. QED
        BY <4>2, <4>3
    <3>3. QED
      BY <3>1, <3>2
  <2> HIDE DEF body
  <2>2. body(f) = [k \in 0 .. N |-> body(f)[k]]
    BY DEF body
  <2>3. QED
    BY <2>1, <2>2 DEF OnTurns
<1> HIDE DEF body
<1>3. walk = body(walk)
  BY <1>2
<1> HIDE DEF walk
<1>4. walk[0] = <<n>> /\ \A k \in 1 .. N : walk[k] = WalkOn(h, walk[k - 1])
  <2>1. \A k \in 0 .. N : body(walk)[k] = IF k = 0 THEN <<n>> ELSE WalkOn(h, walk[k - 1])
    BY DEF body, WalkOn
  <2>2. QED
    BY <1>3, <2>1, CellsType
<1> DEFINE S == [k \in 0 .. N |-> {f[k]}]
<1>5. walk[0] \in S[0]
  BY <1>4, CellsType
<1>6. \A k \in 1 .. N : walk[k - 1] \in S[k - 1] => walk[k] \in S[k]
  <2> SUFFICES ASSUME NEW k \in 1 .. N, walk[k - 1] \in S[k - 1] PROVE walk[k] \in S[k]
    OBVIOUS
  <2>1. k \in 0 .. N /\ k - 1 \in 0 .. N
    BY CellsType
  <2>2. walk[k - 1] = f[k - 1]
    BY <2>1
  <2>3. walk[k] = f[k]
    BY <1>4, <2>2
  <2>4. QED
    BY <2>1, <2>3
<1>7. walk[N - 1] \in S[N - 1]
  <2>1. N - 1 \in 0 .. N
    BY CellsType
  <2> HIDE DEF S
  <2>2. \A k \in 0 .. N : walk[k] \in S[k]
    BY <1>5, <1>6, CellsType, UpTo
  <2>3. QED
    BY <2>1, <2>2
<1>8. S[N - 1] = {f[N - 1]}
  BY CellsType
<1>9. QED
  BY <1>1, <1>7, <1>8

\* A null pointer is the end of a list.
LEMMA ChainOfNothing ==
    ASSUME NEW h
    PROVE  Chain(h, NIL) = <<>>
BY DEF Chain

\* Following m_next from the first cell gives the list.
LEMMA ChainIsList ==
    ASSUME NEW h, NEW l, Linked(h, l), l # <<>>
    PROVE  Chain(h, l[1]) = l
<1> DEFINE L == Len(l)
           upto(k) == IF k + 1 <= L THEN k + 1 ELSE L
           prefix(k) == [i \in 1 .. upto(k) |-> l[i]]
           f == [k \in 0 .. N |-> prefix(k)]
<1>1. /\ l \in Seq(Nodes) /\ L \in Nat /\ L >= 1 /\ L <= N
      /\ \A i \in 1 .. L : l[i] \in Nodes /\ l[i] # NIL
      /\ \A i \in 1 .. L : h.next[l[i]] = IF i = L THEN NIL ELSE l[i + 1]
  <2>1. l \in Seq(Nodes) /\ L \in Nat /\ L >= 1
    BY EmptySeq DEF Linked
  <2>2. QED
    BY <2>1, ListFits, CellsType, ElementOfSeq DEF Linked
<1>2. ASSUME NEW k \in 0 .. N
      PROVE  /\ upto(k) \in 1 .. L /\ prefix(k) \in Seq(Nodes) /\ Len(prefix(k)) = upto(k)
             /\ \A i \in 1 .. upto(k) : prefix(k)[i] = l[i]
  <2>1. upto(k) \in 1 .. L /\ upto(k) \in Nat
    BY <1>1, CellsType
  <2> HIDE DEF L, upto
  <2>2. prefix(k) \in [1 .. upto(k) -> Nodes]
    BY <1>1, <2>1
  <2>3. QED
    BY <2>1, <2>2, FunctionIsSeq
<1> HIDE DEF prefix
<1>3. ASSUME NEW k \in 1 .. N
      PROVE  WalkOn(h, prefix(k - 1)) = prefix(k)
  <2> DEFINE s == prefix(k - 1)
  <2>1. k - 1 \in 0 .. N /\ k \in 0 .. N
    BY CellsType
  <2>2. s \in Seq(Nodes) /\ Len(s) = upto(k - 1) /\ \A i \in 1 .. upto(k - 1) : s[i] = l[i]
    BY <1>2, <2>1
  <2>3. prefix(k) \in Seq(Nodes) /\ Len(prefix(k)) = upto(k)
        /\ \A i \in 1 .. upto(k) : prefix(k)[i] = l[i]
    BY <1>2, <2>1
  <2> HIDE DEF s, L
  <2>4. CASE k + 1 <= L
    <3>1. Len(s) = k /\ (\A i \in 1 .. k : s[i] = l[i])
          /\ Len(prefix(k)) = k + 1 /\ (\A i \in 1 .. k + 1 : prefix(k)[i] = l[i])
      BY <2>2, <2>3, <2>4, <1>1
    <3>2. WalkOn(h, s) = Append(s, l[k + 1])
      <4>1. Last(s) = l[k]
        BY <3>1, <2>1 DEF Last
      <4>2. h.next[l[k]] = l[k + 1] /\ l[k + 1] # NIL
        <5>1. k \in 1 .. L /\ k # L /\ k + 1 \in 1 .. L
          BY <2>4, <1>1
        <5>2. QED
          BY <5>1, <1>1
      <4>3. QED
        BY <4>1, <4>2 DEF WalkOn
    <3>3. Append(s, l[k + 1]) = prefix(k)
      <4>1. l[k + 1] \in Nodes /\ k \in Nat
        BY <1>1, <2>4
      <4>2. Append(s, l[k + 1]) \in Seq(Nodes) /\ Len(Append(s, l[k + 1])) = k + 1
            /\ \A i \in 1 .. k + 1 : Append(s, l[k + 1])[i] = l[i]
        BY <4>1, <3>1, <2>2
      <4>3. QED
        BY <4>2, <3>1, <2>3, SeqEqual
    <3>4. QED
      BY <3>2, <3>3 DEF s
  <2>5. CASE k + 1 > L
    <3>1. upto(k - 1) = L /\ upto(k) = L
      BY <2>5, <1>1
    <3>2. s = prefix(k)
      BY <3>1, <2>2, <2>3, SeqEqual
    <3>3. Last(s) = l[L]
      BY <3>1, <2>2, <1>1 DEF Last
    <3>4. h.next[l[L]] = NIL
      BY <1>1
    <3>5. QED
      BY <3>2, <3>3, <3>4 DEF WalkOn, s
  <2>6. QED
    BY <2>4, <2>5, <1>1
<1>4. OnTurns(f) /\ (\A k \in 0 .. N : f[k] = prefix(k))
  BY DEF OnTurns
<1>5. f[0] = <<l[1]>>
  <2>1. 0 \in 0 .. N /\ upto(0) = 1
    BY CellsType, <1>1
  <2> HIDE DEF upto, L
  <2>2. prefix(0) \in Seq(Nodes) /\ Len(prefix(0)) = 1 /\ \A i \in 1 .. 1 : prefix(0)[i] = l[i]
    BY <1>2, <2>1
  <2>3. <<l[1]>> \in Seq(Nodes) /\ Len(<<l[1]>>) = 1 /\ \A i \in 1 .. 1 : <<l[1]>>[i] = l[i]
    BY <1>1
  <2>4. QED
    BY <1>4, <2>1, <2>2, <2>3, SeqEqual
<1>6. \A k \in 1 .. N : f[k] = WalkOn(h, f[k - 1])
  <2> SUFFICES ASSUME NEW k \in 1 .. N PROVE f[k] = WalkOn(h, f[k - 1])
    OBVIOUS
  <2>1. k \in 0 .. N /\ k - 1 \in 0 .. N
    BY CellsType
  <2>2. QED
    BY <1>3, <1>4, <2>1
<1>7. f[N - 1] = l
  <2>1. N - 1 \in 0 .. N /\ upto(N - 1) = L
    BY CellsType, <1>1
  <2> HIDE DEF upto, L
  <2> DEFINE m == N - 1
  <2> HIDE DEF m
  <2>2. prefix(m) \in Seq(Nodes) /\ Len(prefix(m)) = upto(m)
        /\ \A i \in 1 .. upto(m) : prefix(m)[i] = l[i]
    <3>1. m \in 0 .. N
      BY <2>1 DEF m
    <3>2. QED
      BY <3>1, <1>2
  <2>3. upto(m) = L
    BY <2>1 DEF m
  <2>4. prefix(m) \in Seq(Nodes) /\ Len(prefix(m)) = L /\ \A i \in 1 .. L : prefix(m)[i] = l[i]
    BY <2>2, <2>3
  <2>5. prefix(m) = l
    BY <1>1, <2>4, SeqEqual DEF L
  <2>6. QED
    BY <1>4, <2>1, <2>5 DEF m
<1> HIDE DEF f
<1>8. l[1] # NIL /\ N >= 1
  BY <1>1, CellsType
<1>9. QED
  BY <1>4, <1>5, <1>6, <1>7, <1>8, ChainIsWalk

\* From a cell of a list on, it gives the rest of the list.
LEMMA ChainFrom ==
    ASSUME NEW h, NEW l, Linked(h, l), NEW i \in 1 .. Len(l)
    PROVE  /\ Chain(h, l[i]) \in Seq(Nodes)
           /\ Len(Chain(h, l[i])) = Len(l) - i + 1
           /\ \A j \in 1 .. Len(l) - i + 1 : Chain(h, l[i])[j] = l[i + j - 1]
<1> DEFINE L == Len(l)
           M == L - i + 1
           r == [j \in 1 .. M |-> l[i + j - 1]]
<1>1. /\ l \in Seq(Nodes) /\ L \in Nat /\ i \in Nat /\ i >= 1 /\ i <= L
      /\ \A j \in 1 .. L : l[j] \in Nodes
      /\ \A j, k \in 1 .. L : l[j] = l[k] => j = k
      /\ \A j \in 1 .. L : h.next[l[j]] = IF j = L THEN NIL ELSE l[j + 1]
  BY ElementOfSeq DEF Linked
<1> HIDE DEF L
<1>2. M \in Nat /\ M >= 1 /\ \A j \in 1 .. M : i + j - 1 \in 1 .. L
  BY <1>1
<1> HIDE DEF M
<1>3. r \in [1 .. M -> Nodes] /\ \A j \in 1 .. M : r[j] = l[i + j - 1]
  BY <1>1, <1>2
<1> HIDE DEF r
<1>4. r \in Seq(Nodes) /\ Len(r) = M
  BY <1>2, <1>3, FunctionIsSeq
<1>5. \A j, k \in 1 .. M : r[j] = r[k] => j = k
  <2> SUFFICES ASSUME NEW j \in 1 .. M, NEW k \in 1 .. M, r[j] = r[k] PROVE j = k
    OBVIOUS
  <2>0. i + j - 1 \in 1 .. L /\ i + k - 1 \in 1 .. L /\ l[i + j - 1] = l[i + k - 1]
    BY <1>2, <1>3
  <2>1. i + j - 1 = i + k - 1
    BY <2>0, <1>1
  <2>2. QED
    BY <2>1, <1>1, <1>2
<1>6. \A j \in 1 .. M : h.next[r[j]] = IF j = M THEN NIL ELSE r[j + 1]
  <2> SUFFICES ASSUME NEW j \in 1 .. M PROVE h.next[r[j]] = IF j = M THEN NIL ELSE r[j + 1]
    OBVIOUS
  <2>1. i + j - 1 \in 1 .. L /\ (j = M <=> i + j - 1 = L)
    BY <1>1, <1>2 DEF M
  <2>2. h.next[r[j]] = IF i + j - 1 = L THEN NIL ELSE l[(i + j - 1) + 1]
    BY <2>1, <1>1, <1>3
  <2>3. j # M => j + 1 \in 1 .. M /\ i + (j + 1) - 1 = (i + j - 1) + 1
    BY <1>1, <1>2
  <2>4. j # M => r[j + 1] = l[(i + j - 1) + 1]
    BY <2>3, <1>3
  <2>5. QED
    BY <2>1, <2>2, <2>4
<1>7. Linked(h, r)
  BY <1>4, <1>5, <1>6 DEF Linked
<1>8. r # <<>> /\ r[1] = l[i]
  <2>1. r # <<>>
    BY <1>2, <1>4, EmptySeq
  <2>2. 1 \in 1 .. M /\ i + 1 - 1 = i
    BY <1>1, <1>2
  <2>3. QED
    BY <2>1, <2>2, <1>3
<1>9. Chain(h, l[i]) = r
  BY <1>7, <1>8, ChainIsList
<1>10. QED
  BY <1>3, <1>4, <1>9 DEF L, M

-----------------------------------------------------------------------------
(* Well-formed heaps *)

Pointer == Nodes \cup {NIL}
Owner == Elements \cup {NIL}
Cells == [kind : Kinds \cup {"free"}, text : Seq(STRING)]

Heaps == [head : [Elements -> Pointer], tail : [Elements -> Pointer],
          next : [Nodes -> Pointer], prev : [Nodes -> Pointer],
          parent : [Nodes -> Owner], what : [Nodes -> Cells]]

\* The children of e are the cells of l, in that order, and no others.
IsList(h, e, l) ==
    /\ Linked(h, l)
    /\ h.head[e] = IF Len(l) = 0 THEN NIL ELSE l[1]
    /\ h.tail[e] = IF Len(l) = 0 THEN NIL ELSE l[Len(l)]
    /\ \A i \in 1 .. Len(l) : /\ h.prev[l[i]] = IF i = 1 THEN NIL ELSE l[i - 1]
                              /\ h.parent[l[i]] = e
    /\ \A n \in Nodes : h.parent[n] = e => \E i \in 1 .. Len(l) : l[i] = n

\* A cell is free, with null pointers, or the child of an element.
CellOK(h, n) ==
    IF h.what[n].kind = "free"
    THEN h.next[n] = NIL /\ h.prev[n] = NIL /\ h.parent[n] = NIL
    ELSE h.parent[n] # NIL

Good(h) ==
    /\ h \in Heaps
    /\ \A e \in Elements : \E l : IsList(h, e, l)
    /\ \A n \in Nodes : CellOK(h, n)

\* Writing the cells of other lists leaves a list as it is.
LEMMA OtherList ==
    ASSUME NEW g, NEW h, NEW e \in Elements, NEW l, IsList(g, e, l),
           h.head[e] = g.head[e], h.tail[e] = g.tail[e],
           \A n \in Nodes : h.parent[n] = e => g.parent[n] = e,
           \A n \in Nodes : g.parent[n] = e =>
                h.parent[n] = e /\ h.next[n] = g.next[n] /\ h.prev[n] = g.prev[n]
    PROVE  IsList(h, e, l)
<1>1. l \in Seq(Nodes) /\ \A i \in 1 .. Len(l) : l[i] \in Nodes /\ g.parent[l[i]] = e
  BY ElementOfSeq DEF IsList, Linked
<1>2. Linked(h, l)
  BY <1>1 DEF IsList, Linked
<1>3. QED
  BY <1>1, <1>2 DEF IsList

\* The lists of the elements not in D are the same in g and h.
SameElse(g, h, D) == \A x \in Elements \ D : \A k : IsList(g, x, k) => IsList(h, x, k)

-----------------------------------------------------------------------------
(* Inserting a cell *)

\* The cells before and after place p of a list that n is put in at p.
BeforePlace(l, p) == IF p = 1 THEN NIL ELSE l[p - 1]
AfterPlace(l, p) == IF p = Len(l) + 1 THEN NIL ELSE l[p]

\* h is g with the cell n, which now holds w, at place p of the list l of e.
Inserted(g, h, e, l, p, n, w) ==
    /\ \A m \in Nodes :
        /\ h.next[m] = IF m = n THEN AfterPlace(l, p)
                       ELSE IF m = BeforePlace(l, p) THEN n ELSE g.next[m]
        /\ h.prev[m] = IF m = n THEN BeforePlace(l, p)
                       ELSE IF m = AfterPlace(l, p) THEN n ELSE g.prev[m]
        /\ h.parent[m] = IF m = n THEN e ELSE g.parent[m]
        /\ h.what[m] = IF m = n THEN w ELSE g.what[m]
    /\ \A d \in Elements :
        /\ h.head[d] = IF d = e /\ p = 1 THEN n ELSE g.head[d]
        /\ h.tail[d] = IF d = e /\ p = Len(l) + 1 THEN n ELSE g.tail[d]

\* Pointers set as insert_impl sets them make a list again.
LEMMA InsertedList ==
    ASSUME NEW g, NEW h, NEW e \in Elements, NEW l, IsList(g, e, l),
           NEW p \in 1 .. Len(l) + 1, NEW n \in Nodes, g.parent[n] # e, NEW w,
           Inserted(g, h, e, l, p, n, w)
    PROVE  IsList(h, e, InsertAt(l, p, n))
<1> DEFINE L == Len(l)
           r == [i \in 1 .. L + 1 |-> IF i < p THEN l[i] ELSE IF i = p THEN n ELSE l[i - 1]]
<1>1. /\ L \in Nat /\ p \in Nat /\ p >= 1 /\ p <= L + 1
      /\ \A i \in 1 .. L : l[i] \in Nodes /\ l[i] # n /\ l[i] # NIL
      /\ \A i, j \in 1 .. L : l[i] = l[j] => i = j
      /\ \A i \in 1 .. L : g.next[l[i]] = IF i = L THEN NIL ELSE l[i + 1]
      /\ \A i \in 1 .. L : g.prev[l[i]] = IF i = 1 THEN NIL ELSE l[i - 1]
      /\ \A i \in 1 .. L : g.parent[l[i]] = e
  BY ElementOfSeq, CellsType DEF IsList, Linked
<1>2. /\ g.head[e] = IF L = 0 THEN NIL ELSE l[1]
      /\ g.tail[e] = IF L = 0 THEN NIL ELSE l[L]
      /\ \A m \in Nodes : g.parent[m] = e => \E i \in 1 .. L : l[i] = m
  BY DEF IsList
<1>3. /\ \A m \in Nodes :
          /\ h.next[m] = IF m = n THEN (IF p = L + 1 THEN NIL ELSE l[p])
                         ELSE IF p # 1 /\ m = l[p - 1] THEN n ELSE g.next[m]
          /\ h.prev[m] = IF m = n THEN (IF p = 1 THEN NIL ELSE l[p - 1])
                         ELSE IF p # L + 1 /\ m = l[p] THEN n ELSE g.prev[m]
          /\ h.parent[m] = IF m = n THEN e ELSE g.parent[m]
      /\ h.head[e] = IF p = 1 THEN n ELSE g.head[e]
      /\ h.tail[e] = IF p = L + 1 THEN n ELSE g.tail[e]
  BY CellsType DEF Inserted, BeforePlace, AfterPlace
<1> HIDE DEF L
<1>4. r \in [1 .. L + 1 -> Nodes]
  BY <1>1
<1>5. /\ \A i \in 1 .. p - 1 : r[i] = l[i] /\ i \in 1 .. L
      /\ r[p] = n
      /\ \A i \in p + 1 .. L + 1 : r[i] = l[i - 1] /\ i - 1 \in 1 .. L
  BY <1>1
<1> HIDE DEF r
<1>6. L + 1 \in Nat /\ r \in Seq(Nodes) /\ Len(r) = L + 1
  BY <1>1, <1>4, FunctionIsSeq
<1>7. ASSUME NEW i \in 1 .. L + 1 PROVE i \in 1 .. p - 1 \/ i = p \/ i \in p + 1 .. L + 1
  BY <1>1
<1>8. \A i, j \in 1 .. L + 1 : r[i] = r[j] => i = j
  <2> SUFFICES ASSUME NEW i \in 1 .. L + 1, NEW j \in 1 .. L + 1, r[i] = r[j], i < j
               PROVE  FALSE
    OBVIOUS
  <2>1. CASE i \in 1 .. p - 1
    BY <2>1, <1>1, <1>5, <1>7
  <2>2. CASE i = p
    <3>1. j \in p + 1 .. L + 1
      BY <2>2, <1>1
    <3>2. r[i] = n /\ r[j] = l[j - 1] /\ j - 1 \in 1 .. L
      BY <2>2, <3>1, <1>5
    <3>3. QED
      BY <3>2, <1>1
  <2>3. CASE i \in p + 1 .. L + 1
    BY <2>3, <1>1, <1>5, <1>7
  <2>4. QED
    BY <2>1, <2>2, <2>3, <1>7
<1>9. ASSUME NEW i \in 1 .. L + 1
      PROVE  /\ h.next[r[i]] = IF i = L + 1 THEN NIL ELSE r[i + 1]
             /\ h.prev[r[i]] = IF i = 1 THEN NIL ELSE r[i - 1]
             /\ h.parent[r[i]] = e
  <2>1. CASE i \in 1 .. p - 1
    <3>0. r[i] = l[i] /\ i \in 1 .. L
      BY <2>1, <1>5
    <3>p. p # L + 1 => p \in 1 .. L /\ i # p
      BY <2>1, <1>1
    <3>1. /\ r[i] = l[i] /\ i \in 1 .. L /\ l[i] \in Nodes /\ l[i] # n
          /\ p # L + 1 => l[i] # l[p]
      BY <3>0, <3>p, <1>1
    <3>2. h.prev[r[i]] = IF i = 1 THEN NIL ELSE r[i - 1]
      <4>1. h.prev[r[i]] = IF i = 1 THEN NIL ELSE l[i - 1]
        BY <3>1, <1>1, <1>3
      <4>2. i # 1 => r[i - 1] = l[i - 1]
        <5>1. i # 1 => i - 1 \in 1 .. p - 1
          BY <2>1, <1>1
        <5>2. QED
          BY <5>1, <1>5
      <4>3. QED
        BY <4>1, <4>2
    <3>3. h.next[r[i]] = r[i + 1] /\ i # L + 1
      <4>1. CASE i = p - 1
        BY <4>1, <2>1, <3>1, <1>1, <1>3, <1>5
      <4>2. CASE i # p - 1
        <5>1. i + 1 \in 1 .. p - 1 /\ i # L /\ i # L + 1 /\ p - 1 \in 1 .. L /\ p # 1
          BY <4>2, <2>1, <1>1
        <5>2. l[i] # l[p - 1]
          BY <5>1, <4>2, <3>1, <1>1
        <5>3. h.next[l[i]] = g.next[l[i]]
          BY <5>1, <5>2, <3>1, <1>3
        <5>4. g.next[l[i]] = l[i + 1] /\ r[i + 1] = l[i + 1]
          BY <5>1, <3>1, <1>1, <1>5
        <5>5. QED
          BY <5>1, <5>3, <5>4, <3>1
      <4>3. QED
        BY <4>1, <4>2
    <3>4. QED
      BY <3>1, <3>2, <3>3, <1>1, <1>3
  <2>2. CASE i = p
    BY <2>2, <1>1, <1>3, <1>5
  <2>3. CASE i \in p + 1 .. L + 1
    <3> DEFINE k == i - 1
    <3>1. /\ r[i] = l[k] /\ k \in 1 .. L /\ k >= p /\ k + 1 = i /\ i # 1 /\ p # L + 1
          /\ l[k] \in Nodes /\ l[k] # n
      BY <2>3, <1>1, <1>5
    <3> HIDE DEF k
    <3>2. h.next[r[i]] = IF i = L + 1 THEN NIL ELSE r[i + 1]
      <4>1. p # 1 => l[k] # l[p - 1]
        BY <3>1, <1>1
      <4>2. h.next[r[i]] = IF k = L THEN NIL ELSE l[k + 1]
        BY <4>1, <3>1, <1>1, <1>3
      <4>3. i # L + 1 => r[i + 1] = l[k + 1]
        <5>1. i # L + 1 => i + 1 \in p + 1 .. L + 1 /\ (i + 1) - 1 = k + 1
          BY <3>1, <2>3, <1>1
        <5>2. QED
          BY <5>1, <1>5
      <4>4. i = L + 1 <=> k = L
        BY <3>1, <1>1
      <4>5. QED
        BY <4>2, <4>3, <4>4
    <3>3. h.prev[r[i]] = r[i - 1]
      <4>1. CASE k = p
        BY <4>1, <3>1, <1>1, <1>3, <1>5
      <4>2. CASE k # p
        <5>1. l[k] # l[p] /\ k # 1 /\ k \in p + 1 .. L + 1 /\ i - 1 = k
          BY <4>2, <3>1, <1>1
        <5>2. h.prev[l[k]] = l[k - 1]
          BY <5>1, <3>1, <1>1, <1>3
        <5>3. r[k] = l[k - 1]
          BY <5>1, <1>5
        <5>4. QED
          BY <5>1, <5>2, <5>3, <3>1
      <4>3. QED
        BY <4>1, <4>2
    <3>4. QED
      BY <3>1, <3>2, <3>3, <1>1, <1>3
  <2>4. QED
    BY <2>1, <2>2, <2>3, <1>7
<1>10. h.head[e] = r[1] /\ h.tail[e] = r[L + 1]
  <2>1. h.head[e] = r[1]
    BY <1>1, <1>2, <1>3, <1>5
  <2>2. CASE p = L + 1
    BY <2>1, <2>2, <1>1, <1>3, <1>5
  <2>3. CASE p # L + 1
    <3>1. L + 1 \in p + 1 .. L + 1 /\ (L + 1) - 1 = L /\ L # 0
      BY <2>3, <1>1
    <3>2. r[L + 1] = l[L]
      BY <3>1, <1>5
    <3>3. QED
      BY <2>1, <2>3, <3>1, <3>2, <1>2, <1>3
  <2>4. QED
    BY <2>2, <2>3
<1>11. ASSUME NEW m \in Nodes, h.parent[m] = e PROVE \E i \in 1 .. L + 1 : r[i] = m
  <2>1. CASE m = n
    BY <2>1, <1>1, <1>5
  <2>2. CASE m # n
    <3>1. PICK i \in 1 .. L : l[i] = m
      BY <2>2, <1>2, <1>3, <1>11
    <3>2. CASE i < p
      <4>1. i \in 1 .. p - 1 /\ i \in 1 .. L + 1
        BY <3>2, <1>1
      <4>2. QED
        BY <3>1, <4>1, <1>5
    <3>3. CASE i >= p
      <4>1. i + 1 \in p + 1 .. L + 1 /\ (i + 1) - 1 = i /\ i + 1 \in 1 .. L + 1
        BY <3>3, <1>1
      <4>2. QED
        BY <3>1, <4>1, <1>5
    <3>4. QED
      BY <3>2, <3>3, <1>1
  <2>3. QED
    BY <2>1, <2>2
<1>12. Linked(h, r)
  BY <1>6, <1>8, <1>9 DEF Linked
<1>13. IsList(h, e, r)
  BY <1>1, <1>6, <1>9, <1>10, <1>11, <1>12 DEF IsList
<1>14. r = InsertAt(l, p, n)
  BY InsertAtIs DEF r, L, IsList, Linked
<1>15. QED
  BY <1>13, <1>14

\* The whole heap stays well-formed, and the other lists are what they were.
LEMMA InsertedGood ==
    ASSUME NEW g, Good(g), NEW h \in Heaps, NEW e \in Elements, NEW l, IsList(g, e, l),
           NEW p \in 1 .. Len(l) + 1, NEW n \in Nodes, g.parent[n] = NIL,
           NEW w, w.kind # "free", Inserted(g, h, e, l, p, n, w)
    PROVE  Good(h) /\ SameElse(g, h, {e})
<1>1. /\ l \in Seq(Nodes) /\ Len(l) \in Nat
      /\ \A i \in 1 .. Len(l) : l[i] \in Nodes /\ g.parent[l[i]] = e
  BY ElementOfSeq DEF IsList, Linked
<1>2. e # NIL
  BY CellsType
<1>3. /\ BeforePlace(l, p) = NIL \/ g.parent[BeforePlace(l, p)] = e
      /\ AfterPlace(l, p) = NIL \/ g.parent[AfterPlace(l, p)] = e
  BY <1>1 DEF BeforePlace, AfterPlace
<1>4. ASSUME NEW m \in Nodes, m # n, g.parent[m] # e
      PROVE  /\ h.next[m] = g.next[m] /\ h.prev[m] = g.prev[m]
             /\ h.parent[m] = g.parent[m] /\ h.what[m] = g.what[m]
  BY <1>3, <1>4, CellsType DEF Inserted
<1>5. ASSUME NEW d \in Elements \ {e}, NEW k, IsList(g, d, k) PROVE IsList(h, d, k)
  <2>1. h.head[d] = g.head[d] /\ h.tail[d] = g.tail[d]
    BY DEF Inserted
  <2>2. d # NIL
    BY CellsType
  <2>3. \A m \in Nodes : h.parent[m] = d => g.parent[m] = d
    BY DEF Inserted
  <2>4. \A m \in Nodes : g.parent[m] = d =>
              h.parent[m] = d /\ h.next[m] = g.next[m] /\ h.prev[m] = g.prev[m]
    BY <1>4, <2>2
  <2>5. QED
    BY <1>5, <2>1, <2>3, <2>4, OtherList
<1>d. \A d \in Elements : \E k : IsList(h, d, k)
  <2>1. \E k : IsList(h, e, k)
    BY <1>2, InsertedList
  <2>2. QED
    BY <2>1, <1>5 DEF Good
<1>6. ASSUME NEW m \in Nodes PROVE CellOK(h, m)
  <2>1. CASE m = n
    BY <2>1, <1>2 DEF Inserted, CellOK
  <2>2. CASE m # n /\ g.parent[m] = e
    <3>1. g.what[m].kind # "free"
      BY <2>2, <1>2 DEF Good, CellOK
    <3>2. h.what[m] = g.what[m] /\ h.parent[m] = e
      BY <2>2 DEF Inserted
    <3>3. QED
      BY <3>1, <3>2, <1>2 DEF CellOK
  <2>3. CASE m # n /\ g.parent[m] # e
    BY <2>3, <1>4 DEF Good, CellOK
  <2>4. QED
    BY <2>1, <2>2, <2>3
<1>7. QED
  BY <1>5, <1>d, <1>6 DEF Good, SameElse

-----------------------------------------------------------------------------
(* Erasing a cell *)

FollowPlace(l, p) == IF p = Len(l) THEN NIL ELSE l[p + 1]

\* h is g without the cell at place p of the list l of e.
Erased(g, h, e, l, p) ==
    /\ \A m \in Nodes :
        /\ h.next[m] = IF m = l[p] THEN NIL
                       ELSE IF m = BeforePlace(l, p) THEN FollowPlace(l, p) ELSE g.next[m]
        /\ h.prev[m] = IF m = l[p] THEN NIL
                       ELSE IF m = FollowPlace(l, p) THEN BeforePlace(l, p) ELSE g.prev[m]
        /\ h.parent[m] = IF m = l[p] THEN NIL ELSE g.parent[m]
        /\ h.what[m] = IF m = l[p] THEN Free ELSE g.what[m]
    /\ \A d \in Elements :
        /\ h.head[d] = IF d = e /\ p = 1 THEN FollowPlace(l, p) ELSE g.head[d]
        /\ h.tail[d] = IF d = e /\ p = Len(l) THEN BeforePlace(l, p) ELSE g.tail[d]

\* So do pointers set as erase_impl sets them.
LEMMA ErasedList ==
    ASSUME NEW g, NEW h, NEW e \in Elements, NEW l, IsList(g, e, l),
           NEW p \in 1 .. Len(l), Erased(g, h, e, l, p)
    PROVE  IsList(h, e, RemoveAt(l, p))
<1> DEFINE L == Len(l)
           n == l[p]
           r == [i \in 1 .. L - 1 |-> IF i < p THEN l[i] ELSE l[i + 1]]
<1>1. /\ L \in Nat /\ p \in 1 .. L /\ p >= 1 /\ p <= L /\ L >= 1
      /\ \A i \in 1 .. L : l[i] \in Nodes /\ l[i] # NIL
      /\ \A i, j \in 1 .. L : l[i] = l[j] => i = j
      /\ \A i \in 1 .. L : g.next[l[i]] = IF i = L THEN NIL ELSE l[i + 1]
      /\ \A i \in 1 .. L : g.prev[l[i]] = IF i = 1 THEN NIL ELSE l[i - 1]
      /\ \A i \in 1 .. L : g.parent[l[i]] = e
  BY ElementOfSeq, CellsType DEF IsList, Linked
<1>2. /\ g.head[e] = l[1] /\ g.tail[e] = l[L]
      /\ \A m \in Nodes : g.parent[m] = e => \E i \in 1 .. L : l[i] = m
  BY <1>1 DEF IsList
<1>3. /\ \A m \in Nodes :
          /\ h.next[m] = IF m = n THEN NIL
                         ELSE IF p # 1 /\ m = l[p - 1] THEN (IF p = L THEN NIL ELSE l[p + 1])
                         ELSE g.next[m]
          /\ h.prev[m] = IF m = n THEN NIL
                         ELSE IF p # L /\ m = l[p + 1] THEN (IF p = 1 THEN NIL ELSE l[p - 1])
                         ELSE g.prev[m]
          /\ h.parent[m] = IF m = n THEN NIL ELSE g.parent[m]
      /\ h.head[e] = IF p = 1 THEN (IF p = L THEN NIL ELSE l[p + 1]) ELSE g.head[e]
      /\ h.tail[e] = IF p = L THEN (IF p = 1 THEN NIL ELSE l[p - 1]) ELSE g.tail[e]
  BY CellsType DEF Erased, BeforePlace, FollowPlace
<1>n. \A i \in 1 .. L : i # p => l[i] # n
  BY <1>1
<1> HIDE DEF L, n
<1>4. r \in [1 .. L - 1 -> Nodes]
  BY <1>1
<1>5. /\ \A i \in 1 .. p - 1 : r[i] = l[i] /\ i \in 1 .. L /\ i # p
      /\ \A i \in p .. L - 1 : r[i] = l[i + 1] /\ i + 1 \in 1 .. L /\ i + 1 # p
  BY <1>1
<1> HIDE DEF r
<1>6. L - 1 \in Nat /\ r \in Seq(Nodes) /\ Len(r) = L - 1
  BY <1>1, <1>4, FunctionIsSeq
<1>7. ASSUME NEW i \in 1 .. L - 1 PROVE i \in 1 .. p - 1 \/ i \in p .. L - 1
  BY <1>1
<1>8. \A i, j \in 1 .. L - 1 : r[i] = r[j] => i = j
  <2> SUFFICES ASSUME NEW i \in 1 .. L - 1, NEW j \in 1 .. L - 1, r[i] = r[j], i < j
               PROVE  FALSE
    OBVIOUS
  <2>1. CASE i \in 1 .. p - 1
    BY <2>1, <1>1, <1>5, <1>7
  <2>2. CASE i \in p .. L - 1
    BY <2>2, <1>1, <1>5, <1>7
  <2>3. QED
    BY <2>1, <2>2, <1>7
<1>9. ASSUME NEW i \in 1 .. L - 1
      PROVE  /\ h.next[r[i]] = IF i = L - 1 THEN NIL ELSE r[i + 1]
             /\ h.prev[r[i]] = IF i = 1 THEN NIL ELSE r[i - 1]
             /\ h.parent[r[i]] = e
  <2>1. CASE i \in 1 .. p - 1
    <3>1. r[i] = l[i] /\ i \in 1 .. L /\ l[i] \in Nodes /\ l[i] # n
      BY <2>1, <1>1, <1>5, <1>n
    <3>2. h.prev[r[i]] = IF i = 1 THEN NIL ELSE r[i - 1]
      <4>0. p # L => p + 1 \in 1 .. L /\ i # p + 1
        BY <2>1, <1>1
      <4>1. h.prev[r[i]] = IF i = 1 THEN NIL ELSE l[i - 1]
        <5>1. g.prev[l[i]] = IF i = 1 THEN NIL ELSE l[i - 1]
          BY <3>1, <1>1
        <5>2. ~(p # L /\ l[i] = l[p + 1])
          BY <3>1, <4>0, <1>1
        <5>3. h.prev[l[i]] = g.prev[l[i]]
          BY <3>1, <5>2, <1>3
        <5>4. QED
          BY <3>1, <5>1, <5>3
      <4>2. i # 1 => r[i - 1] = l[i - 1]
        <5>1. i # 1 => i - 1 \in 1 .. p - 1
          BY <2>1, <1>1
        <5>2. QED
          BY <5>1, <1>5
      <4>3. QED
        BY <4>1, <4>2
    <3>3. h.next[r[i]] = IF i = L - 1 THEN NIL ELSE r[i + 1]
      <4>1. CASE i = p - 1
        <5>1. p # 1 /\ h.next[l[i]] = IF p = L THEN NIL ELSE l[p + 1]
          BY <4>1, <2>1, <3>1, <1>1, <1>3
        <5>2. p # L => r[p] = l[p + 1]
          <6>1. p # L => p \in p .. L - 1
            BY <1>1
          <6>2. QED
            BY <6>1, <1>5
        <5>3. (i = L - 1 <=> p = L) /\ i + 1 = p
          BY <4>1, <1>1
        <5>4. QED
          BY <5>1, <5>2, <5>3, <3>1
      <4>2. CASE i # p - 1
        <5>1. i + 1 \in 1 .. p - 1 /\ i # L /\ i # L - 1 /\ p - 1 \in 1 .. L /\ p # 1
          BY <4>2, <2>1, <1>1
        <5>2. l[i] # l[p - 1]
          BY <5>1, <4>2, <3>1, <1>1
        <5>3. h.next[l[i]] = g.next[l[i]]
          BY <5>1, <5>2, <3>1, <1>3
        <5>4. g.next[l[i]] = l[i + 1] /\ r[i + 1] = l[i + 1]
          BY <5>1, <3>1, <1>1, <1>5
        <5>5. QED
          BY <5>1, <5>3, <5>4, <3>1
      <4>3. QED
        BY <4>1, <4>2
    <3>4. h.parent[r[i]] = e
      <4>1. g.parent[l[i]] = e
        BY <3>1, <1>1
      <4>2. h.parent[l[i]] = g.parent[l[i]]
        BY <3>1, <1>3
      <4>3. QED
        BY <3>1, <4>1, <4>2
    <3>5. QED
      BY <3>2, <3>3, <3>4
  <2>2. CASE i \in p .. L - 1
    <3> DEFINE k == i + 1
    <3>1. /\ r[i] = l[k] /\ k \in 1 .. L /\ k > p /\ i = k - 1 /\ p # L /\ k # 1
          /\ l[k] \in Nodes /\ l[k] # n
      BY <2>2, <1>1, <1>5, <1>n
    <3> HIDE DEF k
    <3>2. h.next[r[i]] = IF i = L - 1 THEN NIL ELSE r[i + 1]
      <4>0. p # 1 => p - 1 \in 1 .. L /\ k # p - 1
        BY <3>1, <1>1
      <4>1. p # 1 => l[k] # l[p - 1]
        BY <4>0, <3>1, <1>1
      <4>2. h.next[r[i]] = IF k = L THEN NIL ELSE l[k + 1]
        BY <4>1, <3>1, <1>1, <1>3
      <4>3. i # L - 1 => r[i + 1] = l[k + 1]
        <5>1. i # L - 1 => i + 1 \in p .. L - 1 /\ (i + 1) + 1 = k + 1
          BY <3>1, <2>2, <1>1
        <5>2. QED
          BY <5>1, <1>5
      <4>4. i = L - 1 <=> k = L
        BY <3>1, <1>1
      <4>5. QED
        BY <4>2, <4>3, <4>4
    <3>3. h.prev[r[i]] = IF i = 1 THEN NIL ELSE r[i - 1]
      <4>1. CASE k = p + 1
        <5>1. i = p /\ h.prev[l[k]] = IF p = 1 THEN NIL ELSE l[p - 1]
          BY <4>1, <3>1, <1>1, <1>3
        <5>2. p # 1 => r[p - 1] = l[p - 1]
          <6>1. p # 1 => p - 1 \in 1 .. p - 1
            BY <1>1
          <6>2. QED
            BY <6>1, <1>5
        <5>3. QED
          BY <5>1, <5>2, <3>1
      <4>2. CASE k # p + 1
        <5>1. k - 1 \in 1 .. L /\ i - 1 \in p .. L - 1 /\ (i - 1) + 1 = k - 1 /\ i # 1
              /\ p + 1 \in 1 .. L
          BY <4>2, <3>1, <1>1
        <5>2. l[k] # l[p + 1]
          BY <5>1, <4>2, <3>1, <1>1
        <5>3. h.prev[l[k]] = l[k - 1]
          BY <5>2, <3>1, <1>1, <1>3
        <5>4. r[i - 1] = l[(i - 1) + 1]
          BY <5>1, <1>5
        <5>5. QED
          BY <5>1, <5>3, <5>4, <3>1
      <4>3. QED
        BY <4>1, <4>2
    <3>4. h.parent[r[i]] = e
      BY <3>1, <1>1, <1>3
    <3>5. QED
      BY <3>2, <3>3, <3>4
  <2>3. QED
    BY <2>1, <2>2, <1>7
<1>10. /\ h.head[e] = IF L - 1 = 0 THEN NIL ELSE r[1]
       /\ h.tail[e] = IF L - 1 = 0 THEN NIL ELSE r[L - 1]
  <2>1. CASE L = 1
    BY <2>1, <1>1, <1>3
  <2>2. CASE L # 1
    <3>1. h.head[e] = r[1]
      <4>1. CASE p = 1
        <5>1. 1 \in p .. L - 1 /\ p # L
          BY <4>1, <2>2, <1>1
        <5>2. QED
          BY <4>1, <5>1, <1>3, <1>5
      <4>2. CASE p # 1
        <5>1. 1 \in 1 .. p - 1
          BY <4>2, <1>1
        <5>2. QED
          BY <4>2, <5>1, <1>2, <1>3, <1>5
      <4>3. QED
        BY <4>1, <4>2
    <3>2. h.tail[e] = r[L - 1]
      <4>1. CASE p = L
        <5>1. L - 1 \in 1 .. p - 1 /\ p # 1
          BY <4>1, <2>2, <1>1
        <5>2. QED
          BY <4>1, <5>1, <1>3, <1>5
      <4>2. CASE p # L
        <5>1. L - 1 \in p .. L - 1 /\ (L - 1) + 1 = L
          BY <4>2, <1>1
        <5>2. QED
          BY <4>2, <5>1, <1>2, <1>3, <1>5
      <4>3. QED
        BY <4>1, <4>2
    <3>3. QED
      BY <3>1, <3>2, <2>2, <1>1
  <2>3. QED
    BY <2>1, <2>2
<1>11. ASSUME NEW m \in Nodes, h.parent[m] = e PROVE \E i \in 1 .. L - 1 : r[i] = m
  <2>1. m # n /\ g.parent[m] = e
    BY <1>3, <1>11, CellsType
  <2>2. PICK i \in 1 .. L : l[i] = m
    BY <2>1, <1>2
  <2>3. i # p
    BY <2>1, <2>2 DEF n
  <2>4. CASE i < p
    <3>1. i \in 1 .. p - 1 /\ i \in 1 .. L - 1
      BY <2>4, <1>1
    <3>2. QED
      BY <2>2, <3>1, <1>5
  <2>5. CASE i > p
    <3>1. i - 1 \in p .. L - 1 /\ (i - 1) + 1 = i /\ i - 1 \in 1 .. L - 1
      BY <2>5, <1>1
    <3>2. r[i - 1] = l[(i - 1) + 1]
      BY <3>1, <1>5
    <3>3. QED
      BY <2>2, <3>1, <3>2
  <2>6. QED
    BY <2>3, <2>4, <2>5, <1>1
<1>12. Linked(h, r)
  BY <1>6, <1>8, <1>9 DEF Linked
<1>13. IsList(h, e, r)
  BY <1>6, <1>9, <1>10, <1>11, <1>12 DEF IsList
<1>14. r = RemoveAt(l, p)
  BY RemoveAtIs DEF r, L, IsList, Linked
<1>15. QED
  BY <1>13, <1>14

\* And the other lists are what they were.
LEMMA ErasedGood ==
    ASSUME NEW g, Good(g), NEW h \in Heaps, NEW e \in Elements, NEW l, IsList(g, e, l),
           NEW p \in 1 .. Len(l), Erased(g, h, e, l, p)
    PROVE  Good(h) /\ SameElse(g, h, {e})
<1>1. /\ l \in Seq(Nodes) /\ Len(l) \in Nat
      /\ \A i \in 1 .. Len(l) : l[i] \in Nodes /\ g.parent[l[i]] = e
  BY ElementOfSeq DEF IsList, Linked
<1>2. e # NIL
  BY CellsType
<1>3. /\ BeforePlace(l, p) = NIL \/ g.parent[BeforePlace(l, p)] = e
      /\ FollowPlace(l, p) = NIL \/ g.parent[FollowPlace(l, p)] = e
      /\ g.parent[l[p]] = e
  BY <1>1 DEF BeforePlace, FollowPlace
<1>4. ASSUME NEW m \in Nodes, g.parent[m] # e
      PROVE  /\ h.next[m] = g.next[m] /\ h.prev[m] = g.prev[m]
             /\ h.parent[m] = g.parent[m] /\ h.what[m] = g.what[m]
  BY <1>3, <1>4, CellsType DEF Erased
<1>5. ASSUME NEW d \in Elements \ {e}, NEW k, IsList(g, d, k) PROVE IsList(h, d, k)
  <2>1. h.head[d] = g.head[d] /\ h.tail[d] = g.tail[d]
    BY DEF Erased
  <2>2. d # NIL
    BY CellsType
  <2>3. \A m \in Nodes : h.parent[m] = d => g.parent[m] = d
    BY <2>2 DEF Erased
  <2>4. \A m \in Nodes : g.parent[m] = d =>
              h.parent[m] = d /\ h.next[m] = g.next[m] /\ h.prev[m] = g.prev[m]
    BY <1>4
  <2>5. QED
    BY <1>5, <2>1, <2>3, <2>4, OtherList
<1>d. \A d \in Elements : \E k : IsList(h, d, k)
  <2>1. \E k : IsList(h, e, k)
    BY ErasedList
  <2>2. QED
    BY <2>1, <1>5 DEF Good
<1>6. ASSUME NEW m \in Nodes PROVE CellOK(h, m)
  <2>1. CASE m = l[p]
    BY <2>1 DEF Erased, CellOK, Free
  <2>2. CASE m # l[p] /\ g.parent[m] = e
    <3>1. g.what[m].kind # "free"
      BY <2>2, <1>2 DEF Good, CellOK
    <3>2. h.what[m] = g.what[m] /\ h.parent[m] = e
      BY <2>2 DEF Erased
    <3>3. QED
      BY <3>1, <3>2, <1>2 DEF CellOK
  <2>3. CASE m # l[p] /\ g.parent[m] # e
    BY <2>3, <1>4 DEF Good, CellOK
  <2>4. QED
    BY <2>1, <2>2, <2>3
<1>7. QED
  BY <1>5, <1>d, <1>6 DEF Good, SameElse

-----------------------------------------------------------------------------
(* insert_impl *)

\* Called on a cell of a list, insert_sibling finds the cell that before follows.
LEMMA SiblingFound ==
    ASSUME NEW h, NEW l, Linked(h, l), NEW i \in 1 .. Len(l), NEW q \in i .. Len(l),
           NEW before, h.next[l[q]] = before
    PROVE  LET s == Chain(h, l[i])
           IN  s[Min({j \in DOMAIN s : h.next[s[j]] \in {NIL, before}})] = l[q]
<1> DEFINE L == Len(l)
           s == Chain(h, l[i])
           M == L - i + 1
           k == q - i + 1
           ends == {j \in DOMAIN s : h.next[s[j]] \in {NIL, before}}
<1>1. /\ L \in Nat /\ i \in Nat /\ q \in Nat /\ 1 <= i /\ i <= q /\ q <= L
      /\ \A j \in 1 .. L : l[j] \in Nodes /\ l[j] # NIL
      /\ \A j, m \in 1 .. L : l[j] = l[m] => j = m
      /\ \A j \in 1 .. L : h.next[l[j]] = IF j = L THEN NIL ELSE l[j + 1]
  BY ElementOfSeq, CellsType DEF Linked
<1>2. s \in Seq(Nodes) /\ Len(s) = M /\ \A j \in 1 .. M : s[j] = l[i + j - 1]
  BY ChainFrom
<1> HIDE DEF L, s
<1>3. M \in Nat /\ k \in 1 .. M /\ i + k - 1 = q /\ \A j \in 1 .. M : i + j - 1 \in 1 .. L
  BY <1>1
<1>4. DOMAIN s = 1 .. M
  BY <1>2
<1>5. k \in ends
  BY <1>2, <1>3, <1>4
<1>6. ASSUME NEW j \in ends PROVE k <= j
  <2>1. j \in 1 .. M /\ i + j - 1 \in 1 .. L /\ h.next[l[i + j - 1]] \in {NIL, before}
    BY <1>2, <1>3, <1>4
  <2> DEFINE a == i + j - 1
  <2>2. a \in 1 .. L /\ a \in Nat /\ h.next[l[a]] \in {NIL, before}
    BY <2>1
  <2>3. a >= q
    <3> HIDE DEF a
    <3> SUFFICES ASSUME a < q PROVE FALSE
      BY <1>1, <2>2
    <3>1. a # L /\ a + 1 \in 1 .. L
      BY <1>1, <2>2
    <3>2. h.next[l[a]] = l[a + 1] /\ l[a + 1] # NIL
      BY <1>1, <2>2, <3>1
    <3>3. before = l[a + 1]
      BY <2>2, <3>2
    <3>4. before = IF q = L THEN NIL ELSE l[q + 1]
      BY <1>1
    <3>5. q # L /\ q + 1 \in 1 .. L /\ l[q + 1] = l[a + 1]
      BY <3>2, <3>3, <3>4, <1>1
    <3>6. q + 1 = a + 1
      BY <3>1, <3>5, <1>1
    <3>7. QED
      BY <3>6, <1>1, <2>2
  <2>4. QED
    BY <2>1, <2>3, <1>1
<1>7. ends \subseteq Nat
  BY <1>3, <1>4
<1> HIDE DEF ends
<1>8. Min(ends) = k
  <2>1. k \in Nat /\ k \in ends /\ \A j \in ends : k <= j
    BY <1>3, <1>5, <1>6
  <2>2. Min(ends) \in ends /\ \A j \in ends : Min(ends) <= j
    BY <2>1, <1>7 DEF Min
  <2>3. PICK m : m = Min(ends)
    OBVIOUS
  <2>4. m \in Nat /\ m <= k /\ k <= m
    BY <2>1, <2>2, <2>3, <1>7
  <2>5. m = k
    BY <2>1, <2>4
  <2>6. QED
    BY <2>3, <2>5
<1>9. QED
  BY <1>2, <1>3, <1>8 DEF ends, s

\* What it writes then.
LEMMA SiblingWrites ==
    ASSUME NEW h \in Heaps, NEW l, Linked(h, l), NEW i \in 1 .. Len(l), NEW q \in i .. Len(l),
           NEW n \in Nodes, NEW before \in Pointer, h.next[l[q]] = before, before # n, l[q] # n
    PROVE  LET r == insert_sibling(h, l[i], n, before)
           IN  /\ r \in Heaps
               /\ r.head = h.head /\ r.tail = h.tail /\ r.what = h.what
               /\ \A m \in Nodes :
                    /\ r.next[m] = IF m = n THEN before ELSE IF m = l[q] THEN n ELSE h.next[m]
                    /\ r.prev[m] = IF m = n THEN l[q] ELSE IF m = before THEN n ELSE h.prev[m]
                    /\ r.parent[m] = IF m = n THEN h.parent[l[i]] ELSE h.parent[m]
<1> DEFINE last == l[q]
           r == insert_sibling(h, l[i], n, before)
           a == [h EXCEPT !.next[last] = n, !.prev[n] = last,
                          !.parent[n] = h.parent[l[i]], !.next[n] = before]
<1>1. r = IF before = NIL THEN a ELSE [a EXCEPT !.prev[before] = n]
  <2>1. LET s == Chain(h, l[i])
        IN  s[Min({j \in DOMAIN s : h.next[s[j]] \in {NIL, before}})] = last
    BY SiblingFound
  <2>2. QED
    BY <2>1, Zenon DEF insert_sibling
<1>2. last \in Nodes /\ last # n /\ l[i] \in Nodes /\ h.parent[l[i]] \in Owner
  <2>1. l \in Seq(Nodes) /\ q \in 1 .. Len(l)
    BY DEF Linked
  <2>2. QED
    BY <2>1, ElementOfSeq DEF Heaps
<1> HIDE DEF last, r
<1>3. /\ a \in Heaps /\ a.head = h.head /\ a.tail = h.tail /\ a.what = h.what
      /\ \A m \in Nodes :
           /\ a.next[m] = IF m = n THEN before ELSE IF m = last THEN n ELSE h.next[m]
           /\ a.prev[m] = IF m = n THEN last ELSE h.prev[m]
           /\ a.parent[m] = IF m = n THEN h.parent[l[i]] ELSE h.parent[m]
  BY <1>2 DEF Heaps, Pointer
<1> HIDE DEF a
<1>4. CASE before = NIL
  BY <1>1, <1>3, <1>4, CellsType DEF last, r
<1>5. CASE before # NIL
  BY <1>1, <1>3, <1>5, CellsType DEF last, r, Heaps, Pointer
<1>6. QED
  BY <1>4, <1>5

\* basic_node_list::insert_impl
LEMMA InsertPlace ==
    ASSUME NEW g, Good(g), NEW e \in Elements, NEW l, IsList(g, e, l),
           NEW n \in Nodes, g.what[n].kind = "free",
           NEW w \in Cells, w.kind # "free",
           NEW pos \in Pointer, pos # NIL => g.parent[pos] = e
    PROVE  LET h == insert_impl(Construct(g, n, w), e, pos, n)
           IN  \E p \in 1 .. Len(l) + 1 :
                  h \in Heaps /\ Inserted(g, h, e, l, p, n, w) /\ AfterPlace(l, p) = pos
<1> DEFINE c == Construct(g, n, w)
           h1 == [c EXCEPT !.parent[n] = e]
           h == insert_impl(c, e, pos, n)
           hd == c.head[e]
           L == Len(l)
<1>1. SUFFICES \E p \in 1 .. L + 1 :
                  h \in Heaps /\ Inserted(g, h, e, l, p, n, w) /\ AfterPlace(l, p) = pos
  OBVIOUS
<1>2. /\ g \in Heaps /\ g.next[n] = NIL /\ g.prev[n] = NIL /\ g.parent[n] = NIL
      /\ e # NIL /\ n # NIL
  BY CellsType DEF Good, CellOK
<1>3. /\ L \in Nat
      /\ \A i \in 1 .. L : l[i] \in Nodes /\ l[i] # NIL /\ l[i] # n
      /\ \A i, j \in 1 .. L : l[i] = l[j] => i = j
      /\ \A i \in 1 .. L : g.next[l[i]] = IF i = L THEN NIL ELSE l[i + 1]
      /\ \A i \in 1 .. L : g.prev[l[i]] = IF i = 1 THEN NIL ELSE l[i - 1]
      /\ \A i \in 1 .. L : g.parent[l[i]] = e
      /\ g.head[e] = IF L = 0 THEN NIL ELSE l[1]
      /\ g.tail[e] = IF L = 0 THEN NIL ELSE l[L]
      /\ \A m \in Nodes : g.parent[m] = e => \E i \in 1 .. L : l[i] = m
  BY <1>2, ElementOfSeq, CellsType DEF IsList, Linked
<1>4. /\ c \in Heaps /\ c.head = g.head /\ c.tail = g.tail /\ c.next = g.next
      /\ c.prev = g.prev /\ c.parent = g.parent
      /\ \A m \in Nodes : c.what[m] = IF m = n THEN w ELSE g.what[m]
  BY <1>2 DEF Construct, Heaps
<1> HIDE DEF c
<1>5. /\ h1 \in Heaps /\ h1.head = g.head /\ h1.tail = g.tail /\ h1.next = g.next
      /\ h1.prev = g.prev /\ h1.what = c.what
      /\ \A m \in Nodes : h1.parent[m] = IF m = n THEN e ELSE g.parent[m]
  BY <1>4 DEF Heaps, Owner
<1>6. Linked(h1, l)
  BY <1>5 DEF IsList, Linked
<1> HIDE DEF h1
<1>8. CASE pos = NIL /\ hd = NIL
  <2>1. L = 0 /\ 1 \in 1 .. L + 1
    BY <1>3, <1>4, <1>8
  <2>2. h = [h1 EXCEPT !.head[e] = n, !.tail[e] = n]
    BY <1>8 DEF insert_impl, h1
  <2>3. /\ h \in Heaps /\ h.next = h1.next /\ h.prev = h1.prev /\ h.parent = h1.parent
        /\ h.what = h1.what
        /\ \A d \in Elements : /\ h.head[d] = IF d = e THEN n ELSE g.head[d]
                               /\ h.tail[d] = IF d = e THEN n ELSE g.tail[d]
    <3> HIDE DEF h
    <3>1. n \in Pointer
      BY DEF Pointer
    <3>2. QED
      BY <2>2, <3>1, <1>5 DEF Heaps
  <2> HIDE DEF h
  <2>4. Inserted(g, h, e, l, 1, n, w)
    BY <2>1, <2>3, <1>2, <1>4, <1>5, CellsType DEF Inserted, BeforePlace, AfterPlace
  <2>5. AfterPlace(l, 1) = pos
    BY <2>1, <1>8 DEF AfterPlace
  <2>6. QED
    BY <2>1, <2>3, <2>4, <2>5
<1>9. CASE pos = NIL /\ hd # NIL
  <2> DEFINE r == insert_sibling(h1, g.tail[e], n, NIL)
  <2>1. L # 0 /\ L >= 1 /\ g.tail[e] = l[L] /\ L + 1 \in 1 .. L + 1 /\ L + 1 # 1 /\ L \in 1 .. L
    BY <1>3, <1>4, <1>9
  <2>2. h = [r EXCEPT !.tail[e] = n]
    BY <1>4, <1>9 DEF insert_impl, h1
  <2>3. NIL \in Pointer /\ h1.next[l[L]] = NIL /\ L \in L .. L /\ l[L] # n
    BY <2>1, <1>3, <1>5 DEF Pointer
  <2>4. /\ r \in Heaps /\ r.head = h1.head /\ r.tail = h1.tail /\ r.what = h1.what
        /\ \A m \in Nodes :
              /\ r.next[m] = IF m = n THEN NIL ELSE IF m = l[L] THEN n ELSE h1.next[m]
              /\ r.prev[m] = IF m = n THEN l[L] ELSE IF m = NIL THEN n ELSE h1.prev[m]
              /\ r.parent[m] = IF m = n THEN h1.parent[l[L]] ELSE h1.parent[m]
    BY <2>1, <2>3, <1>2, <1>5, <1>6, SiblingWrites
  <2> HIDE DEF r
  <2>5. /\ h \in Heaps /\ h.head = r.head /\ h.next = r.next /\ h.prev = r.prev
        /\ h.parent = r.parent /\ h.what = r.what
        /\ \A d \in Elements : h.tail[d] = IF d = e THEN n ELSE r.tail[d]
    BY <2>2, <2>4 DEF Heaps, Pointer
  <2> HIDE DEF h
  <2>6. h1.parent[l[L]] = e
    BY <2>1, <1>3, <1>5
  <2>7. BeforePlace(l, L + 1) = l[L] /\ AfterPlace(l, L + 1) = NIL
    <3>1. (L + 1) - 1 = L
      BY <1>3
    <3>2. QED
      BY <2>1, <3>1 DEF BeforePlace, AfterPlace
  <2>8. Inserted(g, h, e, l, L + 1, n, w)
    BY <2>1, <2>4, <2>5, <2>6, <2>7, <1>2, <1>4, <1>5, CellsType DEF Inserted
  <2>9. QED
    BY <2>1, <2>5, <2>7, <2>8, <1>9
<1>10. CASE pos # NIL /\ pos = hd
  <2>1. L # 0 /\ L >= 1 /\ hd = l[1] /\ 1 \in 1 .. L + 1 /\ 1 \in 1 .. L /\ 1 # L + 1
    BY <1>3, <1>4, <1>10
  <2>2. h = [h1 EXCEPT !.next[n] = hd, !.prev[hd] = n, !.head[e] = n]
    BY <1>10 DEF insert_impl, h1
  <2>3. hd \in Nodes /\ hd # n
    BY <2>1, <1>3
  <2>4. /\ h \in Heaps /\ h.tail = h1.tail /\ h.parent = h1.parent /\ h.what = h1.what
        /\ \A m \in Nodes : /\ h.next[m] = IF m = n THEN hd ELSE h1.next[m]
                            /\ h.prev[m] = IF m = hd THEN n ELSE h1.prev[m]
        /\ \A d \in Elements : h.head[d] = IF d = e THEN n ELSE g.head[d]
    <3> HIDE DEF h, hd
    <3>1. n \in Pointer /\ hd \in Pointer
      BY <2>3 DEF Pointer
    <3>2. QED
      BY <2>2, <2>3, <3>1, <1>5 DEF Heaps
  <2> HIDE DEF h, hd
  <2>5. BeforePlace(l, 1) = NIL /\ AfterPlace(l, 1) = hd
    BY <2>1 DEF BeforePlace, AfterPlace
  <2>6. Inserted(g, h, e, l, 1, n, w)
    BY <2>1, <2>3, <2>4, <2>5, <1>2, <1>4, <1>5, CellsType DEF Inserted
  <2>7. QED
    BY <2>1, <2>4, <2>5, <2>6, <1>10
<1>11. CASE pos # NIL /\ pos # hd
  <2>1. pos \in Nodes /\ g.parent[pos] = e
    BY <1>11 DEF Pointer
  <2>2. PICK p \in 1 .. L : l[p] = pos
    BY <2>1, <1>3
  <2>3. L # 0 /\ hd = l[1] /\ p # 1 /\ p - 1 \in 1 .. L /\ 1 \in 1 .. L
    BY <2>2, <1>3, <1>4, <1>11
  <2>4. h = insert_sibling(h1, l[1], n, pos)
    BY <2>3, <1>11 DEF insert_impl, h1
  <2>5. /\ h1.next[l[p - 1]] = pos /\ pos # n /\ l[p - 1] # n
        /\ p - 1 \in 1 .. L /\ p # L + 1 /\ p \in 1 .. L + 1
    <3>1. (p - 1) + 1 = p /\ p - 1 # L /\ p # L + 1 /\ p \in 1 .. L + 1
      BY <1>3
    <3>2. QED
      BY <2>2, <2>3, <3>1, <1>3, <1>5
  <2>6. /\ h \in Heaps /\ h.head = h1.head /\ h.tail = h1.tail /\ h.what = h1.what
        /\ \A m \in Nodes :
              /\ h.next[m] = IF m = n THEN pos ELSE IF m = l[p - 1] THEN n ELSE h1.next[m]
              /\ h.prev[m] = IF m = n THEN l[p - 1] ELSE IF m = pos THEN n ELSE h1.prev[m]
              /\ h.parent[m] = IF m = n THEN h1.parent[l[1]] ELSE h1.parent[m]
    <3>1. 1 \in 1 .. L /\ p - 1 \in 1 .. L /\ pos \in Pointer /\ h1 \in Heaps /\ Linked(h1, l)
      BY <2>3, <1>5, <1>6
    <3> HIDE DEF h
    <3>2. QED
      BY <2>4, <2>5, <3>1, SiblingWrites
  <2> HIDE DEF h
  <2>7. h1.parent[l[1]] = e
    BY <2>3, <1>3, <1>5
  <2>8. BeforePlace(l, p) = l[p - 1] /\ AfterPlace(l, p) = pos
    BY <2>2, <2>3, <2>5 DEF BeforePlace, AfterPlace
  <2>9. Inserted(g, h, e, l, p, n, w)
    BY <2>3, <2>5, <2>6, <2>7, <2>8, <1>2, <1>4, <1>5, CellsType DEF Inserted
  <2>10. QED
    BY <2>5, <2>6, <2>8, <2>9
<1>12. QED
  BY <1>8, <1>9, <1>10, <1>11

\* h is g with the cell n, which now holds w, somewhere on the list of e.
Gained(g, h, e, n, w) ==
    /\ Good(h) /\ SameElse(g, h, {e})
    /\ \A m \in Nodes : /\ h.parent[m] = IF m = n THEN e ELSE g.parent[m]
                        /\ h.what[m] = IF m = n THEN w ELSE g.what[m]

\* insert_impl keeps every list a list.
LEMMA InsertImpl ==
    ASSUME NEW g, Good(g), NEW e \in Elements, NEW n \in Nodes, g.what[n].kind = "free",
           NEW w \in Cells, w.kind # "free",
           NEW pos \in Pointer, pos # NIL => g.parent[pos] = e
    PROVE  Gained(g, insert_impl(Construct(g, n, w), e, pos, n), e, n, w)
<1> DEFINE h == insert_impl(Construct(g, n, w), e, pos, n)
<1>1. PICK l : IsList(g, e, l)
  BY DEF Good
<1>2. PICK p \in 1 .. Len(l) + 1 : h \in Heaps /\ Inserted(g, h, e, l, p, n, w)
  BY <1>1, InsertPlace
<1> HIDE DEF h
<1>3. g.parent[n] = NIL
  BY DEF Good, CellOK
<1>4. Good(h) /\ SameElse(g, h, {e})
  BY <1>1, <1>2, <1>3, InsertedGood
<1>5. Gained(g, h, e, n, w)
  BY <1>2, <1>4 DEF Inserted, Gained
<1>6. QED
  BY <1>5 DEF h

-----------------------------------------------------------------------------
(* erase_impl and clear *)

\* Deleting the first cell of a linked list frees its cells and no others.
LEMMA DeleteWrites ==
    ASSUME NEW h \in Heaps, NEW l, Linked(h, l), l # <<>>
    PROVE  LET r == Delete(h, l[1])
           IN  /\ r \in Heaps /\ r.head = h.head /\ r.tail = h.tail
               /\ \A m \in Nodes :
                    IF \E i \in 1 .. Len(l) : l[i] = m
                    THEN /\ r.next[m] = NIL /\ r.prev[m] = NIL /\ r.parent[m] = NIL
                         /\ r.what[m] = Free
                    ELSE /\ r.next[m] = h.next[m] /\ r.prev[m] = h.prev[m]
                         /\ r.parent[m] = h.parent[m] /\ r.what[m] = h.what[m]
<1> DEFINE gone == ToSet(Chain(h, l[1]))
           r == Delete(h, l[1])
           what == [m \in Nodes |-> IF m \in gone THEN Free ELSE h.what[m]]
           next == [m \in Nodes |-> IF m \in gone THEN NIL ELSE h.next[m]]
           prev == [m \in Nodes |-> IF m \in gone THEN NIL ELSE h.prev[m]]
           parent == [m \in Nodes |-> IF m \in gone THEN NIL ELSE h.parent[m]]
<1>1. l \in Seq(Nodes) /\ 1 \in 1 .. Len(l) /\ l[1] \in Nodes /\ l[1] # NIL
  BY EmptySeq, ElementOfSeq, CellsType DEF Linked
<1>2. \A m : m \in gone <=> \E i \in 1 .. Len(l) : l[i] = m
  BY <1>1, ChainIsList DEF ToSet
<1>3. r = [h EXCEPT !.what = what, !.next = next, !.prev = prev, !.parent = parent]
  BY <1>1 DEF Delete
<1>4. what \in [Nodes -> Cells] /\ \A m \in Nodes : what[m] = IF m \in gone THEN Free ELSE h.what[m]
  <2>1. Free \in Cells
    BY DEF Free, Cells
  <2>2. QED
    BY <2>1 DEF Heaps
<1>5. next \in [Nodes -> Pointer] /\ \A m \in Nodes : next[m] = IF m \in gone THEN NIL ELSE h.next[m]
  BY DEF Heaps, Pointer
<1>6. prev \in [Nodes -> Pointer] /\ \A m \in Nodes : prev[m] = IF m \in gone THEN NIL ELSE h.prev[m]
  BY DEF Heaps, Pointer
<1>7. parent \in [Nodes -> Owner]
      /\ \A m \in Nodes : parent[m] = IF m \in gone THEN NIL ELSE h.parent[m]
  BY DEF Heaps, Owner
<1> HIDE DEF what, next, prev, parent, r, gone
<1>8. /\ r \in Heaps /\ r.head = h.head /\ r.tail = h.tail
      /\ r.what = what /\ r.next = next /\ r.prev = prev /\ r.parent = parent
  BY <1>3, <1>4, <1>5, <1>6, <1>7 DEF Heaps
<1>9. QED
  BY <1>2, <1>4, <1>5, <1>6, <1>7, <1>8 DEF r

\* basic_node_list::erase_impl
LEMMA ErasePlace ==
    ASSUME NEW g, Good(g), NEW e \in Elements, NEW l, IsList(g, e, l), NEW n \in Nodes,
           g.parent[n] = e
    PROVE  LET h == erase_impl(g, e, n)
           IN  \E p \in 1 .. Len(l) : l[p] = n /\ h \in Heaps /\ Erased(g, h, e, l, p)
<1> DEFINE L == Len(l)
           nx == g.next[n]
<1>2. g \in Heaps /\ e # NIL /\ n # NIL
  BY CellsType DEF Good
<1>3. /\ L \in Nat /\ l \in Seq(Nodes)
      /\ \A i \in 1 .. L : l[i] \in Nodes /\ l[i] # NIL
      /\ \A i, j \in 1 .. L : l[i] = l[j] => i = j
      /\ \A i \in 1 .. L : g.next[l[i]] = IF i = L THEN NIL ELSE l[i + 1]
      /\ \A i \in 1 .. L : g.prev[l[i]] = IF i = 1 THEN NIL ELSE l[i - 1]
      /\ g.head[e] = IF L = 0 THEN NIL ELSE l[1]
      /\ g.tail[e] = IF L = 0 THEN NIL ELSE l[L]
      /\ \A m \in Nodes : g.parent[m] = e => \E i \in 1 .. L : l[i] = m
  BY ElementOfSeq, CellsType DEF IsList, Linked
<1>4. PICK p \in 1 .. L : l[p] = n
  BY <1>3
<1>5. /\ g.head[e] = l[1] /\ g.tail[e] = l[L] /\ 1 \in 1 .. L /\ L \in 1 .. L
      /\ (g.head[e] = n <=> p = 1) /\ (g.tail[e] = n <=> p = L)
      /\ (nx = NIL <=> p = L) /\ nx = FollowPlace(l, p) /\ nx # n
      /\ p # L => nx = l[p + 1] /\ p + 1 \in 1 .. L
      /\ p # 1 => p - 1 \in 1 .. L /\ (p - 1) + 1 = p /\ p - 1 # L /\ p - 1 # p
      /\ nx \in Pointer
  <2>1. g.head[e] = l[1] /\ g.tail[e] = l[L] /\ 1 \in 1 .. L /\ L \in 1 .. L
    BY <1>3
  <2>2. (g.head[e] = n <=> p = 1) /\ (g.tail[e] = n <=> p = L)
    BY <2>1, <1>3, <1>4
  <2>3. nx = IF p = L THEN NIL ELSE l[p + 1]
    BY <1>3, <1>4
  <2>4. p # L => p + 1 \in 1 .. L /\ p + 1 # p
    BY <1>3
  <2>5. (nx = NIL <=> p = L) /\ nx = FollowPlace(l, p) /\ nx # n
    BY <2>3, <2>4, <1>2, <1>3, <1>4 DEF FollowPlace
  <2>6. p # 1 => p - 1 \in 1 .. L /\ (p - 1) + 1 = p /\ p - 1 # L /\ p - 1 # p
    BY <1>3
  <2>7. nx \in Pointer
    BY <1>2 DEF Heaps
  <2>8. QED
    BY <2>1, <2>2, <2>3, <2>4, <2>5, <2>6, <2>7
<1> DEFINE q == CHOOSE b \in ToSet(Chain(g, g.head[e])) : g.next[b] = n
           a == IF g.tail[e] = n THEN [g EXCEPT !.tail[e] = g.prev[n]] ELSE g
           b == [a EXCEPT !.next[q] = nx]
           first == IF nx = NIL THEN [[g EXCEPT !.head[e] = nx] EXCEPT !.tail[e] = NIL]
                    ELSE [[g EXCEPT !.head[e] = nx] EXCEPT !.prev[nx] = NIL]
           later == IF nx = NIL THEN b ELSE [b EXCEPT !.prev[nx] = q]
           h1 == IF g.head[e] = n THEN first ELSE later
           h2 == [h1 EXCEPT !.next[n] = NIL, !.prev[n] = NIL, !.parent[n] = NIL]
           h == Delete(h2, n)
<1>6. erase_impl(g, e, n) = h
  BY Zenon DEF erase_impl
<1>7. p # 1 => q = l[p - 1] /\ q \in Nodes
  <2> SUFFICES ASSUME p # 1 PROVE q = l[p - 1] /\ q \in Nodes
    OBVIOUS
  <2>1. Chain(g, g.head[e]) = l
    BY <1>3, <1>5, ChainIsList, EmptySeq DEF IsList
  <2>2. ToSet(l) = {l[i] : i \in 1 .. L}
    <3>1. DOMAIN l = 1 .. L
      BY <1>3
    <3>2. QED
      BY <3>1, Zenon DEF ToSet
  <2>3. g.next[l[p - 1]] = n /\ l[p - 1] \in ToSet(l)
    BY <1>3, <1>4, <1>5, <2>2
  <2>4. q \in ToSet(l) /\ g.next[q] = n
    BY <2>1, <2>3
  <2> HIDE DEF q
  <2>5. PICK j \in 1 .. L : l[j] = q
    BY <2>2, <2>4
  <2>6. j # L /\ j + 1 \in 1 .. L /\ l[j + 1] = n
    <3>1. g.next[l[j]] = n
      BY <2>4, <2>5
    <3>2. g.next[l[j]] = IF j = L THEN NIL ELSE l[j + 1]
      BY <1>3
    <3>3. j # L
      BY <3>1, <3>2, <1>2
    <3>4. j + 1 \in 1 .. L
      BY <3>3, <1>3
    <3>5. QED
      BY <3>1, <3>2, <3>3, <3>4
  <2>7. j + 1 = p
    BY <2>6, <1>3, <1>4
  <2>8. j = p - 1
    BY <2>7, <1>3
  <2>9. QED
    BY <2>5, <2>8, <1>3
<1> HIDE DEF q, nx
<1>8. /\ h1 \in Heaps /\ h1.parent = g.parent /\ h1.what = g.what
      /\ \A m \in Nodes :
           /\ h1.next[m] = IF p # 1 /\ m = l[p - 1] THEN nx ELSE g.next[m]
           /\ h1.prev[m] = IF m = nx THEN BeforePlace(l, p) ELSE g.prev[m]
      /\ \A d \in Elements :
           /\ h1.head[d] = IF d = e /\ p = 1 THEN nx ELSE g.head[d]
           /\ h1.tail[d] = IF d = e /\ p = L THEN BeforePlace(l, p) ELSE g.tail[d]
  <2>n. NIL \in Pointer /\ NIL \notin Nodes /\ (nx # NIL => nx \in Nodes)
    BY <1>5, CellsType DEF Pointer
  <2>1. CASE p = 1
    <3>1. h1 = first /\ BeforePlace(l, p) = NIL
      BY <2>1, <1>5 DEF BeforePlace
    <3>2. CASE nx = NIL
      <4>1. first = [[g EXCEPT !.head[e] = nx] EXCEPT !.tail[e] = NIL]
        BY <3>2
      <4> HIDE DEF h1, first
      <4>2. QED
        BY <4>1, <3>1, <3>2, <2>1, <2>n, <1>2, <1>5 DEF Heaps
    <3>3. CASE nx # NIL
      <4>1. first = [[g EXCEPT !.head[e] = nx] EXCEPT !.prev[nx] = NIL]
        BY <3>3
      <4> HIDE DEF h1, first
      <4>2. QED
        BY <4>1, <3>1, <3>3, <2>1, <2>n, <1>2, <1>5 DEF Heaps
    <3>4. QED
      BY <3>2, <3>3
  <2>2. CASE p # 1
    <3>1. h1 = later /\ BeforePlace(l, p) = q /\ q \in Pointer /\ q \in Nodes /\ q = l[p - 1]
      BY <2>2, <1>5, <1>7 DEF BeforePlace, Pointer
    <3>2. g.prev[n] = q
      BY <2>2, <3>1, <1>3, <1>4
    <3>3. /\ a \in Heaps /\ a.parent = g.parent /\ a.what = g.what /\ a.next = g.next
          /\ a.prev = g.prev /\ a.head = g.head
          /\ \A d \in Elements : a.tail[d] = IF d = e /\ p = L THEN q ELSE g.tail[d]
      BY <3>1, <3>2, <1>2, <1>5 DEF Heaps
    <3> HIDE DEF a, h1, later
    <3>4. /\ b \in Heaps /\ b.parent = g.parent /\ b.what = g.what
          /\ b.prev = g.prev /\ b.head = g.head /\ b.tail = a.tail
          /\ \A m \in Nodes : b.next[m] = IF m = q THEN nx ELSE g.next[m]
      BY <3>1, <3>3, <1>5 DEF Heaps
    <3> HIDE DEF b
    <3>5. later = IF nx = NIL THEN b ELSE [b EXCEPT !.prev[nx] = q]
      BY DEF later
    <3>6. /\ later \in Heaps /\ later.parent = g.parent /\ later.what = g.what
          /\ later.next = b.next /\ later.head = g.head /\ later.tail = a.tail
          /\ \A m \in Nodes : later.prev[m] = IF m = nx THEN q ELSE g.prev[m]
      BY <3>1, <3>4, <3>5, <2>n DEF Heaps
    <3>7. QED
      BY <3>1, <3>3, <3>4, <3>6, <2>2
  <2>3. QED
    BY <2>1, <2>2
<1> HIDE DEF h1, first, later
<1>9. /\ h2 \in Heaps /\ h2.head = h1.head /\ h2.tail = h1.tail /\ h2.what = h1.what
      /\ \A m \in Nodes : /\ h2.next[m] = IF m = n THEN NIL ELSE h1.next[m]
                          /\ h2.prev[m] = IF m = n THEN NIL ELSE h1.prev[m]
                          /\ h2.parent[m] = IF m = n THEN NIL ELSE h1.parent[m]
  BY <1>8 DEF Heaps, Pointer, Owner
<1> HIDE DEF h2
<1>10. Linked(h2, <<n>>) /\ <<n>> # <<>> /\ <<n>>[1] = n /\ Len(<<n>>) = 1
  BY <1>9 DEF Linked
<1>11. /\ h \in Heaps /\ h.head = h2.head /\ h.tail = h2.tail
       /\ \A m \in Nodes :
            IF m = n
            THEN /\ h.next[m] = NIL /\ h.prev[m] = NIL /\ h.parent[m] = NIL
                 /\ h.what[m] = Free
            ELSE /\ h.next[m] = h2.next[m] /\ h.prev[m] = h2.prev[m]
                 /\ h.parent[m] = h2.parent[m] /\ h.what[m] = h2.what[m]
  <2> DEFINE k == <<n>>
  <2>1. Linked(h2, k) /\ k # <<>> /\ k[1] = n /\ \A m : (\E i \in 1 .. Len(k) : k[i] = m) <=> m = n
    BY <1>10
  <2> HIDE DEF k
  <2>2. LET r == Delete(h2, k[1])
        IN  /\ r \in Heaps /\ r.head = h2.head /\ r.tail = h2.tail
            /\ \A m \in Nodes :
                 IF \E i \in 1 .. Len(k) : k[i] = m
                 THEN /\ r.next[m] = NIL /\ r.prev[m] = NIL /\ r.parent[m] = NIL
                      /\ r.what[m] = Free
                 ELSE /\ r.next[m] = h2.next[m] /\ r.prev[m] = h2.prev[m]
                      /\ r.parent[m] = h2.parent[m] /\ r.what[m] = h2.what[m]
    <3>1. h2 \in Heaps
      BY <1>9
    <3>2. QED
      BY <2>1, <3>1, DeleteWrites, SMTT(20)
  <2>3. h = Delete(h2, k[1])
    BY <2>1
  <2> HIDE DEF h
  <2>4. QED
    BY <2>1, <2>2, <2>3
<1> HIDE DEF h
<1>12. Erased(g, h, e, l, p)
  <2>1. BeforePlace(l, p) = IF p = 1 THEN NIL ELSE l[p - 1]
    BY DEF BeforePlace
  <2>2. ASSUME NEW m \in Nodes
        PROVE  /\ h.next[m] = IF m = l[p] THEN NIL
                       ELSE IF m = BeforePlace(l, p) THEN FollowPlace(l, p) ELSE g.next[m]
               /\ h.prev[m] = IF m = l[p] THEN NIL
                       ELSE IF m = FollowPlace(l, p) THEN BeforePlace(l, p) ELSE g.prev[m]
               /\ h.parent[m] = IF m = l[p] THEN NIL ELSE g.parent[m]
               /\ h.what[m] = IF m = l[p] THEN Free ELSE g.what[m]
    BY <2>1, <1>4, <1>5, <1>8, <1>9, <1>11, CellsType
  <2>3. ASSUME NEW d \in Elements
        PROVE  /\ h.head[d] = IF d = e /\ p = 1 THEN FollowPlace(l, p) ELSE g.head[d]
               /\ h.tail[d] = IF d = e /\ p = Len(l) THEN BeforePlace(l, p) ELSE g.tail[d]
    BY <1>5, <1>8, <1>9, <1>11
  <2>4. QED
    BY <2>2, <2>3 DEF Erased
<1>13. QED
  BY <1>4, <1>6, <1>11, <1>12

\* erase_impl keeps every list a list.
LEMMA EraseImpl ==
    ASSUME NEW g, Good(g), NEW e \in Elements, NEW n \in Nodes, g.parent[n] = e
    PROVE  LET h == erase_impl(g, e, n)
           IN  /\ Good(h) /\ SameElse(g, h, {e})
               /\ \A m \in Nodes : m # n => h.parent[m] = g.parent[m] /\ h.what[m] = g.what[m]
<1> DEFINE h == erase_impl(g, e, n)
<1>1. PICK l : IsList(g, e, l)
  BY DEF Good
<1>2. PICK p \in 1 .. Len(l) : l[p] = n /\ h \in Heaps /\ Erased(g, h, e, l, p)
  BY <1>1, ErasePlace
<1> HIDE DEF h
<1>3. Good(h) /\ SameElse(g, h, {e})
  BY <1>1, <1>2, ErasedGood
<1>4. QED
  BY <1>2, <1>3 DEF Erased, h

\* The chain of a list is the list.
LEMMA ChainOfList ==
    ASSUME NEW h, NEW e \in Elements, NEW l, IsList(h, e, l)
    PROVE  Chain(h, h.head[e]) = l
<1>1. l \in Seq(Nodes) /\ Len(l) \in Nat
  BY DEF IsList, Linked
<1>2. CASE l = <<>>
  BY <1>2, ChainOfNothing DEF IsList
<1>3. CASE l # <<>>
  <2>1. Len(l) # 0
    BY <1>1, <1>3, EmptySeq
  <2>2. QED
    BY <1>3, <2>1, ChainIsList DEF IsList
<1>4. QED
  BY <1>2, <1>3

\* basic_node_list::clear
LEMMA ClearGood ==
    ASSUME NEW g, Good(g), NEW e \in Elements
    PROVE  LET h == clear(g, e)
           IN  /\ Good(h)
               /\ \A m \in Nodes :
                    /\ h.parent[m] = IF g.parent[m] = e THEN NIL ELSE g.parent[m]
                    /\ g.parent[m] # e => h.what[m] = g.what[m] /\ h.next[m] = g.next[m]
               /\ \A d \in Elements : d # e => h.head[d] = g.head[d]
               /\ IsList(h, e, <<>>) /\ SameElse(g, h, {e})
               /\ \A m \in Nodes : g.parent[m] = e => h.what[m] = Free
<1> DEFINE r == Delete(g, g.head[e])
           h == clear(g, e)
<1>1. PICK l : IsList(g, e, l)
  BY DEF Good
<1>2. g \in Heaps /\ e # NIL /\ l \in Seq(Nodes) /\ Linked(g, l)
  BY <1>1, CellsType DEF Good, IsList, Linked
<1>3. /\ r \in Heaps /\ r.head = g.head /\ r.tail = g.tail
      /\ \A m \in Nodes :
            IF g.parent[m] = e
            THEN /\ r.next[m] = NIL /\ r.prev[m] = NIL /\ r.parent[m] = NIL
                 /\ r.what[m] = Free
            ELSE /\ r.next[m] = g.next[m] /\ r.prev[m] = g.prev[m]
                 /\ r.parent[m] = g.parent[m] /\ r.what[m] = g.what[m]
  <2>1. CASE l = <<>>
    <3>1. g.head[e] = NIL /\ \A m \in Nodes : g.parent[m] # e
      BY <2>1, <1>1 DEF IsList
    <3>2. r = g
      BY <3>1 DEF Delete
    <3> HIDE DEF r
    <3>3. QED
      BY <3>1, <3>2, <1>2
  <2>2. CASE l # <<>>
    <3>1. g.head[e] = l[1]
      BY <2>2, <1>1, <1>2, EmptySeq DEF IsList
    <3>2. \A m \in Nodes : (\E i \in 1 .. Len(l) : l[i] = m) <=> g.parent[m] = e
      BY <1>1 DEF IsList
    <3>3. /\ r \in Heaps /\ r.head = g.head /\ r.tail = g.tail
          /\ \A m \in Nodes :
               IF \E i \in 1 .. Len(l) : l[i] = m
               THEN /\ r.next[m] = NIL /\ r.prev[m] = NIL /\ r.parent[m] = NIL
                    /\ r.what[m] = Free
               ELSE /\ r.next[m] = g.next[m] /\ r.prev[m] = g.prev[m]
                    /\ r.parent[m] = g.parent[m] /\ r.what[m] = g.what[m]
      BY <2>2, <3>1, <1>2, DeleteWrites
    <3> HIDE DEF r
    <3>4. QED
      BY <3>2, <3>3
  <2>3. QED
    BY <2>1, <2>2
<1>4. h = [r EXCEPT !.head[e] = NIL, !.tail[e] = NIL]
  BY DEF clear
<1> HIDE DEF r, h
<1>5. /\ h \in Heaps /\ h.next = r.next /\ h.prev = r.prev /\ h.parent = r.parent
      /\ h.what = r.what
      /\ \A d \in Elements : /\ h.head[d] = IF d = e THEN NIL ELSE g.head[d]
                             /\ h.tail[d] = IF d = e THEN NIL ELSE g.tail[d]
  BY <1>3, <1>4 DEF Heaps, Pointer
<1>e. IsList(h, e, <<>>)
  <2> DEFINE k == <<>>
  <2>1. Linked(h, k) /\ Len(k) = 0
    BY DEF Linked
  <2>2. \A m \in Nodes : h.parent[m] # e
    BY <1>2, <1>3, <1>5
  <2>3. QED
    BY <2>1, <2>2, <1>5 DEF IsList
<1>s. ASSUME NEW d \in Elements \ {e}, NEW k, IsList(g, d, k) PROVE IsList(h, d, k)
  <2>1. d # NIL
    BY CellsType
  <2>2. QED
    BY <2>1, <1>s, <1>3, <1>5, OtherList
<1>6. \A d \in Elements : \E k : IsList(h, d, k)
  BY <1>e, <1>s DEF Good
<1>7. ASSUME NEW m \in Nodes PROVE CellOK(h, m)
  <2>1. CASE g.parent[m] = e
    BY <2>1, <1>3, <1>5 DEF CellOK, Free
  <2>2. CASE g.parent[m] # e
    BY <2>2, <1>3, <1>5 DEF CellOK, Good
  <2>3. QED
    BY <2>1, <2>2
<1>8. Good(h)
  BY <1>5, <1>6, <1>7 DEF Good
<1>9. SameElse(g, h, {e})
  BY <1>s DEF SameElse
<1>10. QED
  BY <1>3, <1>5, <1>8, <1>9, <1>e DEF h

\* basic_node_list::swap
LEMMA SwapGood ==
    ASSUME NEW g, Good(g), NEW d \in Elements, NEW e \in Elements, d # e
    PROVE  LET h == swap(g, d, e)
           IN  /\ Good(h) /\ SameElse(g, h, {d, e}) /\ h.what = g.what
               /\ \A l : IsList(g, d, l) => IsList(h, e, l)
               /\ \A l : IsList(g, e, l) => IsList(h, d, l)
<1> DEFINE h1 == [g EXCEPT !.head[d] = g.head[e], !.head[e] = g.head[d],
                           !.tail[d] = g.tail[e], !.tail[e] = g.tail[d]]
           own(x) == ToSet(Chain(h1, h1.head[x]))
           parent == [n \in Nodes |-> IF n \in own(e) THEN e
                                      ELSE IF n \in own(d) THEN d ELSE h1.parent[n]]
           h == swap(g, d, e)
<1>1. PICK l, k : IsList(g, d, l) /\ IsList(g, e, k)
  BY DEF Good
<1>2. g \in Heaps /\ d # NIL /\ e # NIL /\ l \in Seq(Nodes) /\ k \in Seq(Nodes)
  BY <1>1, CellsType DEF Good, IsList, Linked
<1>3. /\ h1 \in Heaps /\ h1.next = g.next /\ h1.prev = g.prev /\ h1.parent = g.parent
      /\ h1.what = g.what
      /\ \A x \in Elements :
           /\ h1.head[x] = IF x = d THEN g.head[e] ELSE IF x = e THEN g.head[d] ELSE g.head[x]
           /\ h1.tail[x] = IF x = d THEN g.tail[e] ELSE IF x = e THEN g.tail[d] ELSE g.tail[x]
  BY <1>2 DEF Heaps
<1>4. h = [h1 EXCEPT !.parent = parent]
  BY Zenon DEF swap
<1> HIDE DEF h1, h
<1>5. Chain(h1, h1.head[e]) = l
  <2>1. Linked(h1, l) /\ h1.head[e] = g.head[d]
    BY <1>1, <1>3 DEF IsList, Linked
  <2>2. CASE l = <<>>
    BY <2>1, <2>2, <1>1, ChainOfNothing DEF IsList
  <2>3. CASE l # <<>>
    <3>1. g.head[d] = l[1]
      BY <2>3, <1>1, <1>2, EmptySeq DEF IsList
    <3>2. QED
      BY <3>1, <2>1, <2>3, ChainIsList
  <2>4. QED
    BY <2>2, <2>3
<1>6. Chain(h1, h1.head[d]) = k
  <2>1. Linked(h1, k) /\ h1.head[d] = g.head[e]
    BY <1>1, <1>3 DEF IsList, Linked
  <2>2. CASE k = <<>>
    BY <2>1, <2>2, <1>1, ChainOfNothing DEF IsList
  <2>3. CASE k # <<>>
    <3>1. g.head[e] = k[1]
      BY <2>3, <1>1, <1>2, EmptySeq DEF IsList
    <3>2. QED
      BY <3>1, <2>1, <2>3, ChainIsList
  <2>4. QED
    BY <2>2, <2>3
<1>7. \A m \in Nodes : (m \in own(e) <=> g.parent[m] = d) /\ (m \in own(d) <=> g.parent[m] = e)
  <2>1. own(e) = {l[i] : i \in 1 .. Len(l)} /\ own(d) = {k[i] : i \in 1 .. Len(k)}
    BY <1>2, <1>5, <1>6 DEF ToSet
  <2> HIDE DEF own
  <2>2. ASSUME NEW m \in Nodes
        PROVE  /\ (\E i \in 1 .. Len(l) : l[i] = m) <=> g.parent[m] = d
               /\ (\E i \in 1 .. Len(k) : k[i] = m) <=> g.parent[m] = e
    BY <1>1 DEF IsList
  <2>3. QED
    BY <2>1, <2>2
<1> HIDE DEF own
<1>8. /\ parent \in [Nodes -> Owner]
      /\ \A m \in Nodes : parent[m] = IF g.parent[m] = d THEN e
                                      ELSE IF g.parent[m] = e THEN d ELSE g.parent[m]
  BY <1>2, <1>3, <1>7 DEF Heaps, Owner
<1> HIDE DEF parent
<1>9. /\ h \in Heaps /\ h.head = h1.head /\ h.tail = h1.tail /\ h.next = g.next
      /\ h.prev = g.prev /\ h.what = g.what /\ h.parent = parent
  BY <1>3, <1>4, <1>8 DEF Heaps
<1>10. IsList(h, e, l) /\ IsList(h, d, k)
  <2>1. IsList(h, e, l)
    <3>1. \A i \in 1 .. Len(l) : l[i] \in Nodes /\ g.parent[l[i]] = d
      BY <1>1, <1>2, ElementOfSeq DEF IsList
    <3>2. \A i \in 1 .. Len(l) : h.parent[l[i]] = e
      BY <3>1, <1>8, <1>9
    <3>3. \A m \in Nodes : h.parent[m] = e => g.parent[m] = d
      BY <1>8, <1>9
    <3>4. Linked(h, l)
      BY <1>1, <1>9 DEF IsList, Linked
    <3>5. QED
      BY <3>2, <3>3, <3>4, <1>1, <1>3, <1>9 DEF IsList
  <2>2. IsList(h, d, k)
    <3>1. \A i \in 1 .. Len(k) : k[i] \in Nodes /\ g.parent[k[i]] = e
      BY <1>1, <1>2, ElementOfSeq DEF IsList
    <3>2. \A i \in 1 .. Len(k) : h.parent[k[i]] = d
      BY <3>1, <1>8, <1>9
    <3>3. \A m \in Nodes : h.parent[m] = d => g.parent[m] = e
      BY <1>8, <1>9
    <3>4. Linked(h, k)
      BY <1>1, <1>9 DEF IsList, Linked
    <3>5. QED
      BY <3>2, <3>3, <3>4, <1>1, <1>3, <1>9 DEF IsList
  <2>3. QED
    BY <2>1, <2>2
<1>s. SameElse(g, h, {d, e})
  <2> SUFFICES ASSUME NEW x \in Elements \ {d, e}, NEW s, IsList(g, x, s) PROVE IsList(h, x, s)
    BY DEF SameElse
  <2>1. x # NIL
    BY CellsType
  <2>2. QED
    BY <2>1, <1>3, <1>8, <1>9, OtherList
<1>11. ASSUME NEW x \in Elements PROVE \E s : IsList(h, x, s)
  BY <1>s, <1>10 DEF SameElse, Good
<1>t. /\ \A s : IsList(g, d, s) => s = l
      /\ \A s : IsList(g, e, s) => s = k
  BY <1>1, ChainOfList
<1>12. ASSUME NEW m \in Nodes PROVE CellOK(h, m)
  BY <1>2, <1>8, <1>9 DEF CellOK, Good
<1>13. Good(h)
  BY <1>9, <1>11, <1>12 DEF Good
<1>14. QED
  BY <1>9, <1>10, <1>13, <1>s, <1>t DEF h

-----------------------------------------------------------------------------
(* Iterators *)

\* n is null or a child of e.
OnList(h, e, n) == n = NIL \/ (n \in Nodes /\ h.parent[n] = e)

Iterators == [list : Elements, cur : Pointer, atEnd : BOOLEAN, elem : BOOLEAN]
IterOK(h, i) == i \in Iterators /\ OnList(h, i.list, i.cur)

\* Following a pointer does not leave the list.
LEMMA PointersStay ==
    ASSUME NEW h, Good(h), NEW e \in Elements
    PROVE  /\ OnList(h, e, h.head[e]) /\ OnList(h, e, h.tail[e])
           /\ \A n \in Nodes : h.parent[n] = e => OnList(h, e, h.next[n]) /\ OnList(h, e, h.prev[n])
<1>1. PICK l : IsList(h, e, l)
  BY DEF Good
<1>2. Len(l) \in Nat /\ \A i \in 1 .. Len(l) : l[i] \in Nodes /\ h.parent[l[i]] = e
  BY <1>1, ElementOfSeq DEF IsList, Linked
<1>3. OnList(h, e, h.head[e]) /\ OnList(h, e, h.tail[e])
  BY <1>1, <1>2 DEF IsList, OnList
<1>4. ASSUME NEW n \in Nodes, h.parent[n] = e
      PROVE  OnList(h, e, h.next[n]) /\ OnList(h, e, h.prev[n])
  <2>1. PICK i \in 1 .. Len(l) : l[i] = n
    BY <1>1, <1>4 DEF IsList
  <2>2. /\ h.next[n] = IF i = Len(l) THEN NIL ELSE l[i + 1]
        /\ h.prev[n] = IF i = 1 THEN NIL ELSE l[i - 1]
    BY <2>1, <1>1 DEF IsList, Linked
  <2>3. (i # Len(l) => i + 1 \in 1 .. Len(l)) /\ (i # 1 => i - 1 \in 1 .. Len(l))
    BY <1>2
  <2>4. QED
    BY <2>2, <2>3, <1>2 DEF OnList
<1>5. QED
  BY <1>3, <1>4

\* The smallest of a set of naturals is one of them.
LEMMA MinIsIn ==
    ASSUME NEW S \in SUBSET Nat, S # {}
    PROVE  Min(S) \in S
<1>1. PICK x \in S : \A y \in S : ~ (<<y, x>> \in OpToRel(<, Nat))
  BY NatLessThanWellFounded, WFMin
<1>2. ASSUME NEW y \in S PROVE x <= y
  <2>1. x \in Nat /\ y \in Nat
    OBVIOUS
  <2>2. y < x => <<y, x>> \in OpToRel(<, Nat)
    BY <2>1 DEF OpToRel
  <2>3. ~ (y < x)
    BY <1>1, <2>2, Zenon
  <2>4. QED
    BY <2>1, <2>3
<1>3. QED
  BY <1>2 DEF Min

\* skip: going on to the next element stays on the list.
LEMMA RestStays ==
    ASSUME NEW h, Good(h), NEW e \in Elements, NEW n, OnList(h, e, n), NEW elem
    PROVE  OnList(h, e, Rest(h, n, elem))
<1>1. OnList(h, e, skip(h, n))
  <2> DEFINE s == Chain(h, n)
             ok == {i \in DOMAIN s : IsElement(h, s[i])}
  <2>1. skip(h, n) = IF ok = {} THEN NIL ELSE s[Min(ok)]
    BY DEF skip
  <2>2. s \in Seq(Nodes) /\ \A j \in 1 .. Len(s) : h.parent[s[j]] = e
    <3>1. CASE n = NIL
      <4>1. s = <<>>
        BY <3>1, ChainOfNothing
      <4> HIDE DEF s
      <4>2. QED
        BY <4>1
    <3>2. CASE n # NIL
      <4>1. PICK l : IsList(h, e, l)
        BY DEF Good
      <4>2. PICK i \in 1 .. Len(l) : l[i] = n
        BY <3>2, <4>1 DEF IsList, OnList
      <4>3. /\ s \in Seq(Nodes) /\ Len(s) = Len(l) - i + 1
            /\ \A j \in 1 .. Len(l) - i + 1 : s[j] = l[i + j - 1]
        <5>1. Linked(h, l)
          BY <4>1 DEF IsList
        <5> DEFINE c == Chain(h, l[i])
        <5>2. /\ c \in Seq(Nodes) /\ Len(c) = Len(l) - i + 1
              /\ \A j \in 1 .. Len(l) - i + 1 : c[j] = l[i + j - 1]
          BY <5>1, ChainFrom
        <5>3. s = c
          BY <4>2
        <5> HIDE DEF s, c
        <5>4. QED
          BY <5>2, <5>3
      <4>4. Len(l) \in Nat /\ \A j \in 1 .. Len(l) - i + 1 : i + j - 1 \in 1 .. Len(l)
        BY <4>1 DEF IsList, Linked
      <4>5. \A j \in 1 .. Len(l) : h.parent[l[j]] = e
        BY <4>1 DEF IsList
      <4> HIDE DEF s
      <4>6. QED
        BY <4>3, <4>4, <4>5
    <3>3. QED
      BY <3>1, <3>2
  <2> HIDE DEF s
  <2>3. ok \subseteq Nat /\ ok \subseteq 1 .. Len(s)
    BY <2>2
  <2>4. ok # {} => Min(ok) \in ok
    BY <2>3, MinIsIn
  <2> HIDE DEF ok
  <2>5. QED
    BY <2>1, <2>2, <2>3, <2>4, ElementOfSeq DEF OnList
<1>2. QED
  BY <1>1 DEF Rest

\* An iterator made of a node of a list is on that list.
LEMMA MadeOK ==
    ASSUME NEW h, NEW e \in Elements, NEW n, OnList(h, e, n), NEW elem \in BOOLEAN
    PROVE  IterOK(h, Made(e, n, elem)) /\ IterOK(h, FromCell(e, n, elem))
<1>1. n \in Pointer
  BY DEF OnList, Pointer
<1>2. (n = NIL) \in BOOLEAN
  OBVIOUS
<1>3. Made(e, n, elem) \in Iterators /\ FromCell(e, n, elem) \in Iterators
  BY <1>1, <1>2, Zenon DEF Made, FromCell, Iterators
<1>4. QED
  BY <1>3 DEF IterOK, Made, FromCell

\* iterator_impl::operator++ stays on the list.
LEMMA IncrementedOK ==
    ASSUME NEW h, Good(h), NEW i, IterOK(h, i)
    PROVE  IterOK(h, Incremented(h, i)) /\ Incremented(h, i).list = i.list
<1> DEFINE n == IF ~i.atEnd /\ i.cur = NIL THEN h.head[i.list]
                ELSE IF i.cur # NIL THEN Rest(h, h.next[i.cur], i.elem) ELSE NIL
<1>1. i.list \in Elements /\ OnList(h, i.list, i.cur) /\ i.elem \in BOOLEAN
  BY Zenon DEF IterOK, Iterators
<1>2. OnList(h, i.list, h.head[i.list])
  BY <1>1, PointersStay
<1>3. i.cur # NIL => OnList(h, i.list, h.next[i.cur])
  BY <1>1, PointersStay DEF OnList
<1>4. OnList(h, i.list, NIL)
  BY DEF OnList
<1>5. i.cur # NIL => OnList(h, i.list, Rest(h, h.next[i.cur], i.elem))
  BY <1>1, <1>3, RestStays
<1>6. OnList(h, i.list, n)
  BY <1>2, <1>4, <1>5
<1>7. Incremented(h, i) = Made(i.list, n, i.elem)
  BY DEF Incremented
<1> HIDE DEF n
<1>8. IterOK(h, Incremented(h, i))
  BY <1>1, <1>6, <1>7, MadeOK
<1>9. QED
  BY <1>7, <1>8 DEF Made

BackTurn(h, i, k, c) == IF c = NIL \/ (k > 1 /\ (i.elem => IsElement(h, c))) THEN c
                        ELSE h.prev[c]

\* The cells the loop of iterator_impl::operator-- comes to, and where it ends.
BackRun(h, i, f) ==
    /\ f[0] = i.cur
    /\ \A k \in 1 .. N : f[k] = BackTurn(h, i, k, f[k - 1])
    /\ Decremented(h, i) = IF i.atEnd THEN [i EXCEPT !.cur = h.tail[i.list], !.atEnd = FALSE]
                           ELSE [i EXCEPT !.cur = f[N]]

\* There are such cells.
LEMMA BackLoop ==
    ASSUME NEW h, Good(h), NEW i, IterOK(h, i)
    PROVE  \E f : BackRun(h, i, f)
<1> DEFINE body(w) == [k \in 0 .. N |-> IF k = 0 THEN i.cur
                         ELSE LET c == w[k - 1]
                              IN  IF c = NIL \/ (k > 1 /\ (i.elem => IsElement(h, c))) THEN c
                                  ELSE h.prev[c]]
           back == CHOOSE w : w = body(w)
           P == {n \in Pointer : OnList(h, i.list, n)}
           Back(k, c) == BackTurn(h, i, k, c)
           S == [k \in 0 .. N |-> P]
           step == [k \in 1 .. N |-> [c \in P |-> Back(k, c)]]
<1>1. /\ i.list \in Elements /\ OnList(h, i.list, i.cur) /\ i.elem \in BOOLEAN
      /\ i.atEnd \in BOOLEAN /\ i.cur \in Pointer
  BY Zenon DEF IterOK, Iterators
<1>2. \A c \in P : c # NIL => OnList(h, i.list, h.prev[c]) /\ h.prev[c] \in Pointer
  BY <1>1, PointersStay DEF OnList, Good, Heaps
<1>3. i.cur \in P
  BY <1>1
<1> HIDE DEF P
<1>4. \A k \in 1 .. N, c \in P : Back(k, c) \in P
  BY <1>2 DEF P, BackTurn
<1> HIDE DEF Back
<1>5. \A k \in 0 .. N : S[k] = P
  OBVIOUS
<1>6. \A k \in 1 .. N : \A c \in P : step[k][c] = Back(k, c)
  OBVIOUS
<1> HIDE DEF S, step
<1>7. Steps(N, S, i.cur, step)
  <2>1. 0 \in 0 .. N /\ \A k \in 1 .. N : k - 1 \in 0 .. N /\ k \in 0 .. N
    BY CellsType
  <2>2. i.cur \in S[0]
    BY <2>1, <1>3, <1>5
  <2>3. ASSUME NEW k \in 1 .. N, NEW c \in S[k - 1] PROVE step[k][c] \in S[k]
    <3>1. c \in P /\ S[k] = P
      BY <2>1, <1>5
    <3>2. QED
      BY <3>1, <1>4, <1>6
  <2>4. QED
    BY <2>2, <2>3 DEF Steps
<1>8. PICK f : Runs(f, N, S, i.cur, step)
  BY <1>7, CellsType, Recursion
<1>9. \A k \in 1 .. N : f[k] = Back(k, f[k - 1])
  <2>1. \A k \in 1 .. N : k - 1 \in 0 .. N
    BY CellsType
  <2>2. QED
    BY <2>1, <1>5, <1>6, <1>8 DEF Runs
<1>10. \A w : /\ body(w) = [k \in 0 .. N |-> body(w)[k]]
              /\ body(w)[0] = i.cur
              /\ \A k \in 1 .. N : body(w)[k] = Back(k, w[k - 1])
  BY CellsType DEF Back, BackTurn
<1> HIDE DEF body
<1>11. f = body(f)
  <2>1. \A k \in 0 .. N : f[k] = body(f)[k]
    <3>1. \A k \in 0 .. N : k = 0 \/ k \in 1 .. N
      BY CellsType
    <3>2. QED
      BY <3>1, <1>8, <1>9, <1>10 DEF Runs
  <2>2. QED
    BY <2>1, <1>8, <1>10 DEF Runs
<1>12. back = body(back)
  BY <1>11
<1> HIDE DEF back
<1>13. Decremented(h, i) = IF i.atEnd THEN [i EXCEPT !.cur = h.tail[i.list], !.atEnd = FALSE]
                           ELSE [i EXCEPT !.cur = back[N]]
  BY DEF Decremented, back, body
<1>14. back[0] = i.cur /\ \A k \in 1 .. N : back[k] = BackTurn(h, i, k, back[k - 1])
  BY <1>10, <1>12 DEF Back
<1>15. BackRun(h, i, back)
  BY <1>13, <1>14 DEF BackRun
<1>16. QED
  BY <1>15

\* iterator_impl::operator-- stays on the list.
LEMMA DecrementedOK ==
    ASSUME NEW h, Good(h), NEW i, IterOK(h, i)
    PROVE  IterOK(h, Decremented(h, i))
<1> DEFINE P == {n \in Pointer : OnList(h, i.list, n)}
           S == [k \in 0 .. N |-> P]
<1>1. /\ i.list \in Elements /\ OnList(h, i.list, i.cur) /\ i.elem \in BOOLEAN
      /\ i.atEnd \in BOOLEAN /\ i.cur \in Pointer
  BY Zenon DEF IterOK, Iterators
<1>2. \A c \in P : c # NIL => OnList(h, i.list, h.prev[c]) /\ h.prev[c] \in Pointer
  BY <1>1, PointersStay DEF OnList, Good, Heaps
<1>3. \A k \in 1 .. N, c \in P : BackTurn(h, i, k, c) \in P
  BY <1>2 DEF BackTurn
<1>4. i.cur \in P
  BY <1>1
<1>0. PICK back : BackRun(h, i, back)
  BY BackLoop
<1>5. /\ back[0] = i.cur
      /\ \A k \in 1 .. N : back[k] = BackTurn(h, i, k, back[k - 1])
      /\ Decremented(h, i) = IF i.atEnd THEN [i EXCEPT !.cur = h.tail[i.list], !.atEnd = FALSE]
                             ELSE [i EXCEPT !.cur = back[N]]
  BY <1>0 DEF BackRun
<1> HIDE DEF P
<1>6. \A k \in 0 .. N : S[k] = P
  OBVIOUS
<1> HIDE DEF S
<1>13. \A k \in 0 .. N : back[k] \in S[k]
  <2>1. back[0] \in S[0]
    BY <1>4, <1>5, <1>6, CellsType
  <2>2. ASSUME NEW k \in 1 .. N, back[k - 1] \in S[k - 1] PROVE back[k] \in S[k]
    <3>1. k - 1 \in 0 .. N /\ k \in 0 .. N
      BY CellsType
    <3>2. back[k] = BackTurn(h, i, k, back[k - 1])
      BY <1>5
    <3>3. QED
      BY <2>2, <3>1, <3>2, <1>3, <1>6
  <2>3. QED
    BY <2>1, <2>2, CellsType, UpTo
<1>14. back[N] \in P
  BY <1>6, <1>13, CellsType
<1>16. h.tail[i.list] \in Pointer /\ OnList(h, i.list, h.tail[i.list])
  BY <1>1, PointersStay DEF Good, Heaps
<1>17. back[N] \in Pointer /\ OnList(h, i.list, back[N])
  BY <1>14 DEF P
<1>18. CASE i.atEnd
  <2> DEFINE r == [i EXCEPT !.cur = h.tail[i.list], !.atEnd = FALSE]
  <2>1. r \in Iterators /\ r.list = i.list /\ r.cur = h.tail[i.list]
    BY <1>1, <1>16 DEF IterOK, Iterators
  <2>2. QED
    BY <2>1, <1>5, <1>16, <1>18 DEF IterOK
<1>19. CASE ~ i.atEnd
  <2> DEFINE r == [i EXCEPT !.cur = back[N]]
  <2>1. r \in Iterators /\ r.list = i.list /\ r.cur = back[N]
    BY <1>1, <1>17 DEF IterOK, Iterators
  <2>2. QED
    BY <2>1, <1>5, <1>17, <1>19 DEF IterOK
<1>20. QED
  BY <1>18, <1>19

\* What follows a cell does not come back to it.
LEMMA RestPasses ==
    ASSUME NEW h, Good(h), NEW e \in Elements, NEW n \in Nodes, h.parent[n] = e, NEW elem
    PROVE  /\ h.next[n] # n /\ Rest(h, h.next[n], elem) # n
           /\ n # h.tail[e] => h.next[n] # NIL
<1>1. PICK l : IsList(h, e, l)
  BY DEF Good
<1> DEFINE L == Len(l)
<1>2. /\ L \in Nat
      /\ \A i \in 1 .. L : l[i] \in Nodes /\ l[i] # NIL
      /\ \A i, j \in 1 .. L : l[i] = l[j] => i = j
      /\ \A i \in 1 .. L : h.next[l[i]] = IF i = L THEN NIL ELSE l[i + 1]
      /\ Linked(h, l) /\ (L # 0 => h.tail[e] = l[L])
  BY <1>1, ElementOfSeq, CellsType DEF IsList, Linked
<1>3. PICK p \in 1 .. L : l[p] = n
  BY <1>1 DEF IsList
<1>4. p # L => p + 1 \in 1 .. L /\ p + 1 # p /\ h.next[n] = l[p + 1]
  BY <1>2, <1>3
<1>5. p = L => h.next[n] = NIL /\ n = h.tail[e]
  BY <1>2, <1>3
<1>6. h.next[n] # n /\ (n # h.tail[e] => h.next[n] # NIL)
  BY <1>2, <1>3, <1>4, <1>5
<1>7. n # NIL
  BY CellsType
<1>8. skip(h, h.next[n]) # n
  <2> DEFINE s == Chain(h, h.next[n])
             ok == {i \in DOMAIN s : IsElement(h, s[i])}
  <2>1. skip(h, h.next[n]) = IF ok = {} THEN NIL ELSE s[Min(ok)]
    BY DEF skip
  <2>2. s \in Seq(Nodes) /\ \A j \in 1 .. Len(s) : s[j] # n
    <3>1. CASE p = L
      <4>1. s = <<>>
        BY <3>1, <1>5, ChainOfNothing
      <4> HIDE DEF s
      <4>2. QED
        BY <4>1
    <3>2. CASE p # L
      <4> DEFINE q == p + 1
      <4>1. q \in 1 .. L /\ h.next[n] = l[q] /\ q > p
        BY <3>2, <1>2, <1>4
      <4> HIDE DEF q
      <4>2. /\ s \in Seq(Nodes) /\ Len(s) = L - q + 1
            /\ \A j \in 1 .. L - q + 1 : s[j] = l[q + j - 1]
        BY <4>1, <1>2, ChainFrom
      <4> HIDE DEF s
      <4>3. ASSUME NEW j \in 1 .. L - q + 1 PROVE s[j] # n
        <5>1. q + j - 1 \in 1 .. L /\ q + j - 1 # p
          BY <4>1, <1>2
        <5>2. QED
          BY <5>1, <4>2, <1>2, <1>3
      <4>4. QED
        BY <4>2, <4>3
    <3>3. QED
      BY <3>1, <3>2
  <2> HIDE DEF s
  <2>3. ok \subseteq Nat /\ ok \subseteq 1 .. Len(s)
    BY <2>2
  <2>4. ok # {} => Min(ok) \in ok
    BY <2>3, MinIsIn
  <2> HIDE DEF ok
  <2>5. QED
    BY <2>1, <2>2, <2>3, <2>4, <1>7
<1>9. QED
  BY <1>6, <1>8 DEF Rest

\* An erasure leaves what is on a list on it, except the cell it erases.
LEMMA EraseKeeps ==
    ASSUME NEW g, Good(g), NEW e \in Elements, NEW n \in Nodes, g.parent[n] = e,
           NEW m, OnList(g, e, m), m # n
    PROVE  OnList(erase_impl(g, e, n), e, m)
BY EraseImpl DEF OnList

\* Writing the text of a cell that is in use.
LEMMA TextGood ==
    ASSUME NEW g, Good(g), NEW n \in Nodes, g.what[n].kind # "free", NEW t \in Seq(STRING)
    PROVE  LET h == [g EXCEPT !.what[n].text = t]
           IN  /\ Good(h) /\ SameElse(g, h, {})
               /\ h.parent = g.parent /\ h.next = g.next
               /\ \A m \in Nodes :
                    h.what[m] = IF m = n THEN [g.what[n] EXCEPT !.text = t] ELSE g.what[m]
<1> DEFINE h == [g EXCEPT !.what[n].text = t]
<1>1. g \in Heaps /\ g.what \in [Nodes -> Cells] /\ g.what[n] \in Cells
  BY DEF Good, Heaps
<1>2. [g.what[n] EXCEPT !.text = t] \in Cells /\ [g.what[n] EXCEPT !.text = t].kind # "free"
  BY <1>1 DEF Cells
<1>3. /\ h \in Heaps /\ h.parent = g.parent /\ h.next = g.next /\ h.prev = g.prev
      /\ h.head = g.head /\ h.tail = g.tail
      /\ \A m \in Nodes : h.what[m] = IF m = n THEN [g.what[n] EXCEPT !.text = t] ELSE g.what[m]
  <2> DEFINE w == [g.what[n] EXCEPT !.text = t]
  <2>1. h = [g EXCEPT !.what = [g.what EXCEPT ![n] = w]]
    OBVIOUS
  <2>2. w \in Cells
    BY <1>2
  <2> HIDE DEF h, w
  <2>3. /\ h \in Heaps /\ h.parent = g.parent /\ h.next = g.next /\ h.prev = g.prev
        /\ h.head = g.head /\ h.tail = g.tail
        /\ \A m \in Nodes : h.what[m] = IF m = n THEN w ELSE g.what[m]
    BY <2>1, <2>2, <1>1 DEF Heaps
  <2>4. QED
    BY <2>3 DEF w
<1> HIDE DEF h
<1>s. SameElse(g, h, {})
  BY <1>3, OtherList DEF SameElse
<1>4. \A e \in Elements : \E l : IsList(h, e, l)
  BY <1>s DEF Good, SameElse
<1>5. ASSUME NEW m \in Nodes PROVE CellOK(h, m)
  <2>1. h.what[m].kind = "free" <=> g.what[m].kind = "free"
    BY <1>2, <1>3
  <2>2. QED
    BY <2>1, <1>3 DEF Good, CellOK
<1>6. Good(h)
  BY <1>3, <1>4, <1>5 DEF Good
<1>7. QED
  BY <1>3, <1>6, <1>s DEF h

-----------------------------------------------------------------------------
(* Memory *)

\* Where there is room there is a cell for a new node.
LEMMA FreshCell ==
    ASSUME NEW g, NEW k \in Nat \ {0}, Room(g, k)
    PROVE  Cell(g) \in Nodes /\ g.what[Cell(g)].kind = "free"
<1>1. IsFiniteSet(Fresh(g))
  BY CellsAreFinite, FS_Subset DEF Fresh
<1>2. Fresh(g) # {}
  BY <1>1, FS_EmptySet DEF Room
<1>3. QED
  BY <1>2 DEF Cell, Fresh

\* A cell that is handed out leaves room for one less.
LEMMA RoomAfter ==
    ASSUME NEW g, NEW h, NEW k \in Nat \ {0}, Room(g, k), NEW n \in Nodes,
           g.what[n].kind = "free", h.what[n].kind # "free",
           \A m \in Nodes : m # n => h.what[m] = g.what[m]
    PROVE  Room(h, k - 1)
<1>1. IsFiniteSet(Fresh(g)) /\ n \in Fresh(g)
  BY CellsAreFinite, FS_Subset DEF Fresh
<1>2. Fresh(h) = Fresh(g) \ {n}
  BY DEF Fresh
<1>3. Cardinality(Fresh(h)) = Cardinality(Fresh(g)) - 1
  BY <1>1, <1>2, FS_RemoveElement
<1>4. Cardinality(Fresh(g)) \in Nat
  BY <1>1, FS_CardinalityType
<1>5. QED
  BY <1>3, <1>4 DEF Room

\* A new cell at the end of a list or before one of its cells.
LEMMA NewCell ==
    ASSUME NEW g, Good(g), NEW e \in Elements, NEW k \in Nat \ {0}, Room(g, k),
           NEW w \in Cells, w.kind # "free", NEW pos, OnList(g, e, pos)
    PROVE  LET n == Cell(g)
               h == insert_impl(Construct(g, n, w), e, pos, n)
           IN  /\ Good(h) /\ Room(h, k - 1) /\ OnList(h, e, n)
               /\ \A m : OnList(g, e, m) => OnList(h, e, m)
<1> DEFINE n == Cell(g)
           h == insert_impl(Construct(g, n, w), e, pos, n)
<1>1. n \in Nodes /\ g.what[n].kind = "free" /\ g.parent[n] = NIL
  BY FreshCell DEF Good, CellOK
<1>2. pos \in Pointer /\ (pos # NIL => g.parent[pos] = e)
  BY DEF OnList, Pointer
<1> HIDE DEF n
<1>3. Gained(g, h, e, n, w)
  BY <1>1, <1>2, InsertImpl
<1> HIDE DEF h
<1>4. Room(h, k - 1)
  BY <1>1, <1>3, RoomAfter DEF Gained
<1>5. OnList(h, e, n) /\ \A m : OnList(g, e, m) => OnList(h, e, m)
  BY <1>1, <1>3 DEF OnList, Gained
<1>6. QED
  BY <1>3, <1>4, <1>5 DEF h, n, Gained

-----------------------------------------------------------------------------
(* The loops *)

\* A heap in order and an iterator over the children of e.
Turns(e) == {p \in Heaps \X Iterators : Good(p[1]) /\ IterOK(p[1], p[2]) /\ p[2].list = e}

\* The states a loop over a list goes through.
LEMMA TurnsAre ==
    ASSUME NEW e, NEW h, NEW i
    PROVE  <<h, i>> \in Turns(e) <=> Good(h) /\ IterOK(h, i) /\ i.list = e
BY DEF Turns, Good, IterOK

EraseTurn(e, p) ==
    IF p[2].cur = NIL THEN p
    ELSE <<erase_impl(p[1], e, p[2].cur), Incremented(p[1], p[2])>>

\* One turn of the loop that erases the elements.
LEMMA EraseTurnOK ==
    ASSUME NEW e \in Elements, NEW p \in Turns(e)
    PROVE  EraseTurn(e, p) \in Turns(e)
<1>1. PICK h, i : p = <<h, i>> /\ Good(h) /\ IterOK(h, i) /\ i.list = e
  BY DEF Turns
<1>2. CASE i.cur = NIL
  BY <1>1, <1>2 DEF EraseTurn
<1>3. CASE i.cur # NIL
  <2> DEFINE n == i.cur
             g == erase_impl(h, e, n)
             j == Incremented(h, i)
  <2>1. n \in Nodes /\ h.parent[n] = e
    BY <1>1, <1>3 DEF IterOK, OnList
  <2>2. Good(g)
    BY <2>1, <1>1, EraseImpl
  <2>3. j = Made(e, Rest(h, h.next[n], i.elem), i.elem)
    BY <1>1, <1>3 DEF Incremented
  <2>4. j.cur # n
    BY <2>1, <2>3, <1>1, RestPasses DEF Made
  <2>5. IterOK(h, j) /\ j.list = e
    BY <1>1, IncrementedOK
  <2>6. EraseTurn(e, p) = <<g, j>>
    BY <1>1, <1>3 DEF EraseTurn
  <2> HIDE DEF j
  <2>7. OnList(g, e, j.cur)
    BY <2>1, <2>4, <2>5, <1>1, EraseKeeps DEF IterOK
  <2> HIDE DEF g
  <2>8. IterOK(g, j)
    BY <2>5, <2>7 DEF IterOK
  <2>9. QED
    BY <2>2, <2>5, <2>6, <2>8, TurnsAre
<1>4. QED
  BY <1>2, <1>3

\* All its turns.
LEMMA EraseElementsLoop ==
    ASSUME Good(heap), NEW e \in Elements, EraseElements(e)
    PROVE  \E f : /\ f[0] = <<heap, Made(e, Rest(heap, heap.head[e], TRUE), TRUE)>>
                  /\ \A k \in 1 .. N : f[k] = EraseTurn(e, f[k - 1])
                  /\ \A k \in 0 .. N : f[k] \in Turns(e)
                  /\ heap' = f[N][1]
<1> DEFINE base == <<heap, Made(e, Rest(heap, heap.head[e], TRUE), TRUE)>>
           body(w) == [k \in 0 .. N |-> IF k = 0 THEN base
                         ELSE LET p == w[k - 1]
                              IN  IF p[2].cur = NIL THEN p
                                  ELSE <<erase_impl(p[1], e, p[2].cur), Incremented(p[1], p[2])>>]
           loop == CHOOSE w : w = body(w)
           S == [k \in 0 .. N |-> Turns(e)]
           step == [k \in 1 .. N |-> [p \in Turns(e) |-> EraseTurn(e, p)]]
<1>1. base \in Turns(e)
  <2>1. OnList(heap, e, Rest(heap, heap.head[e], TRUE))
    BY PointersStay, RestStays
  <2> DEFINE i == Made(e, Rest(heap, heap.head[e], TRUE), TRUE)
  <2>2. IterOK(heap, i)
    BY <2>1, MadeOK
  <2>3. i.list = e
    BY DEF Made
  <2> HIDE DEF i
  <2>4. <<heap, i>> \in Turns(e)
    BY <2>2, <2>3, TurnsAre
  <2>5. QED
    BY <2>4 DEF i
<1>2. heap' = loop[N][1]
  BY DEF EraseElements
<1> HIDE DEF base
<1>3. \A k \in 0 .. N : S[k] = Turns(e)
  OBVIOUS
<1>4. \A k \in 1 .. N : \A p \in Turns(e) : step[k][p] = EraseTurn(e, p)
  OBVIOUS
<1>5. \A w : /\ body(w) = [k \in 0 .. N |-> body(w)[k]]
             /\ body(w)[0] = base
             /\ \A k \in 1 .. N : body(w)[k] = EraseTurn(e, w[k - 1])
  <2> SUFFICES ASSUME NEW w
               PROVE  /\ body(w) = [k \in 0 .. N |-> body(w)[k]]
                      /\ body(w)[0] = base
                      /\ \A k \in 1 .. N : body(w)[k] = EraseTurn(e, w[k - 1])
    OBVIOUS
  <2>1. body(w) = [k \in 0 .. N |-> body(w)[k]]
    OBVIOUS
  <2>2. body(w)[0] = base
    BY CellsType
  <2>3. ASSUME NEW k \in 1 .. N PROVE body(w)[k] = EraseTurn(e, w[k - 1])
    <3>1. k \in 0 .. N /\ k # 0
      OBVIOUS
    <3>2. QED
      BY <3>1 DEF EraseTurn
  <2>4. QED
    BY <2>1, <2>2, <2>3
<1> HIDE DEF S, step, body
<1>6. 0 \in 0 .. N /\ N \in 0 .. N /\ \A k \in 1 .. N : k - 1 \in 0 .. N /\ k \in 0 .. N
  BY CellsType
<1>7. \A k \in 0 .. N : k = 0 \/ k \in 1 .. N
  BY CellsType
<1>8. Steps(N, S, base, step)
  BY <1>1, <1>3, <1>4, <1>6, EraseTurnOK DEF Steps
<1>9. PICK f : Runs(f, N, S, base, step)
  BY <1>8, CellsType, Recursion
<1>10. f = body(f)
  <2>1. f[0] = body(f)[0]
    BY <1>5, <1>9 DEF Runs
  <2>2. ASSUME NEW k \in 1 .. N PROVE f[k] = body(f)[k]
    <3>1. f[k - 1] \in Turns(e) /\ f[k] = step[k][f[k - 1]]
      BY <1>3, <1>6, <1>9 DEF Runs
    <3>2. QED
      BY <3>1, <1>4, <1>5
  <2>3. \A k \in 0 .. N : f[k] = body(f)[k]
    BY <2>1, <2>2, <1>7
  <2>4. QED
    BY <2>3, <1>5, <1>9 DEF Runs
<1>11. loop = body(loop)
  BY <1>10
<1> HIDE DEF loop
<1>12. \A k \in 0 .. N : loop[k] \in S[k]
  <2>1. loop[0] \in S[0]
    BY <1>1, <1>3, <1>5, <1>6, <1>11
  <2>2. ASSUME NEW k \in 1 .. N, loop[k - 1] \in S[k - 1] PROVE loop[k] \in S[k]
    BY <2>2, <1>3, <1>5, <1>6, <1>11, EraseTurnOK
  <2>3. QED
    BY <2>1, <2>2, CellsType, UpTo
<1>13. /\ loop[0] = base
       /\ \A k \in 1 .. N : loop[k] = EraseTurn(e, loop[k - 1])
       /\ \A k \in 0 .. N : loop[k] \in Turns(e)
  BY <1>3, <1>5, <1>11, <1>12
<1>14. QED
  BY <1>2, <1>13 DEF base

\* So erasing the elements keeps every list a list.
LEMMA EraseElementsGood ==
    ASSUME Good(heap), NEW e \in Elements, EraseElements(e)
    PROVE  Good(heap')
<1>1. PICK f : f[N] \in Turns(e) /\ heap' = f[N][1]
  <2>1. N \in 0 .. N
    BY CellsType
  <2>2. QED
    BY <2>1, EraseElementsLoop
<1>2. QED
  BY <1>1 DEF Turns

ContentTurn(e, p) ==
    IF p[2].cur = NIL THEN p
    ELSE IF IsText(p[1], p[2].cur)
         THEN <<erase_impl(p[1], e, p[2].cur),
                Incremented(erase_impl(p[1], e, p[2].cur),
                            FromCell(e, p[1].next[p[2].cur], FALSE))>>
         ELSE <<p[1], Incremented(p[1], p[2])>>

\* One turn of the loop of set_content, which erases the texts.
LEMMA ContentTurnOK ==
    ASSUME NEW e \in Elements, NEW p \in Turns(e)
    PROVE  ContentTurn(e, p) \in Turns(e)
<1>1. PICK h, i : p = <<h, i>> /\ Good(h) /\ IterOK(h, i) /\ i.list = e
  BY DEF Turns
<1>2. CASE i.cur = NIL
  BY <1>1, <1>2 DEF ContentTurn
<1>3. CASE i.cur # NIL /\ IsText(h, i.cur)
  <2> DEFINE n == i.cur
             g == erase_impl(h, e, n)
             b == FromCell(e, h.next[n], FALSE)
             j == Incremented(g, b)
  <2>1. n \in Nodes /\ h.parent[n] = e
    BY <1>1, <1>3 DEF IterOK, OnList
  <2>2. Good(g)
    BY <2>1, <1>1, EraseImpl
  <2>3. OnList(h, e, h.next[n]) /\ h.next[n] # n
    BY <2>1, <1>1, PointersStay, RestPasses
  <2>4. OnList(g, e, h.next[n])
    BY <2>1, <2>3, <1>1, EraseKeeps
  <2>5. ContentTurn(e, p) = <<g, j>>
    BY <1>1, <1>3 DEF ContentTurn
  <2> HIDE DEF g
  <2>6. IterOK(g, b) /\ b.list = e
    BY <2>4, MadeOK DEF FromCell
  <2> HIDE DEF b
  <2>7. IterOK(g, j) /\ j.list = e
    BY <2>2, <2>6, IncrementedOK
  <2> HIDE DEF j
  <2>8. QED
    BY <2>2, <2>5, <2>7, TurnsAre
<1>4. CASE i.cur # NIL /\ ~ IsText(h, i.cur)
  <2> DEFINE j == Incremented(h, i)
  <2>1. ContentTurn(e, p) = <<h, j>>
    BY <1>1, <1>4 DEF ContentTurn
  <2>2. IterOK(h, j) /\ j.list = e
    BY <1>1, IncrementedOK
  <2> HIDE DEF j
  <2>3. QED
    BY <2>1, <2>2, <1>1, TurnsAre
<1>5. QED
  BY <1>2, <1>3, <1>4

\* element::set_content
LEMMA SetContentLoop ==
    ASSUME Good(heap), NEW e \in Elements, NEW s, SetContent(e, s)
    PROVE  \E f : /\ f[0] = <<heap, Made(e, heap.head[e], FALSE)>>
                  /\ \A k \in 1 .. N : f[k] = ContentTurn(e, f[k - 1])
                  /\ \A k \in 0 .. N : f[k] \in Turns(e)
                  /\ Room(f[N][1], 1)
                  /\ heap' = insert_impl(Construct(f[N][1], Cell(f[N][1]),
                                                    [kind |-> "text", text |-> s]),
                                         e, NIL, Cell(f[N][1]))
<1> DEFINE base == <<heap, Made(e, heap.head[e], FALSE)>>
           body(w) == [k \in 0 .. N |-> IF k = 0 THEN base
                         ELSE LET p == w[k - 1]
                                  n == p[2].cur
                              IN  IF n = NIL THEN p
                                  ELSE IF IsText(p[1], n)
                                       THEN LET h == erase_impl(p[1], e, n)
                                            IN  <<h, Incremented(h, FromCell(e, p[1].next[n],
                                                                             FALSE))>>
                                       ELSE <<p[1], Incremented(p[1], p[2])>>]
           loop == CHOOSE w : w = body(w)
           S == [k \in 0 .. N |-> Turns(e)]
           step == [k \in 1 .. N |-> [p \in Turns(e) |-> ContentTurn(e, p)]]
           g == loop[N][1]
           w0 == [kind |-> "text", text |-> s]
<1>1. base \in Turns(e)
  <2>1. OnList(heap, e, heap.head[e])
    BY PointersStay
  <2> DEFINE i == Made(e, heap.head[e], FALSE)
  <2>2. IterOK(heap, i)
    BY <2>1, MadeOK
  <2>3. i.list = e
    BY DEF Made
  <2> HIDE DEF i
  <2>4. <<heap, i>> \in Turns(e)
    BY <2>2, <2>3, TurnsAre
  <2>5. QED
    BY <2>4 DEF i
<1>2. Room(g, 1) /\ heap' = insert_impl(Construct(g, Cell(g), w0), e, NIL, Cell(g))
  BY DEF SetContent
<1> HIDE DEF base
<1>3. \A k \in 0 .. N : S[k] = Turns(e)
  OBVIOUS
<1>4. \A k \in 1 .. N : \A p \in Turns(e) : step[k][p] = ContentTurn(e, p)
  OBVIOUS
<1>5. \A w : /\ body(w) = [k \in 0 .. N |-> body(w)[k]]
             /\ body(w)[0] = base
             /\ \A k \in 1 .. N : body(w)[k] = ContentTurn(e, w[k - 1])
  <2> SUFFICES ASSUME NEW w
               PROVE  /\ body(w) = [k \in 0 .. N |-> body(w)[k]]
                      /\ body(w)[0] = base
                      /\ \A k \in 1 .. N : body(w)[k] = ContentTurn(e, w[k - 1])
    OBVIOUS
  <2>1. body(w) = [k \in 0 .. N |-> body(w)[k]]
    OBVIOUS
  <2>2. body(w)[0] = base
    BY CellsType
  <2>3. ASSUME NEW k \in 1 .. N PROVE body(w)[k] = ContentTurn(e, w[k - 1])
    <3>1. k \in 0 .. N /\ k # 0
      OBVIOUS
    <3>2. QED
      BY <3>1 DEF ContentTurn
  <2>4. QED
    BY <2>1, <2>2, <2>3
<1> HIDE DEF S, step, body
<1>6. 0 \in 0 .. N /\ N \in 0 .. N /\ \A k \in 1 .. N : k - 1 \in 0 .. N /\ k \in 0 .. N
  BY CellsType
<1>7. \A k \in 0 .. N : k = 0 \/ k \in 1 .. N
  BY CellsType
<1>8. Steps(N, S, base, step)
  BY <1>1, <1>3, <1>4, <1>6, ContentTurnOK DEF Steps
<1>9. PICK f : Runs(f, N, S, base, step)
  BY <1>8, CellsType, Recursion
<1>10. f = body(f)
  <2>1. f[0] = body(f)[0]
    BY <1>5, <1>9 DEF Runs
  <2>2. ASSUME NEW k \in 1 .. N PROVE f[k] = body(f)[k]
    <3>1. f[k - 1] \in Turns(e) /\ f[k] = step[k][f[k - 1]]
      BY <1>3, <1>6, <1>9 DEF Runs
    <3>2. QED
      BY <3>1, <1>4, <1>5
  <2>3. \A k \in 0 .. N : f[k] = body(f)[k]
    BY <2>1, <2>2, <1>7
  <2>4. QED
    BY <2>3, <1>5, <1>9 DEF Runs
<1>11. loop = body(loop)
  BY <1>10
<1> HIDE DEF loop
<1>12. \A k \in 0 .. N : loop[k] \in S[k]
  <2>1. loop[0] \in S[0]
    BY <1>1, <1>3, <1>5, <1>6, <1>11
  <2>2. ASSUME NEW k \in 1 .. N, loop[k - 1] \in S[k - 1] PROVE loop[k] \in S[k]
    BY <2>2, <1>3, <1>5, <1>6, <1>11, ContentTurnOK
  <2>3. QED
    BY <2>1, <2>2, CellsType, UpTo
<1>13. /\ loop[0] = base
       /\ \A k \in 1 .. N : loop[k] = ContentTurn(e, loop[k - 1])
       /\ \A k \in 0 .. N : loop[k] \in Turns(e)
  BY <1>3, <1>5, <1>11, <1>12
<1>14. QED
  BY <1>2, <1>13 DEF base

\* So setting the content keeps every list a list.
LEMMA SetContentGood ==
    ASSUME Good(heap), NEW e \in Elements, NEW s \in Seq(STRING), SetContent(e, s)
    PROVE  Good(heap')
<1> DEFINE w0 == [kind |-> "text", text |-> s]
           After(g) == insert_impl(Construct(g, Cell(g), w0), e, NIL, Cell(g))
<1>1. PICK f : f[N] \in Turns(e) /\ Room(f[N][1], 1) /\ heap' = After(f[N][1])
  <2>1. N \in 0 .. N
    BY CellsType
  <2>2. QED
    BY <2>1, SetContentLoop
<1> DEFINE g == f[N][1]
<1>2. Good(g)
  BY <1>1 DEF Turns
<1> HIDE DEF g
<1>3. w0 \in Cells /\ w0.kind # "free" /\ OnList(g, e, NIL) /\ Room(g, 1)
  BY <1>1 DEF Cells, Kinds, OnList, g
<1> HIDE DEF w0
<1>4. Good(After(g))
  BY <1>2, <1>3, NewCell
<1>5. QED
  BY <1>1, <1>4 DEF g

\* A heap in order and a child of e, none only when e has no children.
TextTurns(e) == {p \in Heaps \X Pointer : /\ Good(p[1]) /\ OnList(p[1], e, p[2])
                                          /\ p[2] = NIL => p[1].tail[e] = NIL}

FlattenTurn(e, p) ==
    IF p[2] = p[1].tail[e] THEN p
    ELSE IF ~IsText(p[1], p[2]) \/ ~IsText(p[1], p[1].next[p[2]])
         THEN <<p[1], p[1].next[p[2]]>>
         ELSE <<erase_impl([p[1] EXCEPT !.what[p[2]].text =
                                            @ \o p[1].what[p[1].next[p[2]]].text],
                           e, p[1].next[p[2]]), p[2]>>

\* One turn of the loop of flatten_text.
LEMMA FlattenTurnOK ==
    ASSUME NEW e \in Elements, NEW p \in TextTurns(e)
    PROVE  FlattenTurn(e, p) \in TextTurns(e)
<1>1. PICK h, n : /\ p = <<h, n>> /\ Good(h) /\ OnList(h, e, n)
                  /\ n = NIL => h.tail[e] = NIL
  BY DEF TextTurns
<1>2. CASE n = h.tail[e]
  BY <1>1, <1>2 DEF FlattenTurn
<1>3. CASE n # h.tail[e]
  <2> DEFINE x == h.next[n]
  <2>1. n \in Nodes /\ h.parent[n] = e /\ h \in Heaps
    BY <1>1, <1>3 DEF OnList, Good
  <2>2. x # n /\ x # NIL /\ OnList(h, e, x)
    BY <2>1, <1>1, <1>3, RestPasses, PointersStay
  <2>3. x \in Nodes /\ h.parent[x] = e
    BY <2>2 DEF OnList
  <2>4. CASE ~IsText(h, n) \/ ~IsText(h, x)
    <3>1. FlattenTurn(e, p) = <<h, x>>
      BY <2>4, <1>1, <1>3 DEF FlattenTurn
    <3> HIDE DEF x
    <3>2. QED
      BY <3>1, <2>1, <2>2, <2>3, <1>1 DEF TextTurns, Pointer
  <2>5. CASE ~(~IsText(h, n) \/ ~IsText(h, x))
    <3> DEFINE t == h.what[n].text \o h.what[x].text
               a == [h EXCEPT !.what[n].text = t]
               g == erase_impl(a, e, x)
    <3>1. FlattenTurn(e, p) = <<g, n>>
      BY <2>5, <1>1, <1>3 DEF FlattenTurn
    <3>2. h.what[n] \in Cells /\ h.what[x] \in Cells
      BY <2>1, <2>3 DEF Heaps
    <3>3. t \in Seq(STRING)
      BY <3>2, ConcatProperties DEF Cells
    <3>4. h.what[n].kind # "free"
      BY <2>5 DEF IsText
    <3> HIDE DEF t, x
    <3>5. Good(a) /\ a.parent = h.parent
      BY <3>3, <3>4, <2>1, <1>1, TextGood
    <3> HIDE DEF a
    <3>6. Good(g) /\ OnList(g, e, n)
      <4>1. a.parent[x] = e /\ OnList(a, e, n) /\ n # x
        BY <3>5, <2>1, <2>2, <2>3 DEF OnList
      <4>2. Good(g)
        BY <3>5, <4>1, <2>3, EraseImpl
      <4>3. OnList(g, e, n)
        BY <3>5, <4>1, <2>3, EraseKeeps
      <4>4. QED
        BY <4>2, <4>3
    <3> HIDE DEF g
    <3>7. n # NIL /\ n \in Pointer /\ g \in Heaps
      BY <3>6, <2>1, CellsType DEF Good, Pointer
    <3>8. QED
      BY <3>1, <3>6, <3>7 DEF TextTurns
  <2>6. QED
    BY <2>4, <2>5
<1>4. QED
  BY <1>2, <1>3

\* element::flatten_text
LEMMA FlattenTextLoop ==
    ASSUME Good(heap), NEW e \in Elements, FlattenText(e)
    PROVE  \E f : /\ f[0] = <<heap, heap.head[e]>>
                  /\ \A k \in 1 .. 2 * N : f[k] = FlattenTurn(e, f[k - 1])
                  /\ \A k \in 0 .. 2 * N : f[k] \in TextTurns(e)
                  /\ heap' = f[2 * N][1]
<1> DEFINE M == 2 * N
           base == <<heap, heap.head[e]>>
           body(w) == [k \in 0 .. M |-> IF k = 0 THEN base
                         ELSE LET p == w[k - 1]
                                  h == p[1]
                                  n == p[2]
                              IN  IF n = h.tail[e] THEN p
                                  ELSE IF ~IsText(h, n) \/ ~IsText(h, h.next[n])
                                       THEN <<h, h.next[n]>>
                                  ELSE <<erase_impl([h EXCEPT !.what[n].text =
                                                       @ \o h.what[h.next[n]].text],
                                                    e, h.next[n]), n>>]
           loop == CHOOSE w : w = body(w)
           S == [k \in 0 .. M |-> TextTurns(e)]
           step == [k \in 1 .. M |-> [p \in TextTurns(e) |-> FlattenTurn(e, p)]]
<1>1. base \in TextTurns(e)
  <2>1. OnList(heap, e, heap.head[e]) /\ heap \in Heaps /\ heap.head[e] \in Pointer
    BY PointersStay DEF Good, Heaps
  <2>2. PICK l : IsList(heap, e, l)
    BY DEF Good
  <2>3. \A i \in 1 .. Len(l) : l[i] # NIL
    BY <2>2, ElementOfSeq, CellsType DEF IsList, Linked
  <2>4. heap.head[e] = NIL => heap.tail[e] = NIL
    <3>1. Len(l) \in Nat
      BY <2>2 DEF IsList, Linked
    <3>2. QED
      BY <2>2, <2>3, <3>1 DEF IsList
  <2>5. QED
    BY <2>1, <2>4 DEF TextTurns
<1>2. heap' = loop[M][1]
  BY DEF FlattenText
<1>m. M \in Nat
  BY CellsType
<1> HIDE DEF base, M
<1>3. \A k \in 0 .. M : S[k] = TextTurns(e)
  OBVIOUS
<1>4. \A k \in 1 .. M : \A p \in TextTurns(e) : step[k][p] = FlattenTurn(e, p)
  OBVIOUS
<1>5. \A w : /\ body(w) = [k \in 0 .. M |-> body(w)[k]]
             /\ body(w)[0] = base
             /\ \A k \in 1 .. M : body(w)[k] = FlattenTurn(e, w[k - 1])
  <2> SUFFICES ASSUME NEW w
               PROVE  /\ body(w) = [k \in 0 .. M |-> body(w)[k]]
                      /\ body(w)[0] = base
                      /\ \A k \in 1 .. M : body(w)[k] = FlattenTurn(e, w[k - 1])
    OBVIOUS
  <2>1. body(w) = [k \in 0 .. M |-> body(w)[k]]
    OBVIOUS
  <2>2. body(w)[0] = base
    BY <1>m
  <2>3. ASSUME NEW k \in 1 .. M PROVE body(w)[k] = FlattenTurn(e, w[k - 1])
    <3>1. k \in 0 .. M /\ k # 0
      OBVIOUS
    <3>2. QED
      BY <3>1 DEF FlattenTurn
  <2>4. QED
    BY <2>1, <2>2, <2>3
<1> HIDE DEF S, step, body
<1>6. 0 \in 0 .. M /\ M \in 0 .. M /\ \A k \in 1 .. M : k - 1 \in 0 .. M /\ k \in 0 .. M
  BY <1>m
<1>7. \A k \in 0 .. M : k = 0 \/ k \in 1 .. M
  BY <1>m
<1>8. Steps(M, S, base, step)
  BY <1>1, <1>3, <1>4, <1>6, FlattenTurnOK DEF Steps
<1>9. PICK f : Runs(f, M, S, base, step)
  BY <1>8, <1>m, Recursion
<1>10. f = body(f)
  <2>1. f[0] = body(f)[0]
    BY <1>5, <1>9 DEF Runs
  <2>2. ASSUME NEW k \in 1 .. M PROVE f[k] = body(f)[k]
    <3>1. f[k - 1] \in TextTurns(e) /\ f[k] = step[k][f[k - 1]]
      BY <1>3, <1>6, <1>9 DEF Runs
    <3>2. QED
      BY <3>1, <1>4, <1>5
  <2>3. \A k \in 0 .. M : f[k] = body(f)[k]
    BY <2>1, <2>2, <1>7
  <2>4. QED
    BY <2>3, <1>5, <1>9 DEF Runs
<1>11. loop = body(loop)
  BY <1>10
<1> HIDE DEF loop
<1>12. \A k \in 0 .. M : loop[k] \in S[k]
  <2>1. loop[0] \in S[0]
    BY <1>1, <1>3, <1>5, <1>6, <1>11
  <2>2. ASSUME NEW k \in 1 .. M, loop[k - 1] \in S[k - 1] PROVE loop[k] \in S[k]
    BY <2>2, <1>3, <1>5, <1>6, <1>11, FlattenTurnOK
  <2>3. QED
    BY <2>1, <2>2, <1>m, UpTo
<1>13. /\ loop[0] = base
       /\ \A k \in 1 .. M : loop[k] = FlattenTurn(e, loop[k - 1])
       /\ \A k \in 0 .. M : loop[k] \in TextTurns(e)
  BY <1>3, <1>5, <1>11, <1>12
<1>14. QED
  BY <1>2, <1>13 DEF base, M

\* So flattening the texts keeps every list a list.
LEMMA FlattenTextGood ==
    ASSUME Good(heap), NEW e \in Elements, FlattenText(e)
    PROVE  Good(heap')
<1>1. PICK f : f[2 * N] \in TextTurns(e) /\ heap' = f[2 * N][1]
  <2>1. 2 * N \in 0 .. 2 * N
    BY CellsType
  <2>2. QED
    BY <2>1, FlattenTextLoop
<1>2. QED
  BY <1>1 DEF TextTurns

\* A heap in order with room for k more cells.
Roomy(k) == {g \in Heaps : Good(g) /\ Room(g, k)}

EmplaceTurn(d, w, g) == insert_impl(Construct(g, Cell(g), w), d, NIL, Cell(g))

\* One turn of the loop that copies a list takes one of the free cells.
LEMMA EmplaceTurnOK ==
    ASSUME NEW d \in Elements, NEW w \in Cells, w.kind # "free", NEW k \in Nat \ {0},
           NEW g \in Roomy(k)
    PROVE  EmplaceTurn(d, w, g) \in Roomy(k - 1)
<1> DEFINE h == EmplaceTurn(d, w, g)
<1>1. Good(g) /\ Room(g, k) /\ OnList(g, d, NIL)
  BY DEF Roomy, OnList
<1>2. Good(h) /\ Room(h, k - 1)
  BY <1>1, NewCell DEF EmplaceTurn
<1> HIDE DEF h
<1>3. QED
  BY <1>2 DEF Roomy, Good, h

\* All its turns.
LEMMA EmplaceAllLoop ==
    ASSUME NEW h, Good(h), NEW d \in Elements, NEW s \in Seq(Nodes),
           \A i \in 1 .. Len(s) : h.what[s[i]].kind # "free", Room(h, Len(s))
    PROVE  \E f : /\ f[0] = h
                  /\ \A k \in 1 .. Len(s) : f[k] = EmplaceTurn(d, h.what[s[k]], f[k - 1])
                  /\ \A k \in 0 .. Len(s) : f[k] \in Roomy(Len(s) - k)
                  /\ emplace_all(h, d, s) = f[Len(s)]
<1> DEFINE M == Len(s)
           W(k) == h.what[s[k]]
           body(w) == [i \in 0 .. M |-> IF i = 0 THEN h
                         ELSE LET g == w[i - 1]
                                  n == Cell(g)
                              IN  insert_impl(Construct(g, n, h.what[s[i]]), d, NIL, n)]
           add == CHOOSE w : w = body(w)
           S == [k \in 0 .. M |-> Roomy(M - k)]
           step == [k \in 1 .. M |-> [g \in Roomy(M - k + 1) |-> EmplaceTurn(d, W(k), g)]]
<1>1. emplace_all(h, d, s) = add[M]
  BY DEF emplace_all
<1>m. M \in Nat /\ \A k \in 1 .. M : W(k) \in Cells /\ W(k).kind # "free"
  BY ElementOfSeq DEF Good, Heaps
<1> HIDE DEF M
<1>2. h \in Roomy(M - 0)
  BY <1>m DEF Roomy, Good, M
<1>3. \A k \in 0 .. M : S[k] = Roomy(M - k)
  OBVIOUS
<1> HIDE DEF W
<1>4. \A k \in 1 .. M : \A g \in Roomy(M - k + 1) : step[k][g] = EmplaceTurn(d, W(k), g)
  OBVIOUS
<1>5. \A w : /\ body(w) = [k \in 0 .. M |-> body(w)[k]]
             /\ body(w)[0] = h
             /\ \A k \in 1 .. M : body(w)[k] = EmplaceTurn(d, W(k), w[k - 1])
  <2> SUFFICES ASSUME NEW w
               PROVE  /\ body(w) = [k \in 0 .. M |-> body(w)[k]]
                      /\ body(w)[0] = h
                      /\ \A k \in 1 .. M : body(w)[k] = EmplaceTurn(d, W(k), w[k - 1])
    OBVIOUS
  <2>1. body(w) = [k \in 0 .. M |-> body(w)[k]]
    OBVIOUS
  <2>2. body(w)[0] = h
    BY <1>m
  <2>3. ASSUME NEW k \in 1 .. M PROVE body(w)[k] = EmplaceTurn(d, W(k), w[k - 1])
    <3>1. k \in 0 .. M /\ k # 0
      OBVIOUS
    <3>2. QED
      BY <3>1 DEF EmplaceTurn, W
  <2>4. QED
    BY <2>1, <2>2, <2>3
<1> HIDE DEF S, step, body
<1>6. /\ 0 \in 0 .. M /\ M \in 0 .. M
      /\ \A k \in 1 .. M : /\ k - 1 \in 0 .. M /\ k \in 0 .. M /\ M - (k - 1) = M - k + 1
                           /\ M - k + 1 \in Nat \ {0} /\ (M - k + 1) - 1 = M - k
  BY <1>m
<1>7. \A k \in 0 .. M : k = 0 \/ k \in 1 .. M
  BY <1>m
<1>8. \A k \in 1 .. M : \A g \in Roomy(M - k + 1) : EmplaceTurn(d, W(k), g) \in Roomy(M - k)
  <2> SUFFICES ASSUME NEW k \in 1 .. M, NEW g \in Roomy(M - k + 1)
               PROVE  EmplaceTurn(d, W(k), g) \in Roomy(M - k)
    OBVIOUS
  <2>1. M - k + 1 \in Nat \ {0} /\ (M - k + 1) - 1 = M - k
    BY <1>6
  <2>2. EmplaceTurn(d, W(k), g) \in Roomy((M - k + 1) - 1)
    BY <2>1, <1>m, EmplaceTurnOK
  <2>3. QED
    BY <2>1, <2>2
<1>s. \A k \in 1 .. M : S[k - 1] = Roomy(M - k + 1) /\ S[k] = Roomy(M - k)
  <2> SUFFICES ASSUME NEW k \in 1 .. M
               PROVE  S[k - 1] = Roomy(M - k + 1) /\ S[k] = Roomy(M - k)
    OBVIOUS
  <2>1. k - 1 \in 0 .. M /\ k \in 0 .. M /\ M - (k - 1) = M - k + 1
    BY <1>6
  <2>2. S[k - 1] = Roomy(M - (k - 1)) /\ S[k] = Roomy(M - k)
    BY <2>1, <1>3
  <2>3. QED
    BY <2>1, <2>2
<1>9. Steps(M, S, h, step)
  <2>1. h \in S[0]
    BY <1>2, <1>3, <1>6
  <2>2. ASSUME NEW k \in 1 .. M, NEW g \in S[k - 1] PROVE step[k][g] \in S[k]
    <3>1. g \in Roomy(M - k + 1)
      BY <1>s
    <3>2. step[k][g] = EmplaceTurn(d, W(k), g)
      BY <3>1, <1>4
    <3>3. QED
      BY <3>1, <3>2, <1>8, <1>s
  <2>3. QED
    BY <2>1, <2>2 DEF Steps
<1>10. PICK f : Runs(f, M, S, h, step)
  BY <1>9, <1>m, Recursion
<1>11. f = body(f)
  <2>1. f[0] = body(f)[0]
    BY <1>5, <1>10 DEF Runs
  <2>2. ASSUME NEW k \in 1 .. M PROVE f[k] = body(f)[k]
    <3>1. f[k - 1] \in Roomy(M - k + 1) /\ f[k] = step[k][f[k - 1]]
      BY <1>s, <1>10 DEF Runs
    <3>2. QED
      BY <3>1, <1>4, <1>5
  <2>3. \A k \in 0 .. M : f[k] = body(f)[k]
    BY <2>1, <2>2, <1>7
  <2>4. QED
    BY <2>3, <1>5, <1>10 DEF Runs
<1>12. add = body(add)
  BY <1>11
<1> HIDE DEF add
<1>13. \A k \in 0 .. M : add[k] \in S[k]
  <2>1. add[0] \in S[0]
    BY <1>2, <1>3, <1>5, <1>6, <1>12
  <2>2. ASSUME NEW k \in 1 .. M, add[k - 1] \in S[k - 1] PROVE add[k] \in S[k]
    BY <2>2, <1>5, <1>8, <1>s, <1>12
  <2>3. QED
    BY <2>1, <2>2, <1>m, UpTo
<1>14. /\ add[0] = h
       /\ \A k \in 1 .. M : add[k] = EmplaceTurn(d, W(k), add[k - 1])
       /\ \A k \in 0 .. M : add[k] \in Roomy(M - k)
  BY <1>3, <1>5, <1>12, <1>13
<1>15. QED
  BY <1>1, <1>14 DEF M, W

\* So copying a list keeps every list a list.
LEMMA EmplaceAllGood ==
    ASSUME NEW h, Good(h), NEW d \in Elements, NEW s \in Seq(Nodes),
           \A i \in 1 .. Len(s) : h.what[s[i]].kind # "free", Room(h, Len(s))
    PROVE  Good(emplace_all(h, d, s))
<1>1. Len(s) \in 0 .. Len(s)
  OBVIOUS
<1>2. PICK f : f[Len(s)] \in Roomy(Len(s) - Len(s)) /\ emplace_all(h, d, s) = f[Len(s)]
  BY <1>1, EmplaceAllLoop
<1>3. QED
  BY <1>2 DEF Roomy

-----------------------------------------------------------------------------
(* The invariant *)

NodeInv == Good(heap) /\ IterOK(heap, it)

\* The lists are empty at first.
LEMMA InitInv == Init => NodeInv
<1> SUFFICES ASSUME Init PROVE NodeInv
  OBVIOUS
<1>1. heap \in Heaps
  BY DEF Init, Heaps, Pointer, Owner, Cells, Free
<1>2. ASSUME NEW e \in Elements PROVE \E l : IsList(heap, e, l)
  <2> DEFINE l == <<>>
  <2>1. Linked(heap, l) /\ Len(l) = 0
    BY DEF Linked
  <2>2. e # NIL
    BY CellsType
  <2>3. IsList(heap, e, l)
    BY <2>1, <2>2 DEF IsList, Init
  <2>4. QED
    BY <2>3
<1>3. ASSUME NEW n \in Nodes PROVE CellOK(heap, n)
  BY DEF Init, CellOK, Free
<1>4. Good(heap)
  BY <1>1, <1>2, <1>3 DEF Good
<1>5. PICK e \in Elements : it = Made(e, NIL, FALSE)
  BY DEF Init
<1>6. OnList(heap, e, NIL)
  BY DEF OnList
<1>7. IterOK(heap, it)
  BY <1>5, <1>6, MadeOK
<1>8. QED
  BY <1>4, <1>7 DEF NodeInv

\* A new iterator is on its list.
LEMMA RenewedOK ==
    ASSUME NEW e \in Elements, Renewed(e)
    PROVE  IterOK(heap', it')
<1>1. OnList(heap', e, NIL)
  BY DEF OnList
<1>2. QED
  BY <1>1, MadeOK DEF Renewed

\* The texts are strings.
LEMMA ContentType ==
    /\ \A k \in Kinds : \A s \in Content[k] : s \in Seq(STRING)
    /\ \A s \in Content.added : s \in Seq(STRING)
BY ContentAssumption DEF Kinds

\* insert
LEMMA InsertOK ==
    ASSUME NodeInv, NEW k \in Kinds, NEW s \in Content[k], Insert(k, s)
    PROVE  NodeInv'
<1> DEFINE n == Cell(heap)
           w == [kind |-> k, text |-> s]
<1>1. it.list \in Elements /\ it.elem \in BOOLEAN /\ OnList(heap, it.list, it.cur) /\ Good(heap)
  BY Zenon DEF NodeInv, IterOK, Iterators
<1>2. w \in Cells /\ w.kind # "free"
  BY ContentType DEF Cells, Kinds
<1> DEFINE pos == Rest(heap, it.cur, it.elem)
<1>3. /\ Room(heap, 1) /\ heap' = insert_impl(Construct(heap, n, w), it.list, pos, n)
      /\ it' = FromCell(it.list, n, it.elem)
  BY DEF Insert
<1>4. OnList(heap, it.list, pos)
  BY <1>1, RestStays
<1> HIDE DEF w, pos
<1>5. Good(heap') /\ OnList(heap', it.list, n)
  BY <1>1, <1>2, <1>3, <1>4, NewCell
<1> HIDE DEF n
<1>6. IterOK(heap', it')
  BY <1>1, <1>3, <1>5, MadeOK
<1>7. QED
  BY <1>5, <1>6 DEF NodeInv

\* erase
LEMMA EraseOK ==
    ASSUME NodeInv, Erase
    PROVE  NodeInv'
<1>1. it.list \in Elements /\ it.elem \in BOOLEAN /\ OnList(heap, it.list, it.cur) /\ Good(heap)
  BY Zenon DEF NodeInv, IterOK, Iterators
<1> DEFINE e == it.list
           n == it.cur
           x == heap.next[n]
<1>2. n \in Nodes /\ heap.parent[n] = e
  BY <1>1 DEF Erase, OnList
<1>3. Good(heap')
  BY <1>1, <1>2, EraseImpl DEF Erase
<1>4. OnList(heap, e, x) /\ x # n
  BY <1>1, <1>2, PointersStay, RestPasses
<1>5. OnList(heap', e, x)
  BY <1>1, <1>2, <1>4, EraseKeeps DEF Erase
<1>6. OnList(heap', e, Rest(heap', x, it.elem))
  BY <1>1, <1>3, <1>5, RestStays
<1>7. IterOK(heap', it')
  BY <1>1, <1>6, MadeOK DEF Erase
<1>8. QED
  BY <1>3, <1>7 DEF NodeInv

\* pop_front and pop_back
LEMMA PopOK ==
    ASSUME NodeInv, NEW e \in Elements, PopFront(e) \/ PopBack(e)
    PROVE  NodeInv'
<1>1. Good(heap)
  BY DEF NodeInv
<1>2. PICK n : n # NIL /\ OnList(heap, e, n) /\ heap' = erase_impl(heap, e, n)
  <2>1. CASE PopFront(e)
    BY <2>1, <1>1, PointersStay DEF PopFront
  <2>2. CASE PopBack(e)
    <3> DEFINE i == Made(e, NIL, FALSE)
               j == Decremented(heap, i)
    <3>1. IterOK(heap, i) /\ i.list = e /\ i.atEnd
      <4>1. OnList(heap, e, NIL)
        BY DEF OnList
      <4>2. IterOK(heap, i)
        BY <4>1, MadeOK
      <4>3. QED
        BY <4>2 DEF Made
    <3>2. j.cur = heap.tail[e]
      BY <3>1 DEF Decremented, Made
    <3>3. OnList(heap, e, j.cur)
      BY <3>2, <1>1, PointersStay
    <3>4. j.cur # NIL /\ heap' = erase_impl(heap, e, j.cur)
      BY <2>2 DEF PopBack
    <3> HIDE DEF j
    <3>5. QED
      BY <3>3, <3>4
  <2>3. QED
    BY <2>1, <2>2
<1>3. Good(heap')
  BY <1>1, <1>2, EraseImpl DEF OnList
<1>4. Renewed(e)
  BY DEF PopFront, PopBack
<1>5. QED
  BY <1>3, <1>4, RenewedOK DEF NodeInv

\* element::operator=, through a copy and a swap
LEMMA CopyAssignOK ==
    ASSUME NodeInv, NEW d \in Elements, NEW e \in Elements, CopyAssign(d, e)
    PROVE  NodeInv'
<1> DEFINE h == clear(heap, d)
           s == List(e)
<1>1. Good(heap) /\ d # e
  BY DEF NodeInv, CopyAssign
<1>2. /\ Good(h)
      /\ \A m \in Nodes : heap.parent[m] # d => h.what[m] = heap.what[m]
  BY <1>1, ClearGood
<1>3. PICK l : IsList(heap, e, l)
  BY <1>1 DEF Good
<1>4. s = l
  BY <1>3, ChainOfList DEF List
<1>5. s \in Seq(Nodes) /\ \A i \in 1 .. Len(s) : s[i] \in Nodes /\ heap.parent[s[i]] = e
  BY <1>3, <1>4, ElementOfSeq DEF IsList, Linked
<1>6. Room(h, Len(s)) /\ heap' = emplace_all(h, d, s)
  BY DEF CopyAssign
<1>7. e # NIL
  BY CellsType
<1> HIDE DEF h, s
<1>8. \A i \in 1 .. Len(s) : h.what[s[i]].kind # "free"
  BY <1>1, <1>2, <1>5, <1>7 DEF Good, CellOK
<1>9. Good(heap')
  BY <1>2, <1>5, <1>6, <1>8, EmplaceAllGood
<1>10. QED
  BY <1>9, RenewedOK DEF NodeInv, CopyAssign

\* element::add_text
LEMMA AddTextOK ==
    ASSUME NodeInv, NEW e \in Elements, NEW s \in Content.added, AddText(e, s)
    PROVE  NodeInv'
<1> DEFINE t == heap.tail[e]
<1>1. Good(heap) /\ heap \in Heaps /\ s \in Seq(STRING)
  BY ContentType DEF NodeInv, Good
<1>2. OnList(heap, e, t)
  BY <1>1, PointersStay
<1>3. Good(heap')
  <2>1. CASE t # NIL /\ heap.what[t].kind = "text"
    <3> DEFINE u == heap.what[t].text \o s
    <3>1. t \in Nodes /\ heap.what[t] \in Cells
      BY <2>1, <1>1, <1>2 DEF OnList, Heaps
    <3>2. u \in Seq(STRING)
      BY <3>1, <1>1, ConcatProperties DEF Cells
    <3>3. heap' = [heap EXCEPT !.what[t].text = u]
      BY <2>1 DEF AddText
    <3>4. heap.what[t].kind # "free"
      BY <2>1
    <3> HIDE DEF t, u
    <3>5. QED
      BY <3>1, <3>2, <3>3, <3>4, <1>1, TextGood
  <2>2. CASE ~(t # NIL /\ heap.what[t].kind = "text")
    <3> DEFINE w == [kind |-> "text", text |-> s]
    <3>1. /\ Room(heap, 1)
          /\ heap' = insert_impl(Construct(heap, Cell(heap), w), e, NIL, Cell(heap))
      BY <2>2 DEF AddText
    <3>2. w \in Cells /\ w.kind # "free" /\ OnList(heap, e, NIL)
      BY <1>1 DEF Cells, Kinds, OnList
    <3> HIDE DEF w
    <3>3. QED
      BY <3>1, <3>2, <1>1, NewCell
  <2>3. QED
    BY <2>1, <2>2
<1>4. QED
  BY <1>3, RenewedOK DEF NodeInv, AddText

\* insert of a range
LEMMA InsertRangeOK ==
    ASSUME NodeInv, NEW e \in Elements, InsertRange(e)
    PROVE  NodeInv'
<1> DEFINE pos == Made(e, Rest(heap, heap.head[e], TRUE), TRUE)
           w == [kind |-> "element", text |-> << >>]
           m == Cell(heap)
           h1 == insert_impl(Construct(heap, m, w), e, pos.cur, m)
           n == Cell(h1)
           h2 == insert_impl(Construct(h1, n, w), e, Incremented(h1, pos).cur, n)
<1>1. Good(heap) /\ w \in Cells /\ w.kind # "free"
  BY DEF NodeInv, Cells, Kinds
<1>2. /\ Room(heap, 2) /\ heap' = h2
      /\ it' = Made(e, Rest(h2, h2.head[e], TRUE), TRUE)
  BY DEF InsertRange
<1> HIDE DEF w
<1>3. OnList(heap, e, Rest(heap, heap.head[e], TRUE))
  BY <1>1, PointersStay, RestStays
<1>4. IterOK(heap, pos) /\ pos.list = e /\ OnList(heap, e, pos.cur)
  BY <1>3, MadeOK DEF Made
<1> HIDE DEF pos
<1>5. Good(h1) /\ Room(h1, 2 - 1) /\ OnList(h1, e, pos.cur)
  BY <1>1, <1>2, <1>4, NewCell
<1> HIDE DEF h1
<1>6. IterOK(h1, pos)
  BY <1>4, <1>5 DEF IterOK
<1>7. OnList(h1, e, Incremented(h1, pos).cur)
  BY <1>4, <1>5, <1>6, IncrementedOK DEF IterOK
<1>8. Good(h2)
  BY <1>1, <1>5, <1>7, NewCell
<1> HIDE DEF h2
<1>9. OnList(h2, e, Rest(h2, h2.head[e], TRUE))
  BY <1>8, PointersStay, RestStays
<1>10. IterOK(heap', it')
  BY <1>2, <1>9, MadeOK
<1>11. QED
  BY <1>2, <1>8, <1>10 DEF NodeInv

\* Every step keeps the lists.
LEMMA NextInv == NodeInv /\ [Next]_vars => NodeInv'
<1> SUFFICES ASSUME NodeInv, [Next]_vars PROVE NodeInv'
  OBVIOUS
<1>1. Good(heap) /\ IterOK(heap, it)
  BY DEF NodeInv
<1>2. ASSUME NEW e \in Elements, NEW elem \in BOOLEAN, Begin(e, elem) PROVE NodeInv'
  <2>1. OnList(heap, e, Rest(heap, heap.head[e], elem))
    BY <1>1, PointersStay, RestStays
  <2>2. IterOK(heap, it')
    BY <1>2, <2>1, MadeOK DEF Begin
  <2>3. QED
    BY <1>1, <1>2, <2>2 DEF NodeInv, Begin
<1>3. ASSUME NEW e \in Elements, NEW elem \in BOOLEAN, End(e, elem) PROVE NodeInv'
  <2>1. OnList(heap, e, NIL)
    BY DEF OnList
  <2>2. IterOK(heap, it')
    BY <1>3, <2>1, MadeOK DEF End
  <2>3. QED
    BY <1>1, <1>3, <2>2 DEF NodeInv, End
<1>4. CASE Advance
  BY <1>1, <1>4, IncrementedOK DEF NodeInv, Advance
<1>5. CASE Retreat
  BY <1>1, <1>5, DecrementedOK DEF NodeInv, Retreat
<1>6. ASSUME NEW e \in Elements, Clear(e) PROVE NodeInv'
  BY <1>1, <1>6, ClearGood, RenewedOK DEF NodeInv, Clear
<1>7. ASSUME NEW e \in Elements, EraseElements(e) PROVE NodeInv'
  <2>1. Renewed(e)
    BY <1>7 DEF EraseElements
  <2>2. QED
    BY <1>1, <1>7, <2>1, EraseElementsGood, RenewedOK DEF NodeInv
<1>8. ASSUME NEW e \in Elements, FlattenText(e) PROVE NodeInv'
  <2>1. Renewed(e)
    BY <1>8 DEF FlattenText
  <2>2. QED
    BY <1>1, <1>8, <2>1, FlattenTextGood, RenewedOK DEF NodeInv
<1>9. ASSUME NEW d \in Elements, NEW e \in Elements, Swap(d, e) PROVE NodeInv'
  BY <1>1, <1>9, SwapGood, RenewedOK DEF NodeInv, Swap
<1>10. ASSUME NEW d \in Elements, NEW e \in Elements, MoveAssign(d, e) PROVE NodeInv'
  <2>1. Good(clear(heap, d))
    BY <1>1, ClearGood
  <2>2. QED
    BY <2>1, <1>10, SwapGood, RenewedOK DEF NodeInv, MoveAssign
<1>11. ASSUME NEW e \in Elements, NEW s \in Content.added, SetContent(e, s) PROVE NodeInv'
  <2>1. Renewed(e) /\ s \in Seq(STRING)
    BY <1>11, ContentType DEF SetContent
  <2>2. QED
    BY <1>1, <1>11, <2>1, SetContentGood, RenewedOK DEF NodeInv
<1>12. CASE UNCHANGED vars
  BY <1>1, <1>12 DEF NodeInv, vars
<1>13. QED
  BY <1>2, <1>3, <1>4, <1>5, <1>6, <1>7, <1>8, <1>9, <1>10, <1>11, <1>12,
     InsertOK, EraseOK, PopOK, CopyAssignOK, AddTextOK, InsertRangeOK DEF Next

\* Lists that are kept so are linked both ways, without a node lost.
LEMMA InvIsWellLinked == NodeInv => WellLinked
<1> SUFFICES ASSUME NodeInv PROVE WellLinked
  OBVIOUS
<1>1. Good(heap) /\ heap \in Heaps /\ IterOK(heap, it)
  BY DEF NodeInv, Good
<1>2. TypeOK
  <2>1. /\ DOMAIN heap = {"head", "tail", "next", "prev", "parent", "what"}
        /\ heap.head \in [Elements -> Nodes \cup {NIL}]
        /\ heap.tail \in [Elements -> Nodes \cup {NIL}]
        /\ heap.next \in [Nodes -> Nodes \cup {NIL}]
        /\ heap.prev \in [Nodes -> Nodes \cup {NIL}]
        /\ heap.parent \in [Nodes -> Elements \cup {NIL}]
        /\ \A n \in Nodes : heap.what[n].kind \in Kinds \cup {"free"}
    BY <1>1 DEF Heaps, Pointer, Owner, Cells
  <2>2. /\ it.list \in Elements /\ it.cur \in Nodes \cup {NIL}
        /\ it.atEnd \in BOOLEAN /\ it.elem \in BOOLEAN
    BY <1>1, Zenon DEF IterOK, Iterators, Pointer
  <2>3. QED
    BY <2>1, <2>2 DEF TypeOK
<1>3. ASSUME NEW e \in Elements
      PROVE  /\ List(e) \in Seq(Nodes) /\ IsList(heap, e, List(e))
             /\ ToSet(List(e)) = {n \in Nodes : heap.parent[n] = e}
  <2>1. PICK l : IsList(heap, e, l)
    BY <1>1 DEF Good
  <2>2. List(e) = l
    BY <2>1, ChainOfList DEF List
  <2>3. l \in Seq(Nodes) /\ \A i \in 1 .. Len(l) : l[i] \in Nodes /\ heap.parent[l[i]] = e
    BY <2>1, ElementOfSeq DEF IsList, Linked
  <2>4. ToSet(l) = {l[i] : i \in 1 .. Len(l)}
    BY <2>3 DEF ToSet
  <2>5. ToSet(l) = {n \in Nodes : heap.parent[n] = e}
    BY <2>1, <2>3, <2>4 DEF IsList
  <2>6. QED
    BY <2>1, <2>2, <2>3, <2>5
<1> DEFINE s(e) == List(e)
<1>4. ASSUME NEW e \in Elements
      PROVE  /\ heap.tail[e] = IF s(e) = << >> THEN NIL ELSE Last(s(e))
             /\ s(e) # << >> => heap.next[Last(s(e))] = NIL
             /\ \A i \in DOMAIN s(e) :
                  /\ heap.prev[s(e)[i]] = IF i = 1 THEN NIL ELSE s(e)[i - 1]
                  /\ heap.parent[s(e)[i]] = e
  <2>1. PICK l : l = s(e)
    OBVIOUS
  <2>2. l \in Seq(Nodes) /\ IsList(heap, e, l) /\ DOMAIN l = 1 .. Len(l)
    BY <2>1, <1>3
  <2>3. (l = <<>> <=> Len(l) = 0) /\ Last(l) = l[Len(l)] /\ (l # <<>> => Len(l) \in 1 .. Len(l))
    BY <2>2, EmptySeq DEF Last
  <2>4. /\ heap.tail[e] = IF l = << >> THEN NIL ELSE Last(l)
        /\ l # << >> => heap.next[Last(l)] = NIL
        /\ \A i \in DOMAIN l : /\ heap.prev[l[i]] = IF i = 1 THEN NIL ELSE l[i - 1]
                               /\ heap.parent[l[i]] = e
    BY <2>2, <2>3 DEF IsList, Linked
  <2>5. QED
    BY <2>1, <2>4
<1>5. \A d, e \in Elements : d # e => ToSet(List(d)) \cap ToSet(List(e)) = {}
  BY <1>3
<1>6. {n \in Nodes : heap.what[n].kind # "free"} = UNION {ToSet(List(e)) : e \in Elements}
  <2>1. \A n \in Nodes : heap.what[n].kind # "free" <=> heap.parent[n] \in Elements
    BY <1>1, CellsType DEF Good, CellOK, Heaps, Owner
  <2>2. ASSUME NEW n PROVE n \in UNION {ToSet(List(e)) : e \in Elements}
                           <=> n \in Nodes /\ heap.parent[n] \in Elements
    BY <1>3
  <2>3. QED
    BY <2>1, <2>2
<1>7. it.cur # NIL => it.cur \in ToSet(List(it.list))
  <2>1. it.list \in Elements /\ OnList(heap, it.list, it.cur)
    BY <1>1, Zenon DEF IterOK, Iterators
  <2>2. QED
    BY <2>1, <1>3 DEF OnList
<1>8. QED
  BY <1>2, <1>4, <1>5, <1>6, <1>7 DEF WellLinked

(***************************************************************************)
(* Whatever the program does with its two hands on the lists, the pointers *)
(* of every list agree with each other, no two lists share a cell, the     *)
(* cells in use are exactly those of the lists, and the iterator shows a   *)
(* cell of its list or none: insert_impl, erase_impl, clear, swap and the  *)
(* loops of element built on them never corrupt, leak or share a node.     *)
(***************************************************************************)
THEOREM ListsStayLinked == Spec => []WellLinked
<1>1. NodeInv /\ [Next]_vars => NodeInv'
  BY NextInv
<1>2. QED
  BY <1>1, InitInv, InvIsWellLinked, PTL DEF Spec

-----------------------------------------------------------------------------
(* The sequences the heap stands for *)

\* The children of every element, in order.
Lists(h) == [e \in Elements |-> Chain(h, h.head[e])]

\* Cells in a row, none of them twice.
Distinct(l) == l \in Seq(Nodes) /\ \A i, j \in 1 .. Len(l) : l[i] = l[j] => i = j

\* What a list of distinct cells is made of.
LEMMA DistinctIs ==
    ASSUME NEW l, Distinct(l)
    PROVE  /\ l \in Seq(Nodes) /\ Len(l) \in Nat /\ DOMAIN l = 1 .. Len(l)
           /\ \A i \in 1 .. Len(l) : l[i] \in Nodes /\ l[i] # NIL
           /\ \A i, j \in 1 .. Len(l) : l[i] = l[j] => i = j
           /\ ToSet(l) = {l[i] : i \in 1 .. Len(l)}
<1>1. l \in Seq(Nodes) /\ Len(l) \in Nat /\ DOMAIN l = 1 .. Len(l)
  BY LenProperties DEF Distinct
<1>2. \A i \in 1 .. Len(l) : l[i] \in Nodes /\ l[i] # NIL
  BY <1>1, ElementOfSeq, CellsType
<1>3. QED
  BY <1>1, <1>2 DEF Distinct, ToSet

\* The list of an element is a list of distinct cells.
LEMMA ListIsDistinct ==
    ASSUME NEW h, NEW e, NEW l, IsList(h, e, l)
    PROVE  Distinct(l)
BY DEF IsList, Linked, Distinct

\* In a heap in order the chain of every element is its list.
LEMMA ListsOf ==
    ASSUME NEW h, Good(h), NEW e \in Elements
    PROVE  IsList(h, e, Lists(h)[e])
<1>1. PICK l : IsList(h, e, l)
  BY DEF Good
<1>2. Lists(h)[e] = l
  BY <1>1, ChainOfList DEF Lists
<1>3. QED
  BY <1>1, <1>2

\* It has no other.
LEMMA ListsAre ==
    ASSUME NEW h, NEW e \in Elements, NEW l, IsList(h, e, l)
    PROVE  Lists(h)[e] = l
BY ChainOfList DEF Lists

\* Only the children of e were edited, and they are now r.
Edits(g, h, e, r) == Lists(h) = [Lists(g) EXCEPT ![e] = r]

\* Where one list was edited, the others are the sequences they were.
LEMMA ListsEdit ==
    ASSUME NEW g, Good(g), NEW h, NEW e \in Elements, SameElse(g, h, {e}), NEW r, IsList(h, e, r)
    PROVE  Edits(g, h, e, r)
<1>1. ASSUME NEW d \in Elements PROVE Lists(h)[d] = IF d = e THEN r ELSE Lists(g)[d]
  <2>1. CASE d = e
    BY <2>1, ListsAre
  <2>2. CASE d # e
    <3>1. IsList(g, d, Lists(g)[d])
      BY ListsOf
    <3>2. IsList(h, d, Lists(g)[d])
      BY <3>1, <2>2 DEF SameElse
    <3>3. QED
      BY <3>2, <2>2, ListsAre
  <2>3. QED
    BY <2>1, <2>2
<1>2. /\ Lists(h) = [d \in Elements |-> Lists(h)[d]]
      /\ Lists(g) = [d \in Elements |-> Lists(g)[d]]
  BY DEF Lists
<1> DEFINE a == Lists(h)
           b == Lists(g)
<1> HIDE DEF a, b
<1>3. a = [b EXCEPT ![e] = r]
  <2>1. a = [d \in Elements |-> a[d]] /\ b = [d \in Elements |-> b[d]]
    BY <1>2 DEF a, b
  <2>2. \A d \in Elements : a[d] = IF d = e THEN r ELSE b[d]
    BY <1>1 DEF a, b
  <2>3. QED
    BY <2>1, <2>2
<1>4. QED
  BY <1>3 DEF a, b, Edits

\* What no edit touched is the same everywhere.
LEMMA ListsSame ==
    ASSUME NEW g, Good(g), NEW h, SameElse(g, h, {})
    PROVE  Lists(h) = Lists(g)
<1>1. ASSUME NEW d \in Elements PROVE Lists(h)[d] = Lists(g)[d]
  <2>1. IsList(h, d, Lists(g)[d])
    BY ListsOf DEF SameElse
  <2>2. QED
    BY <2>1, ListsAre
<1>2. QED
  BY <1>1 DEF Lists

\* A cell is on the list of its parent and on no other.
LEMMA OnListIs ==
    ASSUME NEW h, Good(h), NEW e \in Elements, NEW n \in Nodes
    PROVE  /\ n \in ToSet(Lists(h)[e]) <=> h.parent[n] = e
           /\ h.parent[n] = e <=> \E p \in 1 .. Len(Lists(h)[e]) : Lists(h)[e][p] = n
<1> DEFINE l == Lists(h)[e]
<1>1. IsList(h, e, l)
  BY ListsOf
<1> HIDE DEF l
<1>2. ToSet(l) = {l[i] : i \in 1 .. Len(l)}
  BY <1>1, ListIsDistinct, DistinctIs
<1>3. h.parent[n] = e <=> \E p \in 1 .. Len(l) : l[p] = n
  BY <1>1 DEF IsList
<1>4. QED
  BY <1>2, <1>3 DEF l

\* The place of a cell in a list.
LEMMA PlaceIs ==
    ASSUME NEW l, Distinct(l), NEW p \in 1 .. Len(l)
    PROVE  Sequence!Place(l, l[p]) = p
BY DEF Sequence!Place, Distinct

-----------------------------------------------------------------------------
(* Iterators *)

\* From place p on, q is the first place of l an iterator may rest on.
FirstAt(w, l, p, q, elem) ==
    /\ q \in p .. Len(l) + 1
    /\ \A j \in p .. q - 1 : elem /\ w[l[j]].kind # "element"
    /\ q <= Len(l) /\ elem => w[l[q]].kind = "element"

\* A smallest number of a set is the one Min chooses.
LEMMA MinIs ==
    ASSUME NEW S \in SUBSET Nat, NEW x \in S, \A y \in S : x <= y
    PROVE  Min(S) = x
<1> DEFINE m == Min(S)
<1>1. m \in S /\ \A y \in S : m <= y
  BY DEF Min
<1> HIDE DEF m
<1>2. m \in Nat /\ x \in Nat /\ m <= x /\ x <= m
  BY <1>1
<1>3. m = x
  BY <1>2
<1>4. QED
  BY <1>3 DEF m

\* And a largest number is the one Max chooses.
LEMMA MaxIs ==
    ASSUME NEW S \in SUBSET Nat, NEW x \in S, \A y \in S : y <= x
    PROVE  Max(S) = x
<1> DEFINE m == Max(S)
<1>1. m \in S /\ \A y \in S : m >= y
  BY DEF Max
<1> HIDE DEF m
<1>2. m \in Nat /\ x \in Nat /\ m >= x /\ x >= m
  BY <1>1
<1>3. m = x
  BY <1>2
<1>4. QED
  BY <1>3 DEF m

\* There is a first place to rest on.
LEMMA FirstExists ==
    ASSUME NEW w, NEW l, Distinct(l), NEW p \in 1 .. Len(l) + 1, NEW elem \in BOOLEAN
    PROVE  \E q : FirstAt(w, l, p, q, elem)
<1>1. Len(l) \in Nat
  BY DistinctIs
<1>2. CASE ~elem
  <2>1. FirstAt(w, l, p, p, elem)
    BY <1>1, <1>2 DEF FirstAt
  <2>2. QED
    BY <2>1
<1>3. CASE elem
  <2> DEFINE T == {j \in p .. Len(l) + 1 : j = Len(l) + 1 \/ w[l[j]].kind = "element"}
  <2>1. T \subseteq Nat /\ Len(l) + 1 \in T
    BY <1>1
  <2>2. PICK q \in T : \A y \in T : q <= y
    BY <2>1, Smallest
  <2>3. FirstAt(w, l, p, q, elem)
    BY <2>2, <1>1, <1>3 DEF FirstAt
  <2>4. QED
    BY <2>3
<1>4. QED
  BY <1>2, <1>3

\* From finds it.
LEMMA FromIs ==
    ASSUME NEW l, Distinct(l), NEW p \in 1 .. Len(l) + 1, NEW elem \in BOOLEAN,
           NEW q, FirstAt(heap.what, l, p, q, elem)
    PROVE  Sequence!From(l, p, elem) = AfterPlace(l, q)
<1> DEFINE ok == {j \in p .. Len(l) : elem => heap.what[l[j]].kind = "element"}
<1>1. Sequence!From(l, p, elem) = IF ok = {} THEN NIL ELSE l[Min(ok)]
  BY DEF Sequence!From, Sequence!Min, Min
<1>2. Len(l) \in Nat
  BY DistinctIs
<1>3. CASE q = Len(l) + 1
  <2>1. ok = {}
    BY <1>2, <1>3 DEF FirstAt
  <2>2. QED
    BY <2>1, <1>1, <1>3 DEF AfterPlace
<1>4. CASE q # Len(l) + 1
  <2>1. q \in ok /\ ok \subseteq Nat /\ \A j \in ok : q <= j
    BY <1>2, <1>4 DEF FirstAt
  <2> HIDE DEF ok
  <2>2. Min(ok) = q /\ ok # {}
    BY <2>1, MinIs
  <2>3. QED
    BY <2>2, <1>1, <1>4 DEF AfterPlace
<1>5. QED
  BY <1>3, <1>4

\* So does Rest, which follows m_next.
LEMMA RestIs ==
    ASSUME NEW h, NEW e \in Elements, NEW l, IsList(h, e, l),
           NEW p \in 1 .. Len(l) + 1, NEW elem \in BOOLEAN,
           NEW q, FirstAt(h.what, l, p, q, elem)
    PROVE  Rest(h, AfterPlace(l, p), elem) = AfterPlace(l, q)
<1> DEFINE L == Len(l)
<1>1. /\ Distinct(l) /\ l \in Seq(Nodes) /\ L \in Nat
      /\ \A i \in 1 .. L : l[i] \in Nodes /\ l[i] # NIL
  BY ListIsDistinct, DistinctIs
<1>2. CASE ~elem
  <2>1. q = p
    BY <1>1, <1>2 DEF FirstAt
  <2>2. QED
    BY <2>1, <1>2 DEF Rest
<1>3. CASE elem /\ p = L + 1
  <2>1. q = p /\ AfterPlace(l, p) = NIL
    BY <1>1, <1>3 DEF FirstAt, AfterPlace
  <2>2. Chain(h, NIL) = <<>>
    BY ChainOfNothing
  <2>3. skip(h, NIL) = NIL
    BY <2>2 DEF skip
  <2>4. QED
    BY <2>1, <2>3, <1>3 DEF Rest
<1>4. CASE elem /\ p # L + 1
  <2> DEFINE s == Chain(h, l[p])
             ok == {i \in DOMAIN s : IsElement(h, s[i])}
  <2>1. p \in 1 .. L /\ AfterPlace(l, p) = l[p]
    BY <1>1, <1>4 DEF AfterPlace
  <2>2. Linked(h, l)
    BY DEF IsList
  <2>3. /\ s \in Seq(Nodes) /\ Len(s) = L - p + 1
        /\ \A j \in 1 .. L - p + 1 : s[j] = l[p + j - 1]
    BY <2>1, <2>2, ChainFrom
  <2>4. Rest(h, l[p], elem) = IF ok = {} THEN NIL ELSE s[Min(ok)]
    BY <1>4 DEF Rest, skip
  <2> HIDE DEF s
  <2>5. DOMAIN s = 1 .. L - p + 1
    BY <2>3, LenProperties
  <2>6. \A j \in 1 .. L - p + 1 : p + j - 1 \in 1 .. L
    BY <1>1, <2>1
  <2>7. \A j \in 1 .. L - p + 1 : j \in ok <=> h.what[l[p + j - 1]].kind = "element"
    BY <2>3, <2>5, <2>6, <1>1 DEF IsElement
  <2>8. CASE q = L + 1
    <3>1. \A j \in 1 .. L - p + 1 : p + j - 1 \in p .. q - 1
      BY <2>1, <2>8, <1>1
    <3>2. ok = {}
      BY <3>1, <2>5, <2>7 DEF FirstAt
    <3>3. QED
      BY <3>2, <2>1, <2>4, <2>8 DEF AfterPlace
  <2>9. CASE q # L + 1
    <3> DEFINE j == q - p + 1
    <3>1. /\ q \in Nat /\ j \in 1 .. L - p + 1 /\ p + j - 1 = q /\ q <= L
          /\ h.what[l[q]].kind = "element"
      BY <2>1, <2>9, <1>1, <1>4 DEF FirstAt
    <3>2. j \in ok
      BY <3>1, <2>7
    <3>3. ASSUME NEW i \in ok PROVE j <= i
      <4>1. i \in 1 .. L - p + 1 /\ h.what[l[p + i - 1]].kind = "element"
        BY <2>5, <2>7
      <4>2. p + i - 1 \notin p .. q - 1
        BY <4>1 DEF FirstAt
      <4>3. QED
        BY <4>1, <4>2, <3>1, <2>1
    <3>4. ok \subseteq Nat
      BY <2>5
    <3> HIDE DEF ok, j
    <3>5. Min(ok) = j /\ ok # {}
      BY <3>2, <3>3, <3>4, MinIs
    <3>6. s[j] = l[q]
      BY <3>1, <2>3
    <3>7. QED
      BY <3>5, <3>6, <2>1, <2>4, <2>9 DEF AfterPlace
  <2>10. QED
    BY <2>8, <2>9
<1>5. QED
  BY <1>2, <1>3, <1>4

\* The two therefore agree.
LEMMA RestIsFrom ==
    ASSUME Good(heap), NEW e \in Elements, NEW elem \in BOOLEAN,
           NEW p \in 1 .. Len(Lists(heap)[e]) + 1
    PROVE  LET l == Lists(heap)[e]
           IN  Rest(heap, AfterPlace(l, p), elem) = Sequence!From(l, p, elem)
<1> DEFINE l == Lists(heap)[e]
<1>1. IsList(heap, e, l) /\ Distinct(l)
  BY ListsOf, ListIsDistinct
<1> HIDE DEF l
<1>2. PICK q : FirstAt(heap.what, l, p, q, elem)
  BY <1>1, FirstExists DEF l
<1>3. Rest(heap, AfterPlace(l, p), elem) = AfterPlace(l, q)
  BY <1>1, <1>2, RestIs DEF l
<1>4. Sequence!From(l, p, elem) = AfterPlace(l, q)
  BY <1>1, <1>2, FromIs DEF l
<1>5. QED
  BY <1>3, <1>4 DEF l

-----------------------------------------------------------------------------
(* The steps: iterators *)

\* The sequences of NodeSequence, before and after a step.
LEMMA SeqIs ==
    /\ [e \in Elements |-> List(e)] = Lists(heap)
    /\ [e \in Elements |-> List(e)]' = Lists(heap')
BY DEF List, Lists

\* The pointers of a list, by place.
LEMMA EndsAre ==
    ASSUME NEW h, NEW e \in Elements, NEW l, IsList(h, e, l)
    PROVE  h.head[e] = AfterPlace(l, 1) /\ h.tail[e] = BeforePlace(l, Len(l) + 1)
<1>1. Distinct(l) /\ Len(l) \in Nat
  BY ListIsDistinct, DistinctIs
<1>2. QED
  BY <1>1 DEF IsList, AfterPlace, BeforePlace

\* So are those of its cells.
LEMMA PointersAre ==
    ASSUME NEW h, NEW e \in Elements, NEW l, IsList(h, e, l), NEW p \in 1 .. Len(l)
    PROVE  h.next[l[p]] = AfterPlace(l, p + 1) /\ h.prev[l[p]] = BeforePlace(l, p)
<1>1. Distinct(l) /\ Len(l) \in Nat
  BY ListIsDistinct, DistinctIs
<1>2. QED
  BY <1>1 DEF IsList, Linked, AfterPlace, BeforePlace

\* The next pointer of the cell at a place, alone.
LEMMA NextIs ==
    ASSUME NEW h, NEW e \in Elements, NEW l, IsList(h, e, l), NEW p, p \in 1 .. Len(l)
    PROVE  h.next[l[p]] = AfterPlace(l, p + 1)
  BY PointersAre

\* What is on the list has a place.
LEMMA PlaceExists ==
    ASSUME NEW h, NEW e \in Elements, NEW l, IsList(h, e, l), NEW n, OnList(h, e, n)
    PROVE  \E p \in 1 .. Len(l) + 1 : n = AfterPlace(l, p)
<1>1. Distinct(l) /\ Len(l) \in Nat
  BY ListIsDistinct, DistinctIs
<1>2. CASE n = NIL
  BY <1>1, <1>2 DEF AfterPlace
<1>3. CASE n # NIL
  <2>1. n \in Nodes /\ h.parent[n] = e
    BY <1>3 DEF OnList
  <2>2. PICK p \in 1 .. Len(l) : l[p] = n
    BY <2>1 DEF IsList
  <2>3. p \in 1 .. Len(l) + 1 /\ n = AfterPlace(l, p)
    BY <2>2, <1>1 DEF AfterPlace
  <2>4. QED
    BY <2>3
<1>4. QED
  BY <1>2, <1>3

\* A place is that of a cell, or the one after all cells.
LEMMA AfterIs ==
    ASSUME NEW l, Distinct(l), NEW p \in 1 .. Len(l) + 1, NEW n, n = AfterPlace(l, p)
    PROVE  /\ n = NIL <=> p = Len(l) + 1
           /\ n # NIL => p \in 1 .. Len(l) /\ n = l[p] /\ Sequence!Place(l, n) = p
<1>1. Len(l) \in Nat /\ \A i \in 1 .. Len(l) : l[i] # NIL
  BY DistinctIs
<1>2. CASE p = Len(l) + 1
  BY <1>2 DEF AfterPlace
<1>3. CASE p # Len(l) + 1
  <2>1. p \in 1 .. Len(l)
    BY <1>1, <1>3
  <2>2. QED
    BY <2>1, <1>1, <1>3, PlaceIs DEF AfterPlace
<1>4. QED
  BY <1>2, <1>3

\* The list an iterator is over, and where on it the iterator stands.
LEMMA IterPlace ==
    ASSUME NEW h, Good(h), NEW i, IterOK(h, i)
    PROVE  /\ i.list \in Elements /\ i.elem \in BOOLEAN /\ i.atEnd \in BOOLEAN
           /\ Distinct(Lists(h)[i.list])
           /\ \E p \in 1 .. Len(Lists(h)[i.list]) + 1 : i.cur = AfterPlace(Lists(h)[i.list], p)
<1>1. i.list \in Elements /\ i.elem \in BOOLEAN /\ i.atEnd \in BOOLEAN /\ OnList(h, i.list, i.cur)
  BY Zenon DEF IterOK, Iterators
<1> DEFINE l == Lists(h)[i.list]
<1>2. IsList(h, i.list, l)
  BY <1>1, ListsOf
<1> HIDE DEF l
<1>3. Distinct(l) /\ \E p \in 1 .. Len(l) + 1 : i.cur = AfterPlace(l, p)
  <2>1. \E p \in 1 .. Len(l) + 1 : i.cur = AfterPlace(l, p)
    BY <1>1, <1>2, PlaceExists
  <2>2. QED
    BY <1>1, <1>2, <2>1, ListIsDistinct
<1>4. QED
  BY <1>1, <1>3 DEF l

\* begin
LEMMA BeginSeq ==
    ASSUME NodeInv, NEW e \in Elements, NEW elem \in BOOLEAN, Begin(e, elem)
    PROVE  Sequence!Begin(e, elem)
<1> DEFINE l == Lists(heap)[e]
<1>1. IsList(heap, e, l) /\ Distinct(l)
  BY ListsOf, ListIsDistinct DEF NodeInv
<1>2. heap.head[e] = AfterPlace(l, 1) /\ 1 \in 1 .. Len(l) + 1
  BY <1>1, EndsAre, DistinctIs
<1>3. Rest(heap, heap.head[e], elem) = Sequence!From(l, 1, elem)
  BY <1>2, RestIsFrom DEF NodeInv
<1>4. it' = Made(e, Sequence!From(l, 1, elem), elem) /\ heap' = heap
  BY <1>3 DEF Begin
<1>5. QED
  BY <1>4, SeqIs DEF Sequence!Begin, Sequence!At, Made

\* end
LEMMA EndSeq ==
    ASSUME NEW e \in Elements, NEW elem \in BOOLEAN, End(e, elem)
    PROVE  Sequence!End(e, elem)
BY SeqIs DEF End, Sequence!End, Sequence!At, Made

\* operator++
LEMMA AdvanceSeq ==
    ASSUME NodeInv, Advance
    PROVE  Sequence!Advance
<1> DEFINE l == Lists(heap)[it.list]
<1>1. /\ it.list \in Elements /\ it.elem \in BOOLEAN /\ Good(heap) /\ Distinct(l)
      /\ IsList(heap, it.list, l)
  BY IterPlace, ListsOf DEF NodeInv
<1>2. PICK p \in 1 .. Len(l) + 1 : it.cur = AfterPlace(l, p)
  BY IterPlace DEF NodeInv
<1>3. l \in Seq(Nodes) /\ Len(l) \in Nat /\ (Len(l) = 0 <=> l = <<>>)
  BY <1>1, DistinctIs, LenProperties, EmptySeq
<1> HIDE DEF l
<1> DEFINE n == IF it.cur # NIL THEN Sequence!From(l, Sequence!Place(l, it.cur) + 1, it.elem)
                ELSE IF it.atEnd \/ l = << >> THEN NIL ELSE l[1]
<1>4. CASE it.cur # NIL
  <2>1. p \in 1 .. Len(l) /\ it.cur = l[p] /\ Sequence!Place(l, it.cur) = p
    BY <1>1, <1>2, <1>4, AfterIs, Zenon
  <2>2. p + 1 \in 1 .. Len(l) + 1 /\ heap.next[it.cur] = AfterPlace(l, p + 1)
    <3>1. heap.next[l[p]] = AfterPlace(l, p + 1)
      BY <1>1, <2>1, PointersAre
    <3>2. QED
      BY <2>1, <3>1, <1>3
  <2>3. Rest(heap, heap.next[it.cur], it.elem) = Sequence!From(l, p + 1, it.elem)
    BY <2>2, <1>1, RestIsFrom DEF l
  <2>4. it' = Sequence!At(it.list, n, it.elem)
    BY <2>1, <2>3, <1>4 DEF Advance, Incremented, Sequence!At, Made
  <2>5. QED
    BY <2>4, <1>4, SeqIs DEF l, Advance, Sequence!Advance
<1>5. CASE it.cur = NIL
  <2>1. heap.head[it.list] = IF l = <<>> THEN NIL ELSE l[1]
    BY <1>1, <1>3 DEF IsList
  <2>2. it' = Sequence!At(it.list, n, it.elem)
    BY <2>1, <1>5 DEF Advance, Incremented, Sequence!At, Made
  <2>3. QED
    BY <2>2, <1>5, SeqIs DEF l, Advance, Sequence!Advance
<1>6. QED
  BY <1>4, <1>5

\* Up to place p, q is the last place of l an iterator may rest on, 0 if none is.
LastAt(w, l, p, q, elem) ==
    /\ q \in 0 .. p
    /\ \A j \in q + 1 .. p : elem /\ w[l[j]].kind # "element"
    /\ q >= 1 /\ elem => w[l[q]].kind = "element"

\* There is such a place.
LEMMA LastExists ==
    ASSUME NEW w, NEW l, NEW p \in Nat, NEW elem \in BOOLEAN
    PROVE  \E q : LastAt(w, l, p, q, elem)
<1>1. CASE ~elem
  <2>1. LastAt(w, l, p, p, elem)
    BY <1>1 DEF LastAt
  <2>2. QED
    BY <2>1
<1>2. CASE elem
  <2> DEFINE T == {k \in 0 .. p : k = p \/ w[l[p - k]].kind = "element"}
  <2>1. T \subseteq Nat /\ p \in T
    OBVIOUS
  <2>2. PICK k \in T : \A y \in T : k <= y
    BY <2>1, Smallest
  <2>3. LastAt(w, l, p, p - k, elem)
    <3>1. p - k \in 0 .. p /\ p - (p - k) = k
      BY <2>2
    <3>2. ASSUME NEW j \in (p - k) + 1 .. p PROVE w[l[j]].kind # "element"
      <4>1. p - j \in 0 .. p /\ ~(k <= p - j) /\ p - (p - j) = j
        BY <3>1
      <4>2. p - j \notin T
        BY <4>1, <2>2
      <4>3. QED
        BY <4>1, <4>2
    <3>3. p - k >= 1 => w[l[p - k]].kind = "element"
      BY <2>2
    <3>4. QED
      BY <3>1, <3>2, <3>3, <1>2 DEF LastAt
  <2>4. QED
    BY <2>3
<1>3. QED
  BY <1>1, <1>2

\* UpTo finds it.
LEMMA UpToIs ==
    ASSUME NEW l, NEW p \in Nat, NEW elem \in BOOLEAN,
           NEW q, LastAt(heap.what, l, p, q, elem)
    PROVE  Sequence!UpTo(l, p, elem) = BeforePlace(l, q + 1)
<1> DEFINE ok == {j \in 1 .. p : elem => heap.what[l[j]].kind = "element"}
<1>1. Sequence!UpTo(l, p, elem) = IF ok = {} THEN NIL ELSE l[Max(ok)]
  BY DEF Sequence!UpTo, Sequence!Max, Max
<1>2. q \in Nat /\ (q + 1) - 1 = q
  BY DEF LastAt
<1>3. CASE q = 0
  <2>1. ok = {}
    BY <1>3 DEF LastAt
  <2>2. QED
    BY <2>1, <1>1, <1>3 DEF BeforePlace
<1>4. CASE q # 0
  <2>1. q \in ok /\ ok \subseteq Nat
    BY <1>4 DEF LastAt
  <2>2. ASSUME NEW j \in ok PROVE j <= q
    <3>1. j \notin q + 1 .. p
      BY DEF LastAt
    <3>2. QED
      BY <3>1, <1>2
  <2> HIDE DEF ok
  <2>3. Max(ok) = q /\ ok # {}
    BY <2>1, <2>2, MaxIs
  <2>4. QED
    BY <2>3, <1>1, <1>2, <1>4 DEF BeforePlace
<1>5. QED
  BY <1>3, <1>4

\* The loop of operator-- finds it too, from a cell on.
LEMMA BackFinds ==
    ASSUME NEW h, NEW i, NEW e \in Elements, NEW l, IsList(h, e, l), NEW p \in 1 .. Len(l),
           i.cur = l[p], i.elem \in BOOLEAN, NEW f, BackRun(h, i, f),
           NEW q, LastAt(h.what, l, p - 1, q, i.elem)
    PROVE  f[N] = BeforePlace(l, q + 1)
<1> DEFINE r == [k \in 0 .. N |-> IF p - k > q THEN p - k ELSE q]
           S == [k \in 0 .. N |-> {BeforePlace(l, r[k] + 1)}]
<1>1. /\ Distinct(l) /\ Len(l) \in Nat /\ N \in Nat /\ Len(l) <= N
      /\ \A j \in 1 .. Len(l) : l[j] \in Nodes /\ l[j] # NIL
  BY ListIsDistinct, DistinctIs, ListFits DEF Distinct
<1>2. q \in 0 .. p - 1 /\ p \in Nat
  BY <1>1 DEF LastAt
<1>3. \A j \in 1 .. Len(l) : BeforePlace(l, j + 1) = l[j] /\ BeforePlace(l, 0 + 1) = NIL
  BY <1>1 DEF BeforePlace
<1>4. \A k \in 0 .. N : r[k] \in q .. p /\ r[k] = IF p - k > q THEN p - k ELSE q
  BY <1>1, <1>2
<1>5. \A k \in 0 .. N : S[k] = {BeforePlace(l, r[k] + 1)}
  OBVIOUS
<1> HIDE DEF r, S
<1>6. f[0] \in S[0]
  <2>1. r[0] = p /\ 0 \in 0 .. N
    BY <1>1, <1>2, <1>4
  <2>2. QED
    BY <2>1, <1>3, <1>5 DEF BackRun
<1>7. ASSUME NEW k \in 1 .. N, f[k - 1] \in S[k - 1] PROVE f[k] \in S[k]
  <2> DEFINE c == f[k - 1]
             j == r[k - 1]
  <2>1. k \in Nat /\ k - 1 \in 0 .. N /\ k \in 0 .. N /\ p - (k - 1) = (p - k) + 1
    BY <1>1, <1>2
  <2>2. c = BeforePlace(l, j + 1) /\ j \in q .. p /\ j = IF p - (k - 1) > q THEN p - (k - 1) ELSE q
    BY <1>4, <1>5, <1>7, <2>1
  <2>3. f[k] = BackTurn(h, i, k, c)
    BY DEF BackRun
  <2> HIDE DEF c, j
  <2>4. CASE j = q
    <3>1. k > 1 /\ r[k] = q
      BY <2>1, <2>2, <2>4, <1>2, <1>4
    <3>2. c = NIL \/ (i.elem => IsElement(h, c))
      <4>1. CASE q = 0
        BY <4>1, <2>2, <2>4 DEF BeforePlace
      <4>2. CASE q # 0
        <5>1. q \in 1 .. Len(l) /\ c = l[q]
          BY <4>2, <2>2, <2>4, <1>1, <1>2, <1>3
        <5>2. i.elem => h.what[l[q]].kind = "element"
          BY <5>1, <1>1 DEF LastAt
        <5>3. QED
          BY <5>1, <5>2, <1>1 DEF IsElement
      <4>3. QED
        BY <4>1, <4>2
    <3>3. f[k] = c
      BY <2>3, <3>1, <3>2 DEF BackTurn
    <3>4. QED
      BY <3>1, <3>3, <2>1, <2>2, <2>4, <1>5
  <2>5. CASE j # q
    <3>1. j \in 1 .. Len(l) /\ j = (p - k) + 1 /\ r[k] = j - 1 /\ c = l[j] /\ c # NIL
      BY <2>1, <2>2, <2>5, <1>1, <1>2, <1>3, <1>4
    <3>2. k > 1 => ~(i.elem => IsElement(h, c))
      <4>1. k > 1 => j \in q + 1 .. p - 1
        BY <3>1, <2>1, <2>2, <2>5, <1>2
      <4>2. k > 1 => i.elem /\ h.what[l[j]].kind # "element"
        BY <4>1 DEF LastAt
      <4>3. QED
        BY <4>2, <3>1 DEF IsElement
    <3>3. f[k] = h.prev[c]
      BY <2>3, <3>1, <3>2 DEF BackTurn
    <3>4. h.prev[l[j]] = BeforePlace(l, j)
      BY <3>1, PointersAre
    <3>5. f[k] = BeforePlace(l, r[k] + 1)
      BY <3>1, <3>3, <3>4, <1>1
    <3>6. QED
      BY <3>5, <2>1, <1>5
  <2>6. QED
    BY <2>4, <2>5
<1>8. \A k \in 0 .. N : f[k] \in S[k]
  BY <1>1, <1>6, <1>7, UpTo
<1>9. r[N] = q /\ N \in 0 .. N
  BY <1>1, <1>2, <1>4
<1>10. QED
  BY <1>5, <1>8, <1>9

\* Where the cursor is null it stays so.
LEMMA BackStays ==
    ASSUME NEW h, NEW i, i.cur = NIL, NEW f, BackRun(h, i, f)
    PROVE  f[N] = NIL
<1> DEFINE S == [k \in 0 .. N |-> {NIL}]
<1>1. N \in Nat /\ \A k \in 0 .. N : S[k] = {NIL}
  BY CellsType
<1> HIDE DEF S
<1>2. f[0] \in S[0]
  BY <1>1 DEF BackRun
<1>3. ASSUME NEW k \in 1 .. N, f[k - 1] \in S[k - 1] PROVE f[k] \in S[k]
  <2>1. k - 1 \in 0 .. N /\ k \in 0 .. N
    BY <1>1
  <2>2. f[k] = NIL
    BY <2>1, <1>1, <1>3 DEF BackRun, BackTurn
  <2>3. QED
    BY <2>1, <2>2, <1>1
<1>4. \A k \in 0 .. N : f[k] \in S[k]
  BY <1>1, <1>2, <1>3, UpTo
<1>5. QED
  BY <1>1, <1>4

\* The last cell, by the name NodeSequence gives it.
LEMMA LastIs ==
    ASSUME NEW l, Distinct(l), l # <<>>
    PROVE  /\ Sequence!Last(l) = l[Len(l)] /\ Last(l) = l[Len(l)]
           /\ Len(l) \in 1 .. Len(l) /\ BeforePlace(l, Len(l) + 1) = l[Len(l)]
<1>1. l \in Seq(Nodes) /\ Len(l) \in Nat
  BY DistinctIs
<1>2. Len(l) # 0
  BY <1>1, EmptySeq
<1>3. QED
  BY <1>1, <1>2 DEF Sequence!Last, Last, BeforePlace

\* operator--
LEMMA RetreatSeq ==
    ASSUME NodeInv, Retreat
    PROVE  Sequence!Retreat
<1> DEFINE l == Lists(heap)[it.list]
<1>1. /\ it.list \in Elements /\ it.elem \in BOOLEAN /\ Good(heap) /\ Distinct(l)
      /\ IsList(heap, it.list, l)
  BY IterPlace, ListsOf DEF NodeInv
<1>2. PICK p \in 1 .. Len(l) + 1 : it.cur = AfterPlace(l, p)
  BY IterPlace DEF NodeInv
<1>3. Len(l) \in Nat /\ it \in Iterators
  BY <1>1, DistinctIs DEF NodeInv, IterOK
<1>4. PICK f : BackRun(heap, it, f)
  BY BackLoop DEF NodeInv
<1> HIDE DEF l
<1> DEFINE n == IF it.atEnd THEN (IF l = << >> THEN NIL ELSE Sequence!Last(l))
                ELSE IF it.cur = NIL THEN NIL
                ELSE Sequence!UpTo(l, Sequence!Place(l, it.cur) - 1, it.elem)
<1>5. it' = [it EXCEPT !.cur = n, !.atEnd = FALSE]
  <2>1. CASE it.atEnd
    <3>1. it' = [it EXCEPT !.cur = heap.tail[it.list], !.atEnd = FALSE]
      BY <2>1, <1>4 DEF BackRun, Retreat
    <3>2. CASE l = <<>>
      <4>1. heap.tail[it.list] = NIL
        BY <3>2, <1>1 DEF IsList
      <4>2. QED
        BY <3>1, <3>2, <4>1, <2>1
    <3>3. CASE l # <<>>
      <4>1. heap.tail[it.list] = Sequence!Last(l)
        BY <3>3, <1>1, EndsAre, LastIs
      <4>2. QED
        BY <3>1, <3>3, <4>1, <2>1
    <3>4. QED
      BY <3>2, <3>3
  <2>2. CASE ~it.atEnd
    <3>1. it' = [it EXCEPT !.cur = f[N]]
      BY <2>2, <1>4 DEF BackRun, Retreat
    <3>2. f[N] = n
      <4>1. CASE it.cur = NIL
        BY <4>1, <2>2, <1>4, BackStays
      <4>2. CASE it.cur # NIL
        <5>1. p \in 1 .. Len(l) /\ it.cur = l[p] /\ Sequence!Place(l, it.cur) = p
          BY <1>1, <1>2, <4>2, AfterIs, Zenon
        <5>2. p - 1 \in Nat
          BY <5>1, <1>3
        <5>3. PICK q : LastAt(heap.what, l, p - 1, q, it.elem)
          BY <5>2, <1>1, LastExists
        <5>4. Sequence!UpTo(l, p - 1, it.elem) = BeforePlace(l, q + 1)
          BY <5>2, <5>3, <1>1, UpToIs
        <5>5. f[N] = BeforePlace(l, q + 1)
          BY <5>1, <5>3, <1>1, <1>4, BackFinds
        <5>6. QED
          BY <5>1, <5>4, <5>5, <4>2, <2>2
      <4>3. QED
        BY <4>1, <4>2
    <3>3. it' = [it EXCEPT !.cur = n]
      BY <3>1, <3>2
    <3> HIDE DEF n
    <3>4. QED
      BY <3>3, <2>2, <1>3 DEF Iterators
  <2>3. QED
    BY <2>1, <2>2
<1>6. heap' = heap
  BY DEF Retreat
<1> DEFINE i  == IF it.cur = NIL THEN Len(l) + 1 ELSE Sequence!Place(l, it.cur)
           to == IF it.cur = NIL /\ ~it.atEnd THEN {NIL}
                 ELSE {Sequence!UpTo(l, i - 1, it.elem)} \cup
                      (IF it.atEnd /\ l # << >> THEN {Sequence!Last(l)} ELSE {})
<1>7. n \in to
  <2>1. CASE it.atEnd /\ l = <<>>
    <3>1. Len(l) = 0
      BY <2>1, EmptySeq
    <3>2. it.cur = NIL
      BY <3>1, <1>1, <1>2, AfterIs
    <3>3. 0 \in Nat /\ LastAt(heap.what, l, 0, 0, it.elem) /\ BeforePlace(l, 0 + 1) = NIL
      BY DEF LastAt, BeforePlace
    <3>4. Sequence!UpTo(l, 0, it.elem) = NIL
      BY <3>3, <1>1, UpToIs
    <3>5. i - 1 = 0
      BY <3>1, <3>2
    <3> HIDE DEF i
    <3>6. QED
      BY <2>1, <3>2, <3>4, <3>5
  <2>2. CASE it.atEnd /\ l # <<>>
    BY <2>2
  <2>3. CASE ~it.atEnd
    BY <2>3
  <2>4. QED
    BY <2>1, <2>2, <2>3
<1> HIDE DEF n
<1>8. \E m \in to : it' = [it EXCEPT !.cur = m, !.atEnd = FALSE]
  BY <1>5, <1>7
<1>9. QED
  BY <1>6, <1>8, SeqIs DEF l, Sequence!Retreat

-----------------------------------------------------------------------------
(* The steps: one cell *)

\* h is g with the cell n, which now holds w, at place p of the children of e.
Puts(g, h, e, p, n, w) ==
    /\ Good(h)
    /\ Edits(g, h, e, InsertAt(Lists(g)[e], p, n))
    /\ h.what = [g.what EXCEPT ![n] = w]

\* insert_impl puts the cell before the one it is given, or at the end.
LEMMA InsertPuts ==
    ASSUME NEW g, Good(g), NEW e \in Elements, NEW n \in Nodes, g.what[n].kind = "free",
           NEW w \in Cells, w.kind # "free", NEW pos, OnList(g, e, pos)
    PROVE  \E p \in 1 .. Len(Lists(g)[e]) + 1 :
              /\ AfterPlace(Lists(g)[e], p) = pos
              /\ Puts(g, insert_impl(Construct(g, n, w), e, pos, n), e, p, n, w)
<1> DEFINE l == Lists(g)[e]
           h == insert_impl(Construct(g, n, w), e, pos, n)
<1>1. IsList(g, e, l)
  BY ListsOf
<1>2. pos \in Pointer /\ (pos # NIL => g.parent[pos] = e) /\ g.parent[n] = NIL
  BY DEF OnList, Pointer, Good, CellOK
<1> HIDE DEF l
<1>3. PICK p \in 1 .. Len(l) + 1 : h \in Heaps /\ Inserted(g, h, e, l, p, n, w) /\ AfterPlace(l, p) = pos
  BY <1>1, <1>2, InsertPlace
<1> HIDE DEF h
<1>4. Good(h) /\ SameElse(g, h, {e})
  BY <1>1, <1>2, <1>3, InsertedGood
<1> DEFINE r == InsertAt(l, p, n)
<1>5. IsList(h, e, r)
  <2>1. g.parent[n] # e
    BY <1>2, CellsType
  <2>2. QED
    BY <2>1, <1>1, <1>3, InsertedList
<1> HIDE DEF r
<1>6. Edits(g, h, e, r)
  BY <1>4, <1>5, ListsEdit
<1>7. h.what = [g.what EXCEPT ![n] = w]
  <2>1. h.what \in [Nodes -> Cells] /\ g.what \in [Nodes -> Cells]
    BY <1>3 DEF Good, Heaps
  <2>2. \A m \in Nodes : h.what[m] = IF m = n THEN w ELSE g.what[m]
    BY <1>3 DEF Inserted
  <2>3. QED
    BY <2>1, <2>2
<1>8. Puts(g, h, e, p, n, w)
  BY <1>4, <1>6, <1>7 DEF Puts, l, r
<1>9. QED
  BY <1>3, <1>8 DEF h, l

\* h is g without the cell at place p of the children of e, which is n.
Takes(g, h, e, p, n) ==
    /\ Good(h)
    /\ Edits(g, h, e, RemoveAt(Lists(g)[e], p))
    /\ h.what = [g.what EXCEPT ![n] = Free]

\* erase_impl takes the cell it is given.
LEMMA EraseTakes ==
    ASSUME NEW g, Good(g), NEW e \in Elements, NEW p \in 1 .. Len(Lists(g)[e]),
           NEW n, n = Lists(g)[e][p]
    PROVE  Takes(g, erase_impl(g, e, n), e, p, n)
<1> DEFINE l == Lists(g)[e]
           h == erase_impl(g, e, n)
<1>1. IsList(g, e, l) /\ Distinct(l)
  BY ListsOf, ListIsDistinct
<1>2. n = l[p]
  OBVIOUS
<1> HIDE DEF l
<1>3. n \in Nodes /\ g.parent[n] = e
  BY <1>1, <1>2, DistinctIs DEF IsList, l
<1>4. PICK q \in 1 .. Len(l) : l[q] = n /\ h \in Heaps /\ Erased(g, h, e, l, q)
  BY <1>1, <1>3, ErasePlace
<1>5. q = p
  BY <1>1, <1>2, <1>4 DEF Distinct, l
<1> HIDE DEF h
<1> DEFINE r == RemoveAt(l, p)
<1>6. Good(h) /\ SameElse(g, h, {e}) /\ IsList(h, e, r)
  BY <1>1, <1>4, <1>5, ErasedGood, ErasedList
<1> HIDE DEF r
<1>7. Edits(g, h, e, r)
  BY <1>6, ListsEdit
<1>8. h.what = [g.what EXCEPT ![n] = Free]
  <2>1. h.what \in [Nodes -> Cells] /\ g.what \in [Nodes -> Cells]
    BY <1>4 DEF Good, Heaps
  <2>2. \A m \in Nodes : h.what[m] = IF m = n THEN Free ELSE g.what[m]
    BY <1>4 DEF Erased
  <2>3. QED
    BY <2>1, <2>2
<1>9. Takes(g, h, e, p, n)
  BY <1>6, <1>7, <1>8 DEF Takes, l, r
<1>10. QED
  BY <1>9 DEF h

\* What a list is when the cell at one place is gone.
LEMMA Removed ==
    ASSUME NEW l, Distinct(l), NEW q \in 1 .. Len(l), NEW r, r = RemoveAt(l, q)
    PROVE  /\ Distinct(r) /\ Len(r) = Len(l) - 1 /\ Len(r) \in Nat
           /\ \A j \in 1 .. Len(r) : r[j] = IF j < q THEN l[j] ELSE l[j + 1]
           /\ \A z \in q + 1 .. Len(l) + 1 : AfterPlace(r, z - 1) = AfterPlace(l, z)
<1>1. /\ l \in Seq(Nodes) /\ Len(l) \in Nat /\ \A i \in 1 .. Len(l) : l[i] \in Nodes
      /\ \A i, j \in 1 .. Len(l) : l[i] = l[j] => i = j
  BY DistinctIs
<1>2. r = [i \in 1 .. Len(l) - 1 |-> IF i < q THEN l[i] ELSE l[i + 1]]
  BY <1>1, RemoveAtIs
<1>3. Len(l) - 1 \in Nat /\ r \in [1 .. Len(l) - 1 -> Nodes]
  BY <1>1, <1>2
<1>4. r \in Seq(Nodes) /\ Len(r) = Len(l) - 1
  BY <1>3, FunctionIsSeq
<1>5. \A j \in 1 .. Len(r) : r[j] = IF j < q THEN l[j] ELSE l[j + 1]
  BY <1>2, <1>4
<1>6. ASSUME NEW i \in 1 .. Len(r), NEW j \in 1 .. Len(r), r[i] = r[j] PROVE i = j
  <2> DEFINE a == IF i < q THEN i ELSE i + 1
             b == IF j < q THEN j ELSE j + 1
  <2>1. a \in 1 .. Len(l) /\ b \in 1 .. Len(l) /\ (a = b => i = j)
    BY <1>1, <1>4
  <2>2. l[a] = l[b]
    BY <1>5, <1>6
  <2>3. QED
    BY <2>1, <2>2, <1>1
<1>7. ASSUME NEW z \in q + 1 .. Len(l) + 1 PROVE AfterPlace(r, z - 1) = AfterPlace(l, z)
  <2>1. CASE z = Len(l) + 1
    BY <2>1, <1>1, <1>4 DEF AfterPlace
  <2>2. CASE z # Len(l) + 1
    <3>1. /\ z - 1 \in 1 .. Len(r) /\ ~(z - 1 < q) /\ z - 1 # Len(r) + 1
          /\ (z - 1) + 1 = z
      BY <2>2, <1>1, <1>4
    <3>2. r[z - 1] = l[z]
      BY <3>1, <1>5
    <3>3. QED
      BY <2>2, <3>1, <3>2 DEF AfterPlace
  <2>3. QED
    BY <2>1, <2>2
<1>8. QED
  BY <1>3, <1>4, <1>5, <1>6, <1>7 DEF Distinct

\* The cells in use are those of the lists.
LEMMA UsedAre ==
    ASSUME Good(heap), NEW n \in Nodes, heap.what[n].kind = "free"
    PROVE  n \notin Sequence!Used
<1>1. Sequence!Used = UNION {ToSet(Lists(heap)[e]) : e \in Elements}
  BY SeqIs DEF Sequence!Used, Sequence!ToSet, ToSet
<1>2. heap.parent[n] = NIL
  BY DEF Good, CellOK
<1>3. \A e \in Elements : n \notin ToSet(Lists(heap)[e])
  BY <1>2, OnListIs, CellsType
<1>4. QED
  BY <1>1, <1>3

\* insert
LEMMA InsertSeq ==
    ASSUME NodeInv, NEW k \in Kinds, NEW s \in Content[k], Insert(k, s)
    PROVE  \E n \in Nodes : Sequence!Insert(n, k, s)
<1> DEFINE n == Cell(heap)
           w == [kind |-> k, text |-> s]
           L == Lists(heap)
           l == L[it.list]
           pos == Rest(heap, it.cur, it.elem)
<1>1. /\ it.list \in Elements /\ OnList(heap, it.list, it.cur) /\ Good(heap) /\ Distinct(l)
      /\ it.elem \in BOOLEAN /\ it.atEnd \in BOOLEAN
  BY IterPlace DEF NodeInv, IterOK
<1>2. w \in Cells /\ w.kind # "free"
  BY ContentType DEF Cells, Kinds
<1>3. /\ Room(heap, 1) /\ heap' = insert_impl(Construct(heap, n, w), it.list, pos, n)
      /\ it' = FromCell(it.list, n, it.elem) /\ (it.elem => k = "element")
  BY DEF Insert
<1>4. n \in Nodes /\ heap.what[n].kind = "free"
  BY <1>3, FreshCell
<1>5. OnList(heap, it.list, pos)
  BY <1>1, RestStays
<1>6. PICK c \in 1 .. Len(l) + 1 : it.cur = AfterPlace(l, c)
  BY IterPlace DEF NodeInv
<1>7. pos = Sequence!From(l, c, it.elem)
  BY <1>1, <1>6, RestIsFrom
<1> HIDE DEF n, w, l, pos
<1>8. PICK p \in 1 .. Len(l) + 1 : AfterPlace(l, p) = pos /\ Puts(heap, heap', it.list, p, n, w)
  BY <1>1, <1>2, <1>3, <1>4, <1>5, InsertPuts DEF l
<1> DEFINE before == IF it.cur = NIL THEN NIL ELSE Sequence!From(l, Sequence!Place(l, it.cur), it.elem)
           places == IF before # NIL THEN {Sequence!Place(l, before)}
                     ELSE IF it.cur = NIL /\ ~it.atEnd THEN 1..(Len(l) + 1)
                     ELSE {Len(l) + 1}
<1>9. before = pos
  <2>1. CASE it.cur = NIL
    <3>1. pos = NIL
      <4>1. skip(heap, NIL) = NIL
        BY ChainOfNothing DEF skip
      <4>2. QED
        BY <2>1, <4>1 DEF pos, Rest
    <3>2. QED
      BY <2>1, <3>1
  <2>2. CASE it.cur # NIL
    <3>1. Sequence!Place(l, it.cur) = c
      BY <1>1, <1>6, <2>2, AfterIs
    <3>2. QED
      BY <3>1, <2>2, <1>7
  <2>3. QED
    BY <2>1, <2>2
<1> HIDE DEF before
<1>10. p \in places
  <2>1. CASE pos = NIL
    <3>1. p = Len(l) + 1 /\ p \in 1..(Len(l) + 1)
      BY <2>1, <1>1, <1>8, AfterIs
    <3>2. QED
      BY <2>1, <3>1, <1>9
  <2>2. CASE pos # NIL
    <3>1. Sequence!Place(l, pos) = p
      BY <2>2, <1>1, <1>8, AfterIs
    <3>2. QED
      BY <2>2, <3>1, <1>9
  <2>3. QED
    BY <2>1, <2>2
<1>11. Lists(heap') = [L EXCEPT ![it.list] = Sequence!InsertAt(l, p, n)]
  BY <1>8 DEF Puts, Edits, l, Sequence!InsertAt, InsertAt
<1>12. n \notin Sequence!Used
  BY <1>1, <1>4, UsedAre
<1>13. heap.what' = [heap.what EXCEPT ![n] = Sequence!New(k, s)]
  BY <1>8 DEF Puts, Sequence!New, w
<1>14. it' = Sequence!Given(it.list, n, it.elem)
  BY <1>3 DEF FromCell, Sequence!Given
<1> HIDE DEF places
<1>15. \E i \in places : Lists(heap') = [L EXCEPT ![it.list] = Sequence!InsertAt(l, i, n)]
  BY <1>10, <1>11
<1>16. Sequence!Insert(n, k, s)
  BY <1>3, <1>15, <1>12, <1>13, <1>14, SeqIs DEF Sequence!Insert, places, before, l
<1>17. QED
  BY <1>4, <1>16

\* erase
LEMMA EraseSeq ==
    ASSUME NodeInv, Erase
    PROVE  Sequence!Erase
<1> DEFINE L == Lists(heap)
           l == L[it.list]
<1>1. /\ it.list \in Elements /\ Good(heap) /\ Distinct(l) /\ it.elem \in BOOLEAN
      /\ IsList(heap, it.list, l)
  BY IterPlace, ListsOf DEF NodeInv
<1>2. PICK q \in 1 .. Len(l) + 1 : it.cur = AfterPlace(l, q)
  BY IterPlace DEF NodeInv
<1>3. /\ it.cur # NIL /\ heap' = erase_impl(heap, it.list, it.cur)
      /\ it' = FromCell(it.list, Rest(heap', heap.next[it.cur], it.elem), it.elem)
  BY DEF Erase
<1> HIDE DEF l
<1>4. q \in 1 .. Len(l) /\ it.cur = l[q] /\ Sequence!Place(l, it.cur) = q
  BY <1>1, <1>2, <1>3, AfterIs, Zenon
<1>5. Takes(heap, heap', it.list, q, it.cur)
  BY <1>1, <1>3, <1>4, EraseTakes DEF l
<1> DEFINE r == RemoveAt(l, q)
<1>6. Lists(heap') = [L EXCEPT ![it.list] = Sequence!RemoveAt(l, q)]
  BY <1>5 DEF Takes, Edits, l, RemoveAt, Sequence!RemoveAt
<1>7. heap.what' = [heap.what EXCEPT ![it.cur] = Sequence!Unused]
  BY <1>5 DEF Takes, Free, Sequence!Unused
<1>8. Rest(heap', heap.next[it.cur], it.elem) = Sequence!From(l, q + 1, it.elem)
  <2>1. Distinct(r) /\ Len(r) = Len(l) - 1 /\ \A z \in q + 1 .. Len(l) + 1 : AfterPlace(r, z - 1) = AfterPlace(l, z)
    BY <1>1, <1>4, Removed
  <2>3. IsList(heap', it.list, r)
    BY <1>1, <1>5, ListsOf DEF Takes, Edits, l, Lists
  <2> HIDE DEF r
  <2>2. Len(l) \in Nat /\ q + 1 \in 1 .. Len(l) + 1 /\ q \in 1 .. Len(r) + 1
    BY <2>1, <1>1, <1>4, DistinctIs
  <2>4. PICK z : FirstAt(heap.what, l, q + 1, z, it.elem)
    BY <2>2, <1>1, FirstExists
  <2>5. FirstAt(heap'.what, r, q, z - 1, it.elem)
    <3>1. z \in q + 1 .. Len(l) + 1 /\ z - 1 \in q .. Len(r) + 1
      BY <2>1, <2>2, <2>4 DEF FirstAt
    <3>2. ASSUME NEW j \in q .. Len(r)
          PROVE  j + 1 \in q + 1 .. Len(l) /\ heap'.what[r[j]] = heap.what[l[j + 1]]
      <4>1. j + 1 \in q + 1 .. Len(l) /\ j \in 1 .. Len(r) /\ ~(j < q) /\ j + 1 # q
        BY <2>1, <2>2
      <4>2. r[j] = l[j + 1] /\ l[j + 1] # l[q] /\ l[j + 1] \in Nodes
        BY <4>1, <1>1, <1>4, Removed, DistinctIs DEF r
      <4>3. QED
        BY <4>1, <4>2, <1>4, <1>5 DEF Takes, NodeInv, Good, Heaps
    <3>3. ASSUME NEW j \in q .. (z - 1) - 1 PROVE it.elem /\ heap'.what[r[j]].kind # "element"
      <4>1. j \in q .. Len(r) /\ j + 1 \in q + 1 .. z - 1
        BY <3>1, <2>1, <2>2
      <4>2. QED
        BY <4>1, <3>2, <2>4 DEF FirstAt
    <3>4. z - 1 <= Len(r) /\ it.elem => heap'.what[r[z - 1]].kind = "element"
      <4>1. z - 1 <= Len(r) => z - 1 \in q .. Len(r) /\ (z - 1) + 1 = z /\ z <= Len(l)
        BY <3>1, <2>1, <2>2
      <4>2. QED
        BY <4>1, <3>2, <2>4 DEF FirstAt
    <3>5. QED
      BY <3>1, <3>3, <3>4 DEF FirstAt
  <2>6. Rest(heap', AfterPlace(r, q), it.elem) = AfterPlace(r, z - 1)
    BY <2>2, <2>3, <2>5, <1>1, RestIs
  <2>7. heap.next[it.cur] = AfterPlace(l, q + 1)
    <3>1. heap.next[l[q]] = AfterPlace(l, q + 1)
      BY <1>1, <1>4, PointersAre
    <3>2. QED
      BY <1>4, <3>1
  <2>8. Sequence!From(l, q + 1, it.elem) = AfterPlace(l, z)
    BY <2>2, <2>4, <1>1, FromIs
  <2>9. z \in q + 1 .. Len(l) + 1 /\ (q + 1) - 1 = q /\ q + 1 \in q + 1 .. Len(l) + 1
    BY <2>2, <2>4 DEF FirstAt
  <2>10. QED
    BY <2>1, <2>6, <2>7, <2>8, <2>9
<1>9. it' = Sequence!Given(it.list, Sequence!From(l, q + 1, it.elem), it.elem)
  BY <1>3, <1>8 DEF FromCell, Sequence!Given
<1>10. QED
  BY <1>3, <1>4, <1>6, <1>7, <1>9, SeqIs DEF Sequence!Erase, l

-----------------------------------------------------------------------------
(* The steps: what goes of a list *)

\* What the heap says of the cells that stay and of those that go.
Frees(g, h, gone) == h.what = [n \in Nodes |-> IF n \in gone THEN Free ELSE g.what[n]]

\* A step that keeps r of the children of e, in their order.
LEMMA KeepSeq ==
    ASSUME NodeInv, NEW e \in Elements, Renewed(e), NEW T, NEW r,
           Edits(heap, heap', e, r), Sequence!Part(r, Lists(heap)[e], T),
           Frees(heap, heap', ToSet(Lists(heap)[e]) \ T)
    PROVE  Sequence!Keep(e, T)
<1> DEFINE L == Lists(heap)
           l == L[e]
<1>1. Lists(heap') = [L EXCEPT ![e] = r]
  BY DEF Edits
<1>2. Lists(heap')[e] = r
  BY <1>1 DEF Lists
<1>3. it' = Sequence!At(e, NIL, FALSE)
  BY DEF Renewed, Made, Sequence!At
<1>4. heap.what' = [n \in Nodes |-> IF n \in Sequence!ToSet(l) \ T THEN Sequence!Unused ELSE heap.what[n]]
  BY DEF Frees, Free, Sequence!Unused, Sequence!ToSet, ToSet
<1>5. /\ [d \in Elements |-> List(d)]' = [L EXCEPT ![e] = r]
      /\ [d \in Elements |-> List(d)]'[e] = r
      /\ [d \in Elements |-> List(d)] = L
  BY <1>1, <1>2, SeqIs
<1>6. Sequence!Part(r, l, T)
  OBVIOUS
<1> HIDE DEF L
<1>7. QED
  BY <1>3, <1>4, <1>5, <1>6 DEF Sequence!Keep

\* All cells of a list but one are a part of it.
LEMMA RemovedPart ==
    ASSUME NEW l, Distinct(l), NEW q \in 1 .. Len(l), NEW T,
           ToSet(l) \cap T = ToSet(l) \ {l[q]}
    PROVE  Sequence!Part(RemoveAt(l, q), l, T)
<1> DEFINE r == RemoveAt(l, q)
<1>1. /\ Len(l) \in Nat /\ ToSet(l) = {l[i] : i \in 1 .. Len(l)}
      /\ \A i, j \in 1 .. Len(l) : l[i] = l[j] => i = j
  BY DistinctIs
<1>2. /\ Distinct(r) /\ Len(r) = Len(l) - 1 /\ DOMAIN r = 1 .. Len(r)
      /\ ToSet(r) = {r[i] : i \in 1 .. Len(r)}
      /\ \A j \in 1 .. Len(r) : r[j] = IF j < q THEN l[j] ELSE l[j + 1]
  BY Removed, DistinctIs
<1> HIDE DEF r
<1> DEFINE at(j) == IF j < q THEN j ELSE j + 1
<1>3. ASSUME NEW j \in 1 .. Len(r)
      PROVE  at(j) \in 1 .. Len(l) /\ at(j) # q /\ r[j] = l[at(j)] /\ Sequence!Place(l, r[j]) = at(j)
  <2>1. at(j) \in 1 .. Len(l) /\ at(j) # q /\ r[j] = l[at(j)]
    BY <1>1, <1>2
  <2>2. QED
    BY <2>1, PlaceIs
<1>4. ToSet(r) = ToSet(l) \ {l[q]}
  <2>1. ASSUME NEW j \in 1 .. Len(r) PROVE r[j] \in ToSet(l) \ {l[q]}
    BY <1>1, <1>3
  <2>2. ASSUME NEW i \in 1 .. Len(l), l[i] # l[q] PROVE l[i] \in ToSet(r)
    <3> DEFINE j == IF i < q THEN i ELSE i - 1
    <3>1. j \in 1 .. Len(r) /\ at(j) = i
      BY <2>2, <1>1, <1>2
    <3>2. r[j] = l[i]
      BY <3>1, <1>3
    <3>3. QED
      BY <3>1, <3>2, <1>2
  <2>3. ToSet(r) \subseteq ToSet(l) \ {l[q]}
    BY <2>1, <1>2
  <2>4. ToSet(l) \ {l[q]} \subseteq ToSet(r)
    <3> HIDE DEF at
    <3>1. QED
      BY <2>2, <1>1
  <2>5. QED
    BY <2>3, <2>4
<1>5. ASSUME NEW i \in DOMAIN r, NEW j \in DOMAIN r, i < j
      PROVE  Sequence!Place(l, r[i]) < Sequence!Place(l, r[j])
  <2>1. Sequence!Place(l, r[i]) = at(i) /\ Sequence!Place(l, r[j]) = at(j)
    BY <1>2, <1>3
  <2>2. i \in Nat /\ j \in Nat /\ q \in Nat
    BY <1>2
  <2>3. at(i) < at(j)
    BY <2>2, <1>5
  <2>4. QED
    BY <2>1, <2>3
<1>6. Sequence!ToSet(r) = Sequence!ToSet(l) \cap T
  BY <1>4 DEF Sequence!ToSet, ToSet
<1>7. QED
  BY <1>5, <1>6 DEF Sequence!Part, r

\* clear
LEMMA ClearSeq ==
    ASSUME NodeInv, NEW e \in Elements, Clear(e)
    PROVE  Sequence!Clear(e)
<1> DEFINE l == Lists(heap)[e]
<1>1. heap' = clear(heap, e) /\ Renewed(e) /\ Good(heap)
  BY DEF Clear, NodeInv
<1>2. /\ Good(heap') /\ IsList(heap', e, <<>>) /\ SameElse(heap, heap', {e})
      /\ \A m \in Nodes : heap.parent[m] # e => heap'.what[m] = heap.what[m]
      /\ \A m \in Nodes : heap.parent[m] = e => heap'.what[m] = Free
  BY <1>1, ClearGood
<1>3. Edits(heap, heap', e, <<>>)
  BY <1>1, <1>2, ListsEdit
<1>4. Sequence!Part(<<>>, l, {})
  BY DEF Sequence!Part, Sequence!ToSet
<1>5. Frees(heap, heap', ToSet(l) \ {})
  <2>1. heap'.what = [n \in Nodes |-> heap'.what[n]]
    BY <1>2 DEF Good, Heaps
  <2>2. \A n \in Nodes : n \in ToSet(l) <=> heap.parent[n] = e
    BY <1>1, OnListIs
  <2> HIDE DEF l
  <2>3. \A n \in Nodes : heap'.what[n] = IF n \in ToSet(l) \ {} THEN Free ELSE heap.what[n]
    BY <2>2, <1>2
  <2>4. QED
    BY <2>1, <2>3 DEF Frees
<1>6. Sequence!Keep(e, {})
  BY <1>1, <1>3, <1>4, <1>5, KeepSeq
<1>7. QED
  BY <1>6 DEF Sequence!Clear

\* Taking one cell and renewing the iterator.
LEMMA TakeSeq ==
    ASSUME NodeInv, NEW e \in Elements, Renewed(e), NEW p \in 1 .. Len(Lists(heap)[e]),
           NEW n, n = Lists(heap)[e][p], heap' = erase_impl(heap, e, n)
    PROVE  Sequence!Keep(e, Nodes \ {n})
<1> DEFINE l == Lists(heap)[e]
           T == Nodes \ {n}
<1>1. Good(heap) /\ Distinct(l)
  BY ListsOf, ListIsDistinct DEF NodeInv
<1>2. Takes(heap, heap', e, p, n)
  BY <1>1, EraseTakes
<1>3. ToSet(l) \cap T = ToSet(l) \ {l[p]} /\ l[p] = n /\ ToSet(l) \ T = {n}
  BY <1>1, DistinctIs
<1> HIDE DEF T
<1>4. Sequence!Part(RemoveAt(l, p), l, T)
  BY <1>1, <1>3, RemovedPart
<1>5. Frees(heap, heap', ToSet(l) \ T)
  <2>1. heap.what \in [Nodes -> Cells]
    BY <1>1 DEF Good, Heaps
  <2>2. heap'.what = [heap.what EXCEPT ![n] = Free]
    BY <1>2 DEF Takes
  <2>3. QED
    BY <1>3, <2>1, <2>2 DEF Frees
<1>6. Edits(heap, heap', e, RemoveAt(l, p))
  BY <1>2 DEF Takes
<1>7. QED
  BY <1>4, <1>5, <1>6, KeepSeq DEF T

\* A list that is not empty has a first and a last place.
LEMMA NotEmpty ==
    ASSUME NEW h, NEW e \in Elements, NEW l, IsList(h, e, l)
    PROVE  /\ h.head[e] # NIL => l # <<>> /\ 1 \in 1 .. Len(l) /\ h.head[e] = l[1] /\ l[1] = Head(l)
           /\ h.tail[e] # NIL => /\ l # <<>> /\ Len(l) \in 1 .. Len(l) /\ h.tail[e] = l[Len(l)]
                                 /\ Sequence!Last(l) = l[Len(l)]
           /\ l # <<>> => h.head[e] # NIL /\ h.tail[e] # NIL
<1>1. Distinct(l) /\ l \in Seq(Nodes) /\ Len(l) \in Nat /\ \A i \in 1 .. Len(l) : l[i] # NIL
  BY ListIsDistinct, DistinctIs
<1>2. l = <<>> <=> Len(l) = 0
  BY <1>1, EmptySeq
<1>3. l # <<>> => 1 \in 1 .. Len(l) /\ Len(l) \in 1 .. Len(l)
  BY <1>1, <1>2
<1>4. QED
  BY <1>1, <1>2, <1>3, LastIs DEF IsList

\* pop_front
LEMMA PopFrontSeq ==
    ASSUME NodeInv, NEW e \in Elements, PopFront(e)
    PROVE  Sequence!PopFront(e)
<1> DEFINE l == Lists(heap)[e]
           n == heap.head[e]
<1>1. n # NIL /\ heap' = erase_impl(heap, e, n) /\ Renewed(e) /\ IsList(heap, e, l)
  BY ListsOf DEF PopFront, NodeInv
<1>2. l # <<>> /\ 1 \in 1 .. Len(l) /\ n = l[1] /\ Head(l) = n
  BY <1>1, NotEmpty
<1>3. Sequence!Keep(e, Nodes \ {n})
  BY <1>1, <1>2, TakeSeq
<1>4. QED
  BY <1>2, <1>3, SeqIs DEF Sequence!PopFront

\* pop_back
LEMMA PopBackSeq ==
    ASSUME NodeInv, NEW e \in Elements, PopBack(e)
    PROVE  Sequence!PopBack(e)
<1> DEFINE l == Lists(heap)[e]
           i == Made(e, NIL, FALSE)
           n == Decremented(heap, i).cur
<1>1. n # NIL /\ heap' = erase_impl(heap, e, n) /\ Renewed(e) /\ IsList(heap, e, l)
  BY ListsOf DEF PopBack, NodeInv
<1>2. n = heap.tail[e]
  <2>1. i.atEnd /\ i.list = e /\ i = [list |-> e, cur |-> NIL, atEnd |-> TRUE, elem |-> FALSE]
    BY DEF Made
  <2> HIDE DEF i
  <2>2. IterOK(heap, i) /\ Good(heap)
    BY <2>1 DEF IterOK, Iterators, OnList, Pointer, NodeInv
  <2>3. PICK f : BackRun(heap, i, f)
    BY <2>2, BackLoop
  <2>4. Decremented(heap, i) = [i EXCEPT !.cur = heap.tail[e], !.atEnd = FALSE]
    BY <2>1, <2>3 DEF BackRun
  <2>5. QED
    BY <2>1, <2>4
<1> HIDE DEF n
<1>3. l # <<>> /\ Len(l) \in 1 .. Len(l) /\ n = l[Len(l)] /\ Sequence!Last(l) = n
  BY <1>1, <1>2, NotEmpty
<1>4. Sequence!Keep(e, Nodes \ {n})
  BY <1>1, <1>3, TakeSeq
<1>5. QED
  BY <1>3, <1>4, SeqIs DEF Sequence!PopBack

-----------------------------------------------------------------------------
(* The steps: whole lists *)

\* The children of d and of e are exchanged.
Trades(g, h, d, e) == Lists(h) = [Lists(g) EXCEPT ![d] = Lists(g)[e], ![e] = Lists(g)[d]]

\* swap
LEMMA SwapLists ==
    ASSUME NEW g, Good(g), NEW d \in Elements, NEW e \in Elements, d # e
    PROVE  Trades(g, swap(g, d, e), d, e) /\ swap(g, d, e).what = g.what
<1> DEFINE h == swap(g, d, e)
           a == Lists(g)
           b == Lists(h)
<1>1. /\ Good(h) /\ SameElse(g, h, {d, e}) /\ h.what = g.what
      /\ \A l : IsList(g, d, l) => IsList(h, e, l)
      /\ \A l : IsList(g, e, l) => IsList(h, d, l)
  BY SwapGood
<1> HIDE DEF h
<1>2. \A x \in Elements : IsList(g, x, a[x])
  BY ListsOf
<1>3. b[d] = a[e] /\ b[e] = a[d]
  BY <1>1, <1>2, ListsAre
<1>4. \A x \in Elements : x # d /\ x # e => b[x] = a[x]
  BY <1>1, <1>2, ListsAre DEF SameElse
<1>5. a = [x \in Elements |-> a[x]] /\ b = [x \in Elements |-> b[x]]
  BY DEF Lists
<1> HIDE DEF a, b
<1>6. b = [a EXCEPT ![d] = a[e], ![e] = a[d]]
  BY <1>3, <1>4, <1>5
<1>7. QED
  BY <1>1, <1>6 DEF a, b, h, Trades

\* swap, as a step
LEMMA SwapSeq ==
    ASSUME NodeInv, NEW d \in Elements, NEW e \in Elements, Swap(d, e)
    PROVE  Sequence!Swap(d, e)
<1>1. d # e /\ heap' = swap(heap, d, e) /\ Renewed(d) /\ Good(heap)
  BY DEF Swap, NodeInv
<1>2. Trades(heap, heap', d, e) /\ heap.what' = heap.what
  BY <1>1, SwapLists
<1>3. it' = Sequence!At(d, NIL, FALSE)
  BY <1>1 DEF Renewed, Made, Sequence!At
<1>4. Lists(heap') = [Lists(heap) EXCEPT ![d] = Lists(heap)[e], ![e] = Lists(heap)[d]]
  BY <1>2 DEF Trades
<1>5. QED
  BY <1>1, <1>2, <1>3, <1>4, SeqIs DEF Sequence!Swap

\* What clear does to the lists.
LEMMA ClearLists ==
    ASSUME NEW g, Good(g), NEW e \in Elements, NEW h, h = clear(g, e)
    PROVE  Good(h) /\ Edits(g, h, e, <<>>) /\ Frees(g, h, ToSet(Lists(g)[e]))
<1> DEFINE l == Lists(g)[e]
<1>1. /\ Good(h) /\ IsList(h, e, <<>>) /\ SameElse(g, h, {e})
      /\ \A m \in Nodes : g.parent[m] # e => h.what[m] = g.what[m]
      /\ \A m \in Nodes : g.parent[m] = e => h.what[m] = Free
  BY ClearGood
<1>2. Edits(g, h, e, <<>>)
  BY <1>1, ListsEdit
<1>3. h.what = [n \in Nodes |-> h.what[n]]
  BY <1>1 DEF Good, Heaps
<1>4. \A n \in Nodes : n \in ToSet(l) <=> g.parent[n] = e
  BY OnListIs
<1> HIDE DEF l
<1>5. \A n \in Nodes : h.what[n] = IF n \in ToSet(l) THEN Free ELSE g.what[n]
  BY <1>1, <1>4
<1>6. Frees(g, h, ToSet(l))
  BY <1>3, <1>5 DEF Frees
<1>7. QED
  BY <1>1, <1>2, <1>6 DEF l

\* Move assignment
LEMMA MoveAssignSeq ==
    ASSUME NodeInv, NEW d \in Elements, NEW e \in Elements, MoveAssign(d, e)
    PROVE  Sequence!MoveAssign(d, e)
<1> DEFINE L == Lists(heap)
           g == clear(heap, d)
           M == Lists(g)
<1>1. d # e /\ heap' = swap(g, d, e) /\ Renewed(d) /\ Good(heap)
  BY DEF MoveAssign, NodeInv
<1>2. Good(g) /\ Edits(heap, g, d, <<>>) /\ Frees(heap, g, ToSet(L[d]))
  BY <1>1, ClearLists
<1> HIDE DEF g
<1>3. Trades(g, heap', d, e) /\ heap'.what = g.what
  BY <1>1, <1>2, SwapLists
<1>4. it' = Sequence!At(d, NIL, FALSE)
  BY <1>1 DEF Renewed, Made, Sequence!At
<1>5. M = [L EXCEPT ![d] = <<>>] /\ Lists(heap') = [M EXCEPT ![d] = M[e], ![e] = M[d]]
  BY <1>2, <1>3 DEF Edits, Trades
<1>6. L = [x \in Elements |-> L[x]]
  BY DEF Lists
<1>7. heap.what' = [n \in Nodes |-> IF n \in Sequence!ToSet(L[d]) THEN Sequence!Unused ELSE heap.what[n]]
  BY <1>2, <1>3 DEF Frees, Free, Sequence!Unused, Sequence!ToSet, ToSet
<1> HIDE DEF L, M
<1>8. Lists(heap') = [L EXCEPT ![d] = L[e], ![e] = <<>>]
  BY <1>1, <1>5, <1>6
<1>9. QED
  BY <1>1, <1>4, <1>7, <1>8, SeqIs DEF Sequence!MoveAssign, L

\* A new cell at the end.
LEMMA AppendPuts ==
    ASSUME NEW g, Good(g), NEW e \in Elements, Room(g, 1), NEW w \in Cells, w.kind # "free",
           NEW n, n = Cell(g), NEW h, h = insert_impl(Construct(g, n, w), e, NIL, n)
    PROVE  /\ n \in Nodes /\ g.what[n].kind = "free" /\ Good(h)
           /\ Edits(g, h, e, Append(Lists(g)[e], n)) /\ h.what = [g.what EXCEPT ![n] = w]
<1> DEFINE l == Lists(g)[e]
<1>1. n \in Nodes /\ g.what[n].kind = "free"
  BY FreshCell
<1>2. OnList(g, e, NIL)
  BY DEF OnList
<1>3. Distinct(l)
  BY ListsOf, ListIsDistinct
<1>4. PICK p \in 1 .. Len(l) + 1 : AfterPlace(l, p) = NIL /\ Puts(g, h, e, p, n, w)
  BY <1>1, <1>2, InsertPuts
<1> HIDE DEF l
<1>5. l \in Seq(Nodes) /\ Len(l) \in Nat
  BY <1>3, DistinctIs
<1>6. p = Len(l) + 1
  BY <1>3, <1>4, AfterIs
<1> DEFINE r == InsertAt(l, p, n)
           a == Append(l, n)
<1>7. r = a
  <2>1. r = [i \in 1 .. Len(l) + 1 |-> IF i < p THEN l[i] ELSE IF i = p THEN n ELSE l[i - 1]]
    BY <1>1, <1>5, InsertAtIs
  <2>2. /\ a \in Seq(Nodes) /\ Len(a) = Len(l) + 1 /\ a[Len(l) + 1] = n
        /\ \A i \in 1 .. Len(l) : a[i] = l[i]
    BY <1>1, <1>5, AppendProperties
  <2>3. DOMAIN a = 1 .. Len(l) + 1 /\ a = [i \in 1 .. Len(l) + 1 |-> a[i]]
    BY <2>2, LenProperties
  <2> HIDE DEF a, r
  <2>4. \A i \in 1 .. Len(l) + 1 : a[i] = IF i < p THEN l[i] ELSE IF i = p THEN n ELSE l[i - 1]
    BY <2>2, <1>5, <1>6
  <2>5. QED
    BY <2>1, <2>3, <2>4
<1>8. QED
  BY <1>1, <1>4, <1>7 DEF Puts, l

\* element::add_text
LEMMA AddTextSeq ==
    ASSUME NodeInv, NEW e \in Elements, NEW s \in Content.added, AddText(e, s)
    PROVE  \E n \in Nodes : Sequence!AddText(e, n, s)
<1> DEFINE L == Lists(heap)
           l == L[e]
           t == heap.tail[e]
           extends == l # <<>> /\ heap.what[Sequence!Last(l)].kind = "text"
           w == [kind |-> "text", text |-> s]
<1>1. Good(heap) /\ IsList(heap, e, l) /\ Distinct(l) /\ s \in Seq(STRING)
  BY ListsOf, ListIsDistinct, ContentType DEF NodeInv
<1>2. it' = Sequence!At(e, NIL, FALSE)
  BY DEF AddText, Renewed, Made, Sequence!At
<1>3. /\ t # NIL <=> l # <<>>
      /\ t # NIL => Len(l) \in 1 .. Len(l) /\ t = l[Len(l)] /\ Sequence!Last(l) = t
  BY <1>1, NotEmpty
<1>4. t # NIL => t \in Nodes
  BY <1>1, <1>3, DistinctIs
<1>5. extends <=> t # NIL /\ heap.what[t].kind = "text"
  BY <1>3
<1>6. CASE extends
  <2> DEFINE x == heap.what[t].text \o s
  <2>1. heap' = [heap EXCEPT !.what[t].text = x] /\ t \in Nodes /\ heap.what[t].kind = "text"
    BY <1>4, <1>5, <1>6 DEF AddText
  <2>2. heap.what \in [Nodes -> Cells] /\ heap.what[t] \in Cells
    BY <1>1, <2>1 DEF Good, Heaps
  <2>3. x \in Seq(STRING)
    BY <1>1, <2>2, ConcatProperties DEF Cells
  <2>4. heap.what[t].kind # "free"
    BY <2>1
  <2> HIDE DEF x
  <2>5. Good(heap') /\ SameElse(heap, heap', {})
    BY <1>1, <2>1, <2>3, <2>4, TextGood
  <2>6. Lists(heap') = L
    BY <1>1, <2>5, ListsSame
  <2>7. heap.what' = [heap.what EXCEPT ![t].text = x]
    BY <2>1, <1>1 DEF Good, Heaps
  <2>8. Sequence!AddText(e, t, s)
    BY <1>2, <1>3, <1>6, <2>1, <2>6, <2>7, SeqIs DEF Sequence!AddText, x
  <2>9. QED
    BY <2>1, <2>8
<1>7. CASE ~extends
  <2> DEFINE n == Cell(heap)
  <2>1. heap' = insert_impl(Construct(heap, n, w), e, NIL, n) /\ Room(heap, 1)
    BY <1>5, <1>7 DEF AddText
  <2>2. w \in Cells /\ w.kind # "free"
    BY <1>1 DEF Cells, Kinds
  <2> HIDE DEF n, w
  <2>3. /\ n \in Nodes /\ heap.what[n].kind = "free"
        /\ Edits(heap, heap', e, Append(l, n)) /\ heap'.what = [heap.what EXCEPT ![n] = w]
    BY <2>1, <2>2, <1>1, AppendPuts DEF n
  <2>4. n \notin Sequence!Used
    BY <2>3, <1>1, UsedAre
  <2>5. Lists(heap') = [L EXCEPT ![e] = Append(@, n)]
    BY <2>3 DEF Edits
  <2>6. heap.what' = [heap.what EXCEPT ![n] = Sequence!New("text", s)]
    BY <2>3 DEF w, Sequence!New
  <2>7. Sequence!AddText(e, n, s)
    BY <1>2, <1>7, <2>4, <2>5, <2>6, SeqIs DEF Sequence!AddText
  <2>8. QED
    BY <2>3, <2>7
<1>8. QED
  BY <1>6, <1>7

\* What a list is when a cell is put at one place.
LEMMA Added ==
    ASSUME NEW l, Distinct(l), NEW q \in 1 .. Len(l) + 1, NEW n \in Nodes, NEW r, r = InsertAt(l, q, n)
    PROVE  /\ Len(r) = Len(l) + 1
           /\ \A j \in 1 .. Len(r) : r[j] = IF j < q THEN l[j] ELSE IF j = q THEN n ELSE l[j - 1]
           /\ \A z \in q .. Len(l) + 1 : AfterPlace(r, z + 1) = AfterPlace(l, z)
<1>1. l \in Seq(Nodes) /\ Len(l) \in Nat /\ \A i \in 1 .. Len(l) : l[i] \in Nodes
  BY DistinctIs
<1>2. r = [i \in 1 .. Len(l) + 1 |-> IF i < q THEN l[i] ELSE IF i = q THEN n ELSE l[i - 1]]
  BY <1>1, InsertAtIs
<1>3. Len(l) + 1 \in Nat /\ r \in [1 .. Len(l) + 1 -> Nodes]
  BY <1>1, <1>2
<1>4. Len(r) = Len(l) + 1
  BY <1>3, FunctionIsSeq
<1>5. \A j \in 1 .. Len(r) : r[j] = IF j < q THEN l[j] ELSE IF j = q THEN n ELSE l[j - 1]
  BY <1>2, <1>4
<1>6. ASSUME NEW z \in q .. Len(l) + 1 PROVE AfterPlace(r, z + 1) = AfterPlace(l, z)
  <2>1. CASE z = Len(l) + 1
    BY <2>1, <1>1, <1>4 DEF AfterPlace
  <2>2. CASE z # Len(l) + 1
    <3>1. z + 1 \in 1 .. Len(r) /\ ~(z + 1 <= q) /\ z + 1 # Len(r) + 1 /\ (z + 1) - 1 = z
      BY <2>2, <1>1, <1>4
    <3>2. r[z + 1] = l[z]
      BY <3>1, <1>5
    <3>3. QED
      BY <2>2, <3>1, <3>2 DEF AfterPlace
  <2>3. QED
    BY <2>1, <2>2
<1>7. QED
  BY <1>4, <1>5, <1>6

\* A cell has one place, and null has the one after all cells.
LEMMA OnePlace ==
    ASSUME NEW l, Distinct(l), NEW p \in 1 .. Len(l) + 1, NEW q \in 1 .. Len(l) + 1,
           AfterPlace(l, p) = AfterPlace(l, q)
    PROVE  p = q
<1>1. /\ Len(l) \in Nat /\ \A i \in 1 .. Len(l) : l[i] # NIL
      /\ \A i, j \in 1 .. Len(l) : l[i] = l[j] => i = j
  BY DistinctIs
<1>2. (p = Len(l) + 1 \/ p \in 1 .. Len(l)) /\ (q = Len(l) + 1 \/ q \in 1 .. Len(l))
  BY <1>1
<1>3. QED
  BY <1>1, <1>2 DEF AfterPlace

\* The heap with a new cell is g, written in one place.
LEMMA PutsWhat ==
    ASSUME NEW g, Good(g), NEW h, NEW e \in Elements, NEW p, NEW n \in Nodes, NEW w,
           Puts(g, h, e, p, n, w)
    PROVE  /\ \A m \in Nodes : h.what[m] = IF m = n THEN w ELSE g.what[m]
           /\ Lists(h)[e] = InsertAt(Lists(g)[e], p, n)
<1>1. h.what = [g.what EXCEPT ![n] = w] /\ Edits(g, h, e, InsertAt(Lists(g)[e], p, n))
  BY DEF Puts
<1>2. g.what \in [Nodes -> Cells]
  BY DEF Good, Heaps
<1>3. Lists(h)[e] = InsertAt(Lists(g)[e], p, n)
  BY <1>1 DEF Edits, Lists
<1>4. QED
  BY <1>1, <1>2, <1>3

\* FirstAt and Rest for iterators over elements.
FirstElement(w, l, p, q) == FirstAt(w, l, p, q, TRUE)
NextElement(h, n) == Rest(h, n, TRUE)

\* insert of a range: the first new element
LEMMA FirstOfRange ==
    ASSUME NEW g, Good(g), NEW e \in Elements, NEW m \in Nodes, g.what[m].kind = "free",
           NEW w \in Cells, w.kind = "element", NEW i, FirstElement(g.what, Lists(g)[e], 1, i),
           NEW h, h = insert_impl(Construct(g, m, w), e, AfterPlace(Lists(g)[e], i), m)
    PROVE  Puts(g, h, e, i, m, w) /\ i \in 1 .. Len(Lists(g)[e]) + 1
<1> DEFINE l == Lists(g)[e]
           pos == AfterPlace(l, i)
<1>1. IsList(g, e, l) /\ Distinct(l)
  BY ListsOf, ListIsDistinct
<1>2. i \in 1 .. Len(l) + 1 /\ Len(l) \in Nat
  BY <1>1, DistinctIs DEF FirstElement, FirstAt
<1>3. OnList(g, e, pos)
  <2>1. pos = NIL \/ (i \in 1 .. Len(l) /\ pos = l[i])
    BY <1>2 DEF AfterPlace
  <2> HIDE DEF pos
  <2>2. \A j \in 1 .. Len(l) : l[j] \in Nodes /\ g.parent[l[j]] = e
    BY <1>1, DistinctIs DEF IsList
  <2>3. QED
    BY <2>1, <2>2 DEF OnList
<1>4. w.kind # "free"
  OBVIOUS
<1>5. PICK p \in 1 .. Len(l) + 1 : AfterPlace(l, p) = pos /\ Puts(g, h, e, p, m, w)
  BY <1>3, <1>4, InsertPuts
<1>6. p = i
  BY <1>1, <1>2, <1>5, OnePlace
<1>7. QED
  BY <1>2, <1>5, <1>6

\* The first of a range, the cell m with w in it, is in, at place i.
FirstIn(g, h, e, m, w, i) ==
    /\ Good(g) /\ e \in Elements /\ m \in Nodes /\ g.what[m].kind = "free"
    /\ w \in Cells /\ w.kind = "element"
    /\ FirstElement(g.what, Lists(g)[e], 1, i) /\ Puts(g, h, e, i, m, w)

\* After it the iterator still shows what it showed, and goes on from there.
LEMMA RangeGoesOn ==
    ASSUME NEW g, NEW h, NEW e, NEW m, NEW w, NEW i, FirstIn(g, h, e, m, w, i),
           i # Len(Lists(g)[e]) + 1, NEW z, FirstElement(g.what, Lists(g)[e], i + 1, z)
    PROVE  NextElement(h, h.next[Lists(g)[e][i]]) = AfterPlace(Lists(g)[e], z)
<1> DEFINE l == Lists(g)[e]
           t == Lists(h)[e]
<1>00. FirstIn(g, h, e, m, w, i)
  OBVIOUS
<1> USE <1>00 DEF FirstIn
<1>1. IsList(g, e, l) /\ Distinct(l) /\ Good(h)
  BY ListsOf, ListIsDistinct DEF Puts
<1>2. IsList(h, e, t) /\ Distinct(t)
  BY <1>1, ListsOf, ListIsDistinct
<1>3. Len(l) \in Nat /\ i \in 1 .. Len(l) /\ i \in 1 .. Len(l) + 1
  BY <1>1, DistinctIs DEF FirstElement, FirstAt
<1>4. t = InsertAt(l, i, m) /\ \A x \in Nodes : h.what[x] = IF x = m THEN w ELSE g.what[x]
  BY PutsWhat
<1>5. FirstElement(g.what, l, i + 1, z) /\ l[i] = Lists(g)[e][i]
  OBVIOUS
<1>0. \A j \in 1 .. Len(l) : l[j] # m /\ l[j] \in Nodes
  <2>1. g.parent[m] = NIL
    BY DEF Good, CellOK
  <2>2. QED
    BY <2>1, <1>1, DistinctIs, CellsType DEF IsList
<1> HIDE DEF l, t
<1>6. /\ Len(t) = Len(l) + 1
      /\ \A j \in 1 .. Len(t) : t[j] = IF j < i THEN l[j] ELSE IF j = i THEN m ELSE l[j - 1]
      /\ \A y \in i .. Len(l) + 1 : AfterPlace(t, y + 1) = AfterPlace(l, y)
  BY <1>1, <1>3, <1>4, Added
<1>7. i + 1 \in 1 .. Len(t) /\ t[i + 1] = l[i] /\ i + 2 \in 1 .. Len(t) + 1
  BY <1>3, <1>6
<1>8. h.next[l[i]] = AfterPlace(t, i + 2)
  <2>1. h.next[t[i + 1]] = AfterPlace(t, (i + 1) + 1)
    BY <1>2, <1>7, PointersAre
  <2>2. (i + 1) + 1 = i + 2
    BY <1>3
  <2>3. QED
    BY <2>1, <2>2, <1>7
<1>9. z \in i + 1 .. Len(l) + 1
  BY <1>5 DEF FirstElement, FirstAt
<1>10. FirstElement(h.what, t, i + 2, z + 1)
  <2>1. ASSUME NEW j \in i + 2 .. Len(t)
        PROVE  j - 1 \in i + 1 .. Len(l) /\ h.what[t[j]] = g.what[l[j - 1]]
    <3>1. j - 1 \in i + 1 .. Len(l) /\ j - 1 \in 1 .. Len(l) /\ j \in 1 .. Len(t) /\ ~(j <= i)
      BY <1>3, <1>6
    <3>2. t[j] = l[j - 1]
      BY <3>1, <1>3, <1>6
    <3>3. QED
      BY <3>1, <3>2, <1>0, <1>4
  <2>2. z + 1 \in i + 2 .. Len(t) + 1
    BY <1>3, <1>6, <1>9
  <2>3. ASSUME NEW j \in i + 2 .. (z + 1) - 1 PROVE h.what[t[j]].kind # "element"
    <3>1. j \in i + 2 .. Len(t) /\ j - 1 \in i + 1 .. z - 1
      BY <1>3, <1>6, <1>9
    <3>2. QED
      BY <3>1, <2>1, <1>5 DEF FirstElement, FirstAt
  <2>4. z + 1 <= Len(t) => h.what[t[z + 1]].kind = "element"
    <3>1. z + 1 <= Len(t) => z + 1 \in i + 2 .. Len(t) /\ (z + 1) - 1 = z /\ z <= Len(l)
      BY <1>3, <1>6, <1>9
    <3>2. QED
      BY <3>1, <2>1, <1>5 DEF FirstElement, FirstAt
  <2>5. QED
    BY <2>2, <2>3, <2>4 DEF FirstElement, FirstAt
<1>11. NextElement(h, AfterPlace(t, i + 2)) = AfterPlace(t, z + 1)
  <2> DEFINE elem == TRUE
  <2>1. elem \in BOOLEAN /\ FirstAt(h.what, t, i + 2, z + 1, elem)
    BY <1>10 DEF FirstElement
  <2> HIDE DEF elem
  <2>2. Rest(h, AfterPlace(t, i + 2), elem) = AfterPlace(t, z + 1)
    BY <2>1, <1>2, <1>7, RestIs
  <2>3. QED
    BY <2>2 DEF elem, NextElement
<1>12. AfterPlace(t, z + 1) = AfterPlace(l, z)
  BY <1>3, <1>6, <1>9
<1>13. QED
  BY <1>8, <1>11, <1>12 DEF l

\* From and Rest, for iterators over the elements.
LEMMA FromElement ==
    ASSUME NEW l, Distinct(l), NEW p \in 1 .. Len(l) + 1, NEW q, FirstElement(heap.what, l, p, q)
    PROVE  Sequence!From(l, p, TRUE) = AfterPlace(l, q)
<1> DEFINE elem == TRUE
<1>1. elem \in BOOLEAN /\ FirstAt(heap.what, l, p, q, elem)
  BY DEF FirstElement
<1> HIDE DEF elem
<1>2. Sequence!From(l, p, elem) = AfterPlace(l, q)
  BY <1>1, FromIs
<1>3. QED
  BY <1>2 DEF elem

\* The first element of a list.
LEMMA RestElement ==
    ASSUME NEW h, NEW e \in Elements, NEW l, IsList(h, e, l), NEW q, FirstElement(h.what, l, 1, q)
    PROVE  NextElement(h, h.head[e]) = AfterPlace(l, q)
<1> DEFINE elem == TRUE
<1>1. elem \in BOOLEAN /\ FirstAt(h.what, l, 1, q, elem)
  BY DEF FirstElement
<1>2. h.head[e] = AfterPlace(l, 1) /\ 1 \in 1 .. Len(l) + 1
  BY EndsAre, ListIsDistinct, DistinctIs
<1> HIDE DEF elem
<1>3. Rest(h, AfterPlace(l, 1), elem) = AfterPlace(l, q)
  BY <1>1, <1>2, RestIs
<1>4. QED
  BY <1>2, <1>3 DEF elem, NextElement

\* A place shows a cell of the list or none.
LEMMA OnPlace ==
    ASSUME NEW h, NEW e \in Elements, NEW l, IsList(h, e, l), NEW p \in 1 .. Len(l) + 1
    PROVE  OnList(h, e, AfterPlace(l, p))
<1>0. Distinct(l)
  BY ListIsDistinct
<1>1. Len(l) \in Nat /\ \A j \in 1 .. Len(l) : l[j] \in Nodes /\ h.parent[l[j]] = e
  BY <1>0, DistinctIs DEF IsList
<1>2. p = Len(l) + 1 \/ p \in 1 .. Len(l)
  BY <1>1
<1>3. QED
  BY <1>1, <1>2 DEF OnList, AfterPlace

\* Where the second new element goes: to what followed the first element.
RangeAfter(s, i) == IF AfterPlace(s, i) = NIL THEN NIL ELSE Sequence!From(s, i + 1, TRUE)

\* An iterator over the elements of s at place i.
AtPlace(pos, s, i) ==
    pos.cur = AfterPlace(s, i) /\ pos.elem = TRUE /\ pos.atEnd = (pos.cur = NIL)

\* The iterator the range is inserted at shows it after the first insertion.
LEMMA SecondOfRange ==
    ASSUME NEW h, NEW e, NEW m, NEW w, NEW i, FirstIn(heap, h, e, m, w, i),
           NEW pos, AtPlace(pos, Lists(heap)[e], i)
    PROVE  /\ Incremented(h, pos).cur = RangeAfter(Lists(heap)[e], i)
           /\ \E j \in i + 1 .. Len(Lists(h)[e]) + 1 :
                 AfterPlace(Lists(h)[e], j) = RangeAfter(Lists(heap)[e], i)
<1> DEFINE s == Lists(heap)[e]
           t == Lists(h)[e]
           after == RangeAfter(s, i)
<1>0. /\ Good(heap) /\ e \in Elements /\ m \in Nodes /\ Puts(heap, h, e, i, m, w)
      /\ FirstElement(heap.what, s, 1, i)
  BY DEF FirstIn
<1>1. Distinct(s)
  BY <1>0, ListsOf, ListIsDistinct
<1>2. Len(s) \in Nat /\ i \in 1 .. Len(s) + 1
  BY <1>0, <1>1, DistinctIs DEF FirstElement, FirstAt
<1>3. t = InsertAt(s, i, m)
  BY <1>0, PutsWhat
<1>4. /\ Len(t) = Len(s) + 1
      /\ \A y \in i .. Len(s) + 1 : AfterPlace(t, y + 1) = AfterPlace(s, y)
  <2> HIDE DEF s, t
  <2>1. QED
    BY <1>0, <1>1, <1>2, <1>3, Added
<1>5. pos.cur = AfterPlace(s, i) /\ pos.elem = TRUE /\ pos.atEnd = (pos.cur = NIL)
  BY DEF AtPlace
<1>6. CASE i = Len(s) + 1
  <2>1. AfterPlace(s, i) = NIL
    BY <1>6 DEF AfterPlace
  <2>2. after = NIL /\ pos.cur = NIL /\ pos.atEnd
    BY <2>1, <1>5 DEF RangeAfter
  <2>3. Incremented(h, pos).cur = NIL
    BY <2>2 DEF Incremented, Made
  <2> HIDE DEF s, t, after
  <2>4. i + 1 \in i + 1 .. Len(t) + 1 /\ AfterPlace(t, i + 1) = NIL
    BY <2>1, <1>2, <1>4
  <2>5. \E j \in i + 1 .. Len(t) + 1 : AfterPlace(t, j) = after
    BY <2>2, <2>4
  <2>6. QED
    BY <2>2, <2>3, <2>5 DEF s, t, after
<1>7. CASE i # Len(s) + 1
  <2>1. /\ i \in 1 .. Len(s) /\ i + 1 \in 1 .. Len(s) + 1 /\ TRUE \in BOOLEAN
        /\ AfterPlace(s, i) = s[i] /\ s[i] # NIL
    BY <1>1, <1>2, <1>7, DistinctIs DEF AfterPlace
  <2>2. PICK z : FirstElement(heap.what, s, i + 1, z)
    BY <1>1, <2>1, FirstExists DEF FirstElement
  <2>3. NextElement(h, h.next[s[i]]) = AfterPlace(s, z)
    BY <1>7, <2>2, RangeGoesOn
  <2> HIDE DEF s, t
  <2>4. Sequence!From(s, i + 1, TRUE) = AfterPlace(s, z)
    BY <1>1, <2>1, <2>2, FromElement
  <2>5. after = AfterPlace(s, z)
    BY <2>1, <2>4 DEF RangeAfter
  <2>6. Incremented(h, pos).cur = after
    BY <2>1, <2>3, <2>5, <1>5 DEF Incremented, Made, NextElement
  <2>7. z \in i + 1 .. Len(s) + 1
    BY <2>2 DEF FirstElement, FirstAt
  <2> HIDE DEF after
  <2>8. z + 1 \in i + 1 .. Len(t) + 1 /\ AfterPlace(t, z + 1) = after
    BY <2>5, <2>7, <1>2, <1>4
  <2>9. QED
    BY <2>6, <2>8 DEF s, t, after
<1>8. QED
  BY <1>6, <1>7

\* What insert of a range returns: the first new element.
LEMMA RangeGives ==
    ASSUME NEW g, NEW h1, NEW e, NEW m, NEW w, NEW i, FirstIn(g, h1, e, m, w, i),
           NEW n \in Nodes, h1.what[n].kind = "free",
           NEW j \in i + 1 .. Len(Lists(h1)[e]) + 1, NEW h2, Puts(h1, h2, e, j, n, w)
    PROVE  NextElement(h2, h2.head[e]) = m
<1> DEFINE s == Lists(g)[e]
           t == Lists(h1)[e]
           r == Lists(h2)[e]
<1>00. FirstIn(g, h1, e, m, w, i)
  OBVIOUS
<1> USE <1>00 DEF FirstIn
<1>1. /\ IsList(g, e, s) /\ Distinct(s) /\ Good(h1) /\ Good(h2) /\ IsList(h1, e, t)
      /\ Distinct(t) /\ IsList(h2, e, r) /\ Distinct(r)
  BY ListsOf, ListIsDistinct DEF Puts
<1>2. /\ t = InsertAt(s, i, m) /\ \A x \in Nodes : h1.what[x] = IF x = m THEN w ELSE g.what[x]
      /\ r = InsertAt(t, j, n) /\ \A x \in Nodes : h2.what[x] = IF x = n THEN w ELSE h1.what[x]
  BY <1>1, PutsWhat
<1>3. FirstElement(g.what, s, 1, i) /\ j \in i + 1 .. Len(t) + 1
  OBVIOUS
<1>4. \A k \in 1 .. Len(t) : t[k] # n /\ t[k] \in Nodes
  <2>1. h1.parent[n] = NIL /\ NIL # e
    BY <1>1, CellsType DEF Good, CellOK
  <2>2. \A k \in 1 .. Len(t) : h1.parent[t[k]] = e
    BY <1>1 DEF IsList
  <2>3. \A k \in 1 .. Len(t) : t[k] \in Nodes
    BY <1>1, DistinctIs
  <2>4. QED
    BY <2>1, <2>2, <2>3
<1>5. \A k \in 1 .. Len(s) : s[k] # m /\ s[k] \in Nodes
  <2>1. g.parent[m] = NIL /\ NIL # e
    BY <1>1, CellsType DEF Good, CellOK
  <2>2. \A k \in 1 .. Len(s) : g.parent[s[k]] = e
    BY <1>1 DEF IsList
  <2>3. \A k \in 1 .. Len(s) : s[k] \in Nodes
    BY <1>1, DistinctIs
  <2>4. QED
    BY <2>1, <2>2, <2>3
<1> HIDE DEF s, t, r
<1>6. Len(s) \in Nat /\ i \in 1 .. Len(s) + 1
  BY <1>1, <1>3, DistinctIs DEF FirstElement, FirstAt
<1>7. /\ Len(t) = Len(s) + 1
      /\ \A k \in 1 .. Len(t) : t[k] = IF k < i THEN s[k] ELSE IF k = i THEN m ELSE s[k - 1]
  BY <1>1, <1>2, <1>6, Added
<1>8. j \in 1 .. Len(t) + 1
  BY <1>3, <1>6, <1>7
<1>9. /\ Len(r) = Len(t) + 1
      /\ \A k \in 1 .. Len(r) : r[k] = IF k < j THEN t[k] ELSE IF k = j THEN n ELSE t[k - 1]
  BY <1>1, <1>2, <1>8, Added
<1>10. i \in 1 .. Len(r) /\ i \in 1 .. Len(t) /\ r[i] = m
  BY <1>3, <1>6, <1>7, <1>9
<1>11. ASSUME NEW k \in 1 .. i - 1 PROVE k \in 1 .. Len(s) /\ r[k] = s[k]
  <2>1. k \in 1 .. Len(s) /\ k \in 1 .. Len(t) /\ k \in 1 .. Len(r) /\ k < i /\ k < j
    BY <1>3, <1>6, <1>7, <1>9
  <2>2. QED
    BY <2>1, <1>7, <1>9
<1>12. FirstElement(h2.what, r, 1, i)
  <2>1. ASSUME NEW k \in 1 .. i - 1 PROVE h2.what[r[k]].kind # "element"
    <3>1. k \in 1 .. Len(s) /\ k \in 1 .. Len(t) /\ k < i /\ r[k] = s[k]
      BY <1>6, <1>7, <1>11
    <3>2. r[k] \in Nodes /\ r[k] # m /\ r[k] # n
      BY <3>1, <1>4, <1>5, <1>7
    <3>3. h2.what[r[k]] = g.what[s[k]]
      BY <3>1, <3>2, <1>2
    <3>4. g.what[s[k]].kind # "element"
      BY <1>3 DEF FirstElement, FirstAt
    <3>5. QED
      BY <3>3, <3>4
  <2>2. h2.what[r[i]].kind = "element"
    BY <1>2, <1>4, <1>7, <1>10
  <2>3. i \in 1 .. Len(r) + 1
    BY <1>6, <1>7, <1>9
  <2>4. QED
    BY <2>1, <2>2, <2>3 DEF FirstElement, FirstAt
<1>13. NextElement(h2, h2.head[e]) = AfterPlace(r, i)
  BY <1>1, <1>12, RestElement
<1>14. AfterPlace(r, i) = m
  BY <1>6, <1>7, <1>9, <1>10 DEF AfterPlace
<1>15. QED
  BY <1>13, <1>14

\* element::insert of a range of two
LEMMA InsertRangeSeq ==
    ASSUME NodeInv, NEW e \in Elements, InsertRange(e)
    PROVE  \E m, n \in Nodes : Sequence!InsertRange(e, m, n)
<1> DEFINE L   == Lists(heap)
           s   == L[e]
           w   == [kind |-> "element", text |-> << >>]
           pos == Made(e, NextElement(heap, heap.head[e]), TRUE)
           m   == Cell(heap)
<1>00. PICK h1 : h1 = insert_impl(Construct(heap, m, w), e, pos.cur, m)
  OBVIOUS
<1> DEFINE inc == Incremented(h1, pos)
           n   == Cell(h1)
           h2  == insert_impl(Construct(h1, n, w), e, inc.cur, n)
<1>1. Room(heap, 2) /\ heap' = h2 /\ it' = Made(e, NextElement(h2, h2.head[e]), TRUE)
  BY <1>00 DEF InsertRange, NextElement
<1>2. Good(heap) /\ IsList(heap, e, s) /\ Distinct(s)
  BY ListsOf, ListIsDistinct DEF NodeInv
<1>3. w \in Cells /\ w.kind = "element" /\ w.kind # "free"
  BY DEF Cells, Kinds
<1>4. m \in Nodes /\ heap.what[m].kind = "free"
  BY <1>1, FreshCell
<1> HIDE DEF w, m
<1>5. Len(s) \in Nat /\ 1 \in 1 .. Len(s) + 1 /\ TRUE \in BOOLEAN
  BY <1>2, DistinctIs
<1>6. PICK i : FirstElement(heap.what, s, 1, i)
  BY <1>2, <1>5, FirstExists DEF FirstElement
<1>7. AtPlace(pos, s, i)
  <2>1. NextElement(heap, heap.head[e]) = AfterPlace(s, i)
    BY <1>2, <1>6, RestElement
  <2>2. QED
    BY <2>1 DEF Made, AtPlace
<1> HIDE DEF pos
<1>8. Puts(heap, h1, e, i, m, w) /\ i \in 1 .. Len(s) + 1
  BY <1>00, <1>2, <1>3, <1>4, <1>6, <1>7, FirstOfRange DEF AtPlace
<1>0. FirstIn(heap, h1, e, m, w, i)
  BY <1>2, <1>3, <1>4, <1>6, <1>8 DEF FirstIn
<1> DEFINE t == Lists(h1)[e]
<1>14. t = InsertAt(s, i, m) /\ \A x \in Nodes : h1.what[x] = IF x = m THEN w ELSE heap.what[x]
  BY <1>2, <1>4, <1>8, PutsWhat
<1>9. Good(h1) /\ Room(h1, 1)
  <2>1. Good(h1)
    BY <1>8 DEF Puts
  <2>2. ASSUME NEW k \in Nat \ {0}, Room(heap, k) PROVE Room(h1, k - 1)
    BY <2>2, <1>3, <1>4, <1>14, RoomAfter
  <2>3. Room(h1, 2 - 1)
    BY <2>2, <1>1
  <2>4. QED
    BY <2>1, <2>3
<1>10. n \in Nodes /\ h1.what[n].kind = "free"
  BY <1>9, FreshCell
<1> HIDE DEF n
<1> DEFINE after == RangeAfter(s, i)
<1>11. inc.cur = after /\ \E j \in i + 1 .. Len(t) + 1 : AfterPlace(t, j) = after
  BY <1>0, <1>7, SecondOfRange
<1>12. PICK j \in i + 1 .. Len(t) + 1 : AfterPlace(t, j) = after
  BY <1>11
<1>13. IsList(h1, e, t) /\ Distinct(t)
  BY <1>9, ListsOf, ListIsDistinct
<1> HIDE DEF inc, after
<1>15. j \in 1 .. Len(t) + 1 /\ OnList(h1, e, after)
  <2>1. Len(t) \in Nat /\ i \in Nat
    BY <1>5, <1>8, <1>13, DistinctIs
  <2>2. j \in 1 .. Len(t) + 1
    BY <2>1, <1>12
  <2>3. QED
    BY <2>2, <1>12, <1>13, OnPlace
<1>16. PICK k \in 1 .. Len(t) + 1 : AfterPlace(t, k) = after /\ Puts(h1, h2, e, k, n, w)
  BY <1>3, <1>9, <1>10, <1>11, <1>15, InsertPuts
<1>17. k = j
  BY <1>12, <1>13, <1>15, <1>16, OnePlace
<1> HIDE DEF h2
<1>18. it' = Sequence!At(e, m, TRUE)
  <2>1. NextElement(h2, h2.head[e]) = m
    BY <1>0, <1>10, <1>12, <1>16, <1>17, RangeGives
  <2>2. QED
    BY <2>1, <1>1 DEF Made, Sequence!At
<1>19. Lists(heap') = [L EXCEPT ![e] = Sequence!InsertAt(t, j, n)]
  <2>1. Lists(h1) = [L EXCEPT ![e] = t] /\ Lists(h2) = [Lists(h1) EXCEPT ![e] = InsertAt(t, j, n)]
    BY <1>8, <1>14, <1>16, <1>17 DEF Puts, Edits
  <2>2. InsertAt(t, j, n) = Sequence!InsertAt(t, j, n)
    BY DEF InsertAt, Sequence!InsertAt
  <2> HIDE DEF L, t
  <2>3. QED
    BY <2>1, <2>2, <1>1
<1>20. heap.what' = [heap.what EXCEPT ![m] = w, ![n] = w]
  BY <1>1, <1>8, <1>16 DEF Puts
<1>21. m # n /\ heap.what[n].kind = "free"
  BY <1>3, <1>10, <1>14
<1>22. m \notin Sequence!Used /\ n \notin Sequence!Used
  BY <1>2, <1>4, <1>10, <1>21, UsedAre
<1>23. w = Sequence!New("element", <<>>)
  BY DEF w, Sequence!New
<1> DEFINE first == Sequence!From(s, 1, TRUE)
           place == IF first = NIL THEN Len(s) + 1 ELSE Sequence!Place(s, first)
<1>24. first = AfterPlace(s, i)
  BY <1>2, <1>5, <1>6, FromElement
<1>25. place = i
  <2> HIDE DEF first
  <2>1. QED
    BY <1>2, <1>8, <1>24, AfterIs
<1>26. j \in (place + 1) .. (Len(s) + 2)
  <2>1. Len(t) = Len(s) + 1
    BY <1>2, <1>4, <1>8, <1>14, Added
  <2> HIDE DEF t, place
  <2>2. QED
    BY <2>1, <1>5, <1>12, <1>25
<1>27. t = Sequence!InsertAt(s, place, m)
  BY <1>14, <1>25 DEF InsertAt, Sequence!InsertAt
<1> HIDE DEF t
<1>28. Sequence!InsertRange(e, m, n)
  <2> HIDE DEF w
  <2>1. /\ it' = Sequence!At(e, m, TRUE) /\ m # n /\ {m, n} \cap Sequence!Used = {}
        /\ heap.what' = [heap.what EXCEPT ![m] = Sequence!New("element", <<>>), ![n] = Sequence!New("element", <<>>)]
    BY <1>18, <1>20, <1>21, <1>22, <1>23
  <2>2. [d \in Elements |-> List(d)]' = [L EXCEPT ![e] = Sequence!InsertAt(Sequence!InsertAt(s, place, m), j, n)]
    BY <1>19, <1>27, SeqIs
  <2>3. \E p \in (place + 1) .. (Len(s) + 2) :
           [d \in Elements |-> List(d)]' = [L EXCEPT ![e] = Sequence!InsertAt(Sequence!InsertAt(s, place, m), p, n)]
    BY <2>2, <1>26
  <2>4. QED
    BY <2>1, <2>3, SeqIs DEF Sequence!InsertRange
<1>29. QED
  BY <1>4, <1>10, <1>28

-----------------------------------------------------------------------------
(* The steps: copying a list *)

\* g is h with copies of the first k cells of s as the children of d.
Copied(h, g, d, s, k) ==
    LET l == Lists(g)[d]
    IN  /\ Len(l) = k
        /\ \A i \in 1 .. k : g.what[l[i]] = h.what[s[i]]
        /\ \A x \in Elements : x # d => Lists(g)[x] = Lists(h)[x]
        /\ \A n \in Nodes : n \in ToSet(l) \/ g.what[n] = h.what[n]

\* A cell that is free is on no list.
LEMMA FreeOnNone ==
    ASSUME NEW g, Good(g), NEW e \in Elements, NEW n \in Nodes, g.what[n].kind = "free"
    PROVE  n \notin ToSet(Lists(g)[e]) /\ \A i \in 1 .. Len(Lists(g)[e]) : Lists(g)[e][i] # n
<1>1. g.parent[n] # e
  BY CellsType DEF Good, CellOK
<1>2. QED
  BY <1>1, OnListIs

\* One turn of the loop copies one cell more.
LEMMA CopyTurn ==
    ASSUME NEW h, NEW g, Good(g), Room(g, 1), NEW d \in Elements, NEW s, NEW k \in Nat \ {0},
           NEW w \in Cells, w.kind # "free", w = h.what[s[k]], Copied(h, g, d, s, k - 1)
    PROVE  Copied(h, EmplaceTurn(d, w, g), d, s, k)
<1> DEFINE l == Lists(g)[d]
<1>1. PICK n : n = Cell(g)
  OBVIOUS
<1>2. PICK r : r = insert_impl(Construct(g, n, w), d, NIL, n)
  OBVIOUS
<1>3. /\ n \in Nodes /\ g.what[n].kind = "free" /\ Good(r)
      /\ Edits(g, r, d, Append(l, n)) /\ r.what = [g.what EXCEPT ![n] = w]
  BY <1>1, <1>2, AppendPuts
<1>4. g.what \in [Nodes -> Cells]
  BY DEF Good, Heaps
<1>5. n \notin ToSet(l) /\ \A i \in 1 .. Len(l) : l[i] # n
  BY <1>3, FreeOnNone
<1>6. l \in Seq(Nodes) /\ Len(l) \in Nat /\ ToSet(l) = {l[i] : i \in 1 .. Len(l)}
      /\ \A i \in 1 .. Len(l) : l[i] \in Nodes
  BY ListsOf, ListIsDistinct, DistinctIs
<1>7. /\ Len(l) = k - 1
      /\ \A i \in 1 .. k - 1 : g.what[l[i]] = h.what[s[i]]
      /\ \A x \in Elements : x # d => Lists(g)[x] = Lists(h)[x]
      /\ \A m \in Nodes : m \in ToSet(l) \/ g.what[m] = h.what[m]
  BY DEF Copied
<1>8. /\ Lists(r)[d] = Append(l, n)
      /\ \A x \in Elements : x # d => Lists(r)[x] = Lists(g)[x]
  BY <1>3 DEF Edits, Lists
<1> DEFINE a == Append(l, n)
<1> HIDE DEF l
<1>9. /\ a \in Seq(Nodes) /\ Len(a) = Len(l) + 1 /\ a[Len(l) + 1] = n
      /\ \A i \in 1 .. Len(l) : a[i] = l[i]
  BY <1>3, <1>6, AppendProperties
<1>10. DOMAIN a = 1 .. Len(l) + 1
  BY <1>9, LenProperties
<1> HIDE DEF a
<1>11. \A m \in Nodes : r.what[m] = IF m = n THEN w ELSE g.what[m]
  BY <1>3, <1>4
<1>12. ASSUME NEW i \in 1 .. k PROVE r.what[a[i]] = h.what[s[i]]
  <2>1. CASE i = k
    BY <2>1, <1>3, <1>7, <1>9, <1>11
  <2>2. CASE i # k
    <3>1. i \in 1 .. k - 1 /\ i \in 1 .. Len(l) /\ a[i] = l[i]
      BY <2>2, <1>7, <1>9
    <3>2. QED
      BY <3>1, <1>5, <1>6, <1>7, <1>11
  <2>3. QED
    BY <2>1, <2>2
<1>13. ASSUME NEW m \in Nodes, m \notin ToSet(a) PROVE r.what[m] = h.what[m]
  <2>1. ToSet(a) = {a[i] : i \in 1 .. Len(l) + 1}
    BY <1>10 DEF ToSet
  <2>2. m # n /\ m \notin ToSet(l)
    BY <2>1, <1>6, <1>9, <1>13
  <2>3. QED
    BY <2>2, <1>7, <1>11
<1>14. Len(a) = k
  BY <1>7, <1>9
<1>15. Copied(h, r, d, s, k)
  <2>1. Lists(r)[d] = a
    BY <1>8 DEF a
  <2>2. \A x \in Elements : x # d => Lists(r)[x] = Lists(h)[x]
    BY <1>7, <1>8
  <2>3. QED
    BY <2>1, <2>2, <1>12, <1>13, <1>14 DEF Copied
<1>16. QED
  BY <1>1, <1>2, <1>15 DEF EmplaceTurn

\* The loop copies the list.
LEMMA CopyLoop ==
    ASSUME NEW h, Good(h), NEW d \in Elements, Lists(h)[d] = <<>>, NEW s \in Seq(Nodes),
           \A i \in 1 .. Len(s) : h.what[s[i]].kind # "free", Room(h, Len(s))
    PROVE  Good(emplace_all(h, d, s)) /\ Copied(h, emplace_all(h, d, s), d, s, Len(s))
<1> DEFINE C(k) == {g \in Roomy(Len(s) - k) : Copied(h, g, d, s, k)}
           S == [k \in 0 .. Len(s) |-> C(k)]
<1>1. Len(s) \in Nat /\ \A i \in 1 .. Len(s) : s[i] \in Nodes
  BY LenProperties, ElementOfSeq
<1>2. PICK f : /\ f[0] = h
               /\ \A k \in 1 .. Len(s) : f[k] = EmplaceTurn(d, h.what[s[k]], f[k - 1])
               /\ \A k \in 0 .. Len(s) : f[k] \in Roomy(Len(s) - k)
               /\ emplace_all(h, d, s) = f[Len(s)]
  BY EmplaceAllLoop
<1>3. \A k \in 0 .. Len(s) : S[k] = C(k)
  OBVIOUS
<1>4. f[0] \in S[0]
  <2>1. Copied(h, h, d, s, 0)
    BY EmptySeq DEF Copied
  <2>2. 0 \in 0 .. Len(s)
    BY <1>1
  <2>3. QED
    BY <2>1, <2>2, <1>2, <1>3
<1> HIDE DEF S
<1>5. ASSUME NEW k \in 1 .. Len(s), f[k - 1] \in S[k - 1] PROVE f[k] \in S[k]
  <2>1. k - 1 \in 0 .. Len(s) /\ k \in 0 .. Len(s) /\ k \in Nat \ {0} /\ Len(s) - (k - 1) \in Nat \ {0}
    BY <1>1
  <2>2. PICK g : g = f[k - 1]
    OBVIOUS
  <2>3. g \in Roomy(Len(s) - (k - 1)) /\ Copied(h, g, d, s, k - 1)
    BY <2>1, <2>2, <1>3, <1>5
  <2>4. Good(g) /\ Room(g, 1)
    <3>1. Good(g) /\ Room(g, Len(s) - (k - 1))
      BY <2>3 DEF Roomy
    <3>2. Cardinality(Fresh(g)) \in Nat
      <4>1. IsFiniteSet(Fresh(g))
        BY CellsAreFinite, FS_Subset DEF Fresh
      <4>2. QED
        BY <4>1, FS_CardinalityType
    <3>3. QED
      BY <3>1, <3>2, <2>1 DEF Room
  <2>5. PICK w : w = h.what[s[k]]
    OBVIOUS
  <2>6. w \in Cells /\ w.kind # "free"
    BY <2>5, <1>1 DEF Good, Heaps
  <2>7. Copied(h, EmplaceTurn(d, w, g), d, s, k)
    BY <2>1, <2>3, <2>4, <2>5, <2>6, CopyTurn
  <2>8. f[k] = EmplaceTurn(d, w, g) /\ f[k] \in Roomy(Len(s) - k)
    BY <2>1, <2>2, <2>5, <1>2
  <2>9. QED
    BY <2>1, <2>7, <2>8, <1>3
<1>6. \A k \in 0 .. Len(s) : f[k] \in S[k]
  BY <1>1, <1>4, <1>5, UpTo
<1>7. Len(s) \in 0 .. Len(s)
  BY <1>1
<1>8. QED
  BY <1>2, <1>3, <1>6, <1>7 DEF Roomy

\* The children of one element are not those of another.
LEMMA ListsApart ==
    ASSUME NEW h, Good(h), NEW d \in Elements, NEW e \in Elements, d # e
    PROVE  ToSet(Lists(h)[d]) \cap ToSet(Lists(h)[e]) = {}
<1>1. ASSUME NEW n, n \in ToSet(Lists(h)[d]), n \in ToSet(Lists(h)[e]) PROVE FALSE
  <2>1. n \in Nodes
    <3>1. Distinct(Lists(h)[d])
      BY ListsOf, ListIsDistinct
    <3>2. QED
      BY <3>1, <1>1, DistinctIs
  <2>2. h.parent[n] = d /\ h.parent[n] = e
    BY <2>1, <1>1, OnListIs
  <2>3. QED
    BY <2>2
<1>2. QED
  BY <1>1

\* Copy assignment
LEMMA CopyAssignSeq ==
    ASSUME NodeInv, NEW d \in Elements, NEW e \in Elements, CopyAssign(d, e)
    PROVE  Sequence!CopyAssign(d, e)
<1> DEFINE L == Lists(heap)
           s == L[e]
           old == ToSet(L[d])
<1>1. PICK g : g = clear(heap, d)
  OBVIOUS
<1>2. /\ d # e /\ Room(g, Len(s)) /\ heap' = emplace_all(g, d, s) /\ Renewed(d) /\ Good(heap)
  BY <1>1 DEF CopyAssign, NodeInv, List, Lists
<1>3. Good(g) /\ Edits(heap, g, d, <<>>) /\ Frees(heap, g, old)
  BY <1>1, <1>2, ClearLists
<1>4. Lists(g)[d] = <<>> /\ \A x \in Elements : x # d => Lists(g)[x] = L[x]
  BY <1>3 DEF Edits, Lists
<1>5. IsList(heap, e, s) /\ Distinct(s) /\ old \cap ToSet(s) = {}
  BY <1>2, ListsOf, ListIsDistinct, ListsApart
<1>6. s \in Seq(Nodes) /\ Len(s) \in Nat /\ DOMAIN s = 1 .. Len(s)
  BY <1>5, DistinctIs
<1>7. \A i \in 1 .. Len(s) : s[i] \in Nodes /\ g.what[s[i]] = heap.what[s[i]] /\ heap.what[s[i]].kind # "free"
  <2>1. \A i \in 1 .. Len(s) : s[i] \in ToSet(s) /\ s[i] \in Nodes
    BY <1>5, DistinctIs
  <2>2. \A i \in 1 .. Len(s) : heap.parent[s[i]] = e
    BY <1>5 DEF IsList
  <2> HIDE DEF s, old
  <2>3. \A i \in 1 .. Len(s) : s[i] \notin old
    BY <2>1, <1>5
  <2>4. \A i \in 1 .. Len(s) : heap.what[s[i]].kind # "free"
    BY <2>1, <2>2, <1>2, CellsType DEF Good, CellOK
  <2>5. QED
    BY <2>1, <2>3, <2>4, <1>3 DEF Frees
<1> HIDE DEF s
<1>8. Good(heap') /\ Copied(g, heap', d, s, Len(s))
  BY <1>2, <1>3, <1>4, <1>6, <1>7, CopyLoop
<1> DEFINE M == Lists(heap')
           copy == M[d]
<1>9. /\ Len(copy) = Len(s)
      /\ \A i \in 1 .. Len(s) : heap'.what[copy[i]] = heap.what[s[i]]
      /\ \A x \in Elements : x # d => M[x] = L[x]
      /\ \A n \in Nodes : n \in ToSet(copy) \/ heap'.what[n] = g.what[n]
  BY <1>4, <1>7, <1>8 DEF Copied
<1>10. Distinct(copy)
  BY <1>8, ListsOf, ListIsDistinct
<1>11. Sequence!IsInjective(copy)
  BY <1>10, DistinctIs DEF Sequence!IsInjective
<1>12. ToSet(copy) \cap ToSet(s) = {}
  <2>1. s = M[e]
    BY <1>2, <1>9 DEF s
  <2>2. QED
    BY <2>1, <1>2, <1>8, ListsApart
<1>13. M = [L EXCEPT ![d] = copy]
  <2>1. M = [x \in Elements |-> M[x]] /\ L = [x \in Elements |-> L[x]]
    BY DEF Lists
  <2> HIDE DEF M, L
  <2>2. QED
    BY <2>1, <1>9
<1>14. heap'.what = [n \in Nodes |-> IF n \in ToSet(copy) THEN heap'.what[n]
                                     ELSE IF n \in old THEN Free ELSE heap.what[n]]
  <2>1. heap'.what = [n \in Nodes |-> heap'.what[n]]
    BY <1>8 DEF Good, Heaps
  <2> HIDE DEF copy, old
  <2>2. \A n \in Nodes : heap'.what[n] = IF n \in ToSet(copy) THEN heap'.what[n]
                                         ELSE IF n \in old THEN Free ELSE heap.what[n]
    BY <1>3, <1>9 DEF Frees
  <2>3. QED
    BY <2>1, <2>2
<1>15. it' = Sequence!At(d, NIL, FALSE)
  BY <1>2 DEF Renewed, Made, Sequence!At
<1>16. /\ [x \in Elements |-> List(x)]' = M
       /\ [x \in Elements |-> List(x)] = L
  BY SeqIs
<1>17. [x \in Elements |-> List(x)]'[d] = copy
  BY <1>16
<1>18. /\ M = [L EXCEPT ![d] = copy]
       /\ Len(copy) = Len(s)
       /\ Sequence!IsInjective(copy)
       /\ Sequence!ToSet(copy) \cap Sequence!ToSet(s) = {}
       /\ \A i \in DOMAIN s : heap.what'[copy[i]] = heap.what[s[i]]
       /\ heap.what' = [n \in Nodes |-> IF n \in Sequence!ToSet(copy) THEN heap.what'[n]
                                        ELSE IF n \in Sequence!ToSet(L[d]) THEN Sequence!Unused ELSE heap.what[n]]
  BY <1>6, <1>9, <1>11, <1>12, <1>13, <1>14 DEF Sequence!ToSet, ToSet, Sequence!Unused, Free
<1>19. s = L[e]
  BY DEF s
<1> HIDE DEF M, L, copy
<1>20. QED
  BY <1>2, <1>15, <1>16, <1>17, <1>18, <1>19 DEF Sequence!CopyAssign

-----------------------------------------------------------------------------
(* The steps: the loops that erase *)

\* The cell at one place leaves a part of a list.
LEMMA PartRemoved ==
    ASSUME NEW l, NEW r, Distinct(r), NEW T, Sequence!Part(r, l, T), NEW c \in 1 .. Len(r)
    PROVE  Sequence!Part(RemoveAt(r, c), l, T \ {r[c]})
<1> DEFINE v == RemoveAt(r, c)
           at(j) == IF j < c THEN j ELSE j + 1
<1>1. /\ Len(r) \in Nat /\ DOMAIN r = 1 .. Len(r) /\ ToSet(r) = {r[i] : i \in 1 .. Len(r)}
      /\ \A i, j \in 1 .. Len(r) : r[i] = r[j] => i = j
  BY DistinctIs
<1>2. /\ Distinct(v) /\ Len(v) = Len(r) - 1 /\ DOMAIN v = 1 .. Len(v)
      /\ ToSet(v) = {v[i] : i \in 1 .. Len(v)}
      /\ \A j \in 1 .. Len(v) : v[j] = IF j < c THEN r[j] ELSE r[j + 1]
  BY Removed, DistinctIs
<1>3. /\ ToSet(r) = ToSet(l) \cap T
      /\ \A i, j \in 1 .. Len(r) : i < j => Sequence!Place(l, r[i]) < Sequence!Place(l, r[j])
  BY <1>1 DEF Sequence!Part, Sequence!ToSet, ToSet
<1>4. ToSet(v) = ToSet(r) \ {r[c]}
  <2>1. Sequence!Part(v, r, Nodes \ {r[c]})
    <3>1. ToSet(r) \cap (Nodes \ {r[c]}) = ToSet(r) \ {r[c]}
      BY <1>1, DistinctIs
    <3>2. QED
      BY <3>1, RemovedPart
  <2>2. Sequence!ToSet(v) = Sequence!ToSet(r) \cap (Nodes \ {r[c]})
    BY <2>1 DEF Sequence!Part
  <2>3. ToSet(r) \subseteq Nodes
    BY <1>1, DistinctIs
  <2> HIDE DEF v
  <2>4. QED
    BY <2>2, <2>3 DEF Sequence!ToSet, ToSet
<1> HIDE DEF v
<1>5. ASSUME NEW i \in 1 .. Len(v), NEW j \in 1 .. Len(v), i < j
      PROVE  Sequence!Place(l, v[i]) < Sequence!Place(l, v[j])
  <2>1. /\ at(i) \in 1 .. Len(r) /\ at(j) \in 1 .. Len(r) /\ at(i) < at(j)
        /\ v[i] = r[at(i)] /\ v[j] = r[at(j)]
    BY <1>1, <1>2, <1>5
  <2> HIDE DEF at
  <2>2. QED
    BY <2>1, <1>3
<1>6. Sequence!ToSet(v) = Sequence!ToSet(l) \cap (T \ {r[c]})
  BY <1>3, <1>4 DEF Sequence!ToSet, ToSet
<1>7. QED
  BY <1>2, <1>5, <1>6 DEF Sequence!Part, v

\* Of the children of e some are gone in h, and no other list was touched.
Thinned(h, e, gone) ==
    /\ Edits(heap, h, e, Lists(h)[e])
    /\ gone \subseteq ToSet(Lists(heap)[e])
    /\ Sequence!Part(Lists(h)[e], Lists(heap)[e], Nodes \ gone)

\* No one is gone at first.
LEMMA ThinnedNone ==
    ASSUME Good(heap), NEW e \in Elements
    PROVE  Thinned(heap, e, {})
<1> DEFINE l == Lists(heap)[e]
<1>1. Distinct(l)
  BY ListsOf, ListIsDistinct
<1>2. Edits(heap, heap, e, l)
  BY DEF Edits, Lists
<1>3. Sequence!Part(l, l, Nodes)
  <2> HIDE DEF l
  <2>1. DOMAIN l = 1 .. Len(l) /\ ToSet(l) \subseteq Nodes
    BY <1>1, DistinctIs
  <2>2. \A i \in DOMAIN l : Sequence!Place(l, l[i]) = i
    BY <2>1, <1>1, PlaceIs
  <2>3. Sequence!ToSet(l) = Sequence!ToSet(l) \cap Nodes
    BY <2>1 DEF Sequence!ToSet, ToSet
  <2>4. QED
    BY <2>2, <2>3 DEF Sequence!Part
<1>4. Nodes \ {} = Nodes
  OBVIOUS
<1>5. QED
  BY <1>2, <1>3, <1>4 DEF Thinned

\* An erasure takes one more.
LEMMA ThinnedMore ==
    ASSUME Good(heap), NEW h, Good(h), NEW e \in Elements, NEW gone, Thinned(h, e, gone),
           NEW c \in 1 .. Len(Lists(h)[e]), NEW n, n = Lists(h)[e][c],
           NEW g, Takes(h, g, e, c, n)
    PROVE  Thinned(g, e, gone \cup {n})
<1> DEFINE l == Lists(heap)[e]
           r == Lists(h)[e]
           v == RemoveAt(r, c)
<1>1. Distinct(r) /\ n = r[c]
  BY ListsOf, ListIsDistinct
<1>2. Lists(g)[e] = v /\ Edits(heap, g, e, v)
  BY DEF Takes, Thinned, Edits, Lists
<1>3. Sequence!Part(r, l, Nodes \ gone)
  BY DEF Thinned
<1>4. Sequence!Part(v, l, (Nodes \ gone) \ {n})
  <2> HIDE DEF l, r
  <2>1. c \in 1 .. Len(r)
    BY DEF r
  <2>2. QED
    BY <2>1, <1>1, <1>3, PartRemoved
<1>5. (Nodes \ gone) \ {n} = Nodes \ (gone \cup {n})
  OBVIOUS
<1>6. gone \cup {n} \subseteq ToSet(l)
  <2>1. n \in ToSet(r)
    BY <1>1, DistinctIs
  <2>2. ToSet(r) \subseteq ToSet(l)
    <3> HIDE DEF l, r
    <3>1. QED
      BY <1>3 DEF Sequence!Part, Sequence!ToSet, ToSet
  <2>3. QED
    BY <2>1, <2>2 DEF Thinned
<1>7. QED
  BY <1>2, <1>4, <1>5, <1>6 DEF Thinned

\* What the cells that are not gone hold.
LEMMA FreesMore ==
    ASSUME NEW g, NEW h, NEW k, NEW gone, Frees(g, h, gone), NEW n,
           k.what = [h.what EXCEPT ![n] = Free]
    PROVE  Frees(g, k, gone \cup {n})
BY DEF Frees

\* What the loop over the elements has done after k turns: h is the heap, i the
\* iterator, which shows the first element that is left.
ErasedSome(h, i, e, k) ==
    /\ i.list = e /\ i.elem = TRUE
    /\ \E gone : /\ Thinned(h, e, gone) /\ Frees(heap, h, gone)
                 /\ \A n \in gone : heap.what[n].kind = "element"
    /\ \E c : FirstElement(h.what, Lists(h)[e], 1, c) /\ i.cur = AfterPlace(Lists(h)[e], c)
    /\ i.cur = NIL \/ Len(Lists(h)[e]) + k <= Len(Lists(heap)[e])

\* In h, c is the place of the first element, the cell n, and z that of the next;
\* in g the first is gone.
FirstGone(h, g, e, c, n, z) ==
    /\ Good(h) /\ e \in Elements /\ c # Len(Lists(h)[e]) + 1 /\ n = Lists(h)[e][c]
    /\ FirstElement(h.what, Lists(h)[e], 1, c) /\ FirstElement(h.what, Lists(h)[e], c + 1, z)
    /\ Takes(h, g, e, c, n)

\* Once the first element is gone, the first that is left is the next one.
LEMMA NextIsFirst ==
    ASSUME NEW h, NEW g, NEW e, NEW c, NEW n, NEW z, FirstGone(h, g, e, c, n, z)
    PROVE  FirstElement(g.what, Lists(g)[e], 1, z - 1)
           /\ AfterPlace(Lists(g)[e], z - 1) = AfterPlace(Lists(h)[e], z)
<1> DEFINE r == Lists(h)[e]
           v == Lists(g)[e]
<1>0. /\ Good(h) /\ e \in Elements /\ c # Len(r) + 1 /\ n = r[c] /\ Takes(h, g, e, c, n)
      /\ FirstElement(h.what, r, 1, c) /\ FirstElement(h.what, r, c + 1, z)
  BY DEF FirstGone
<1>1. Distinct(r) /\ n = r[c] /\ FirstElement(h.what, r, 1, c) /\ FirstElement(h.what, r, c + 1, z)
  BY <1>0, ListsOf, ListIsDistinct
<1>2. v = RemoveAt(r, c) /\ g.what = [h.what EXCEPT ![n] = Free] /\ h.what \in [Nodes -> Cells]
  BY <1>0 DEF Takes, Edits, Lists, Good, Heaps
<1>3. c # Len(r) + 1
  BY <1>0
<1> HIDE DEF r, v
<1>4. Len(r) \in Nat /\ c \in 1 .. Len(r) /\ z \in c + 1 .. Len(r) + 1
  BY <1>1, <1>3, DistinctIs DEF FirstElement, FirstAt
<1>5. /\ Distinct(v) /\ Len(v) = Len(r) - 1
      /\ \A j \in 1 .. Len(v) : v[j] = IF j < c THEN r[j] ELSE r[j + 1]
      /\ \A y \in c + 1 .. Len(r) + 1 : AfterPlace(v, y - 1) = AfterPlace(r, y)
  BY <1>1, <1>2, <1>4, Removed
<1> DEFINE at(j) == IF j < c THEN j ELSE j + 1
<1>6. ASSUME NEW j \in 1 .. Len(v) PROVE at(j) \in 1 .. Len(r) /\ g.what[v[j]] = h.what[r[at(j)]]
  <2>1. at(j) \in 1 .. Len(r) /\ at(j) # c /\ v[j] = r[at(j)]
    BY <1>4, <1>5
  <2>2. r[at(j)] \in Nodes /\ r[at(j)] # n
    BY <2>1, <1>1, <1>4, DistinctIs
  <2>3. QED
    BY <2>1, <2>2, <1>2
<1>7. z - 1 \in 1 .. Len(v) + 1
  BY <1>4, <1>5
<1>8. ASSUME NEW j \in 1 .. (z - 1) - 1 PROVE g.what[v[j]].kind # "element"
  <2>1. j \in 1 .. Len(v) /\ (at(j) \in 1 .. c - 1 \/ at(j) \in c + 1 .. z - 1)
    BY <1>4, <1>7
  <2>2. h.what[r[at(j)]].kind # "element"
    BY <2>1, <1>1 DEF FirstElement, FirstAt
  <2>3. QED
    BY <2>1, <2>2, <1>6
<1>9. z - 1 <= Len(v) => g.what[v[z - 1]].kind = "element"
  <2>1. SUFFICES ASSUME z - 1 <= Len(v) PROVE g.what[v[z - 1]].kind = "element"
    OBVIOUS
  <2>2. z - 1 \in 1 .. Len(v) /\ at(z - 1) = z /\ z <= Len(r)
    BY <2>1, <1>4, <1>5, <1>7
  <2>3. h.what[r[z]].kind = "element"
    BY <2>2, <1>1 DEF FirstElement, FirstAt
  <2>4. QED
    BY <2>2, <2>3, <1>6
<1>10. FirstElement(g.what, v, 1, z - 1)
  BY <1>7, <1>8, <1>9 DEF FirstElement, FirstAt
<1>11. QED
  BY <1>4, <1>5, <1>10 DEF r, v

\* One turn.
LEMMA EraseTurnSeq ==
    ASSUME Good(heap), NEW e \in Elements, NEW h, Good(h), NEW i, NEW k \in Nat \ {0},
           ErasedSome(h, i, e, k - 1), NEW p, p = EraseTurn(e, <<h, i>>)
    PROVE  ErasedSome(p[1], p[2], e, k)
<1> DEFINE l == Lists(heap)[e]
           r == Lists(h)[e]
<1>1. /\ i.list = e /\ i.elem = TRUE
      /\ i.cur = NIL \/ Len(r) + (k - 1) <= Len(l)
  BY DEF ErasedSome
<1>2. PICK gone : /\ Thinned(h, e, gone) /\ Frees(heap, h, gone)
                  /\ \A n \in gone : heap.what[n].kind = "element"
  BY DEF ErasedSome
<1>3. PICK c : FirstElement(h.what, r, 1, c) /\ i.cur = AfterPlace(r, c)
  BY DEF ErasedSome
<1>4. Distinct(r) /\ Distinct(l) /\ IsList(h, e, r)
  BY ListsOf, ListIsDistinct
<1>5. CASE i.cur = NIL
  <2>1. p[1] = h /\ p[2] = i
    BY <1>5 DEF EraseTurn
  <2>2. QED
    BY <2>1, <1>1, <1>2, <1>3, <1>5 DEF ErasedSome
<1>6. CASE i.cur # NIL
  <2> DEFINE n == i.cur
  <2>1. /\ Len(r) \in Nat /\ Len(l) \in Nat /\ c \in 1 .. Len(r) /\ n = r[c] /\ c # Len(r) + 1
        /\ c + 1 \in 1 .. Len(r) + 1 /\ c \in 1 .. Len(r) + 1
    <3> HIDE DEF r, l
    <3>1. Len(r) \in Nat /\ Len(l) \in Nat /\ c \in 1 .. Len(r) + 1
      BY <1>3, <1>4, DistinctIs DEF FirstElement, FirstAt
    <3>2. c \in 1 .. Len(r) /\ n = r[c]
      BY <3>1, <1>3, <1>4, <1>6, AfterIs
    <3>3. QED
      BY <3>1, <3>2
  <2>2. PICK g : g = erase_impl(h, e, n)
    OBVIOUS
  <2>3. Takes(h, g, e, c, n)
    BY <2>1, <2>2, EraseTakes
  <2>4. PICK z : FirstElement(h.what, r, c + 1, z)
    <3>1. \E z : FirstAt(h.what, r, c + 1, z, TRUE)
      BY <2>1, <1>4, FirstExists
    <3>2. QED
      BY <3>1 DEF FirstElement
  <2>5. NextElement(h, h.next[n]) = AfterPlace(r, z)
    <3> DEFINE elem == TRUE
    <3>1. elem \in BOOLEAN /\ FirstAt(h.what, r, c + 1, z, elem)
      BY <2>4 DEF FirstElement
    <3>2. h.next[r[c]] = AfterPlace(r, c + 1)
      <4>1. c \in 1 .. Len(r) /\ IsList(h, e, r)
        BY <2>1, <1>4
      <4> HIDE DEF r
      <4>2. QED
        BY <4>1, NextIs
    <3> HIDE DEF elem, r
    <3>3. Rest(h, AfterPlace(r, c + 1), elem) = AfterPlace(r, z)
      BY <3>1, <2>1, <1>4, RestIs
    <3>4. QED
      BY <3>2, <3>3, <2>1 DEF elem, NextElement
  <2>6. PICK j : j = Incremented(h, i)
    OBVIOUS
  <2>7. j.list = e /\ j.elem = TRUE /\ j.cur = AfterPlace(r, z)
    BY <2>5, <2>6, <1>1, <1>6 DEF Incremented, Made, NextElement
  <2>8. p[1] = g /\ p[2] = j
    BY <2>2, <2>6, <1>6 DEF EraseTurn
  <2> DEFINE v == Lists(g)[e]
  <2>9. FirstElement(g.what, v, 1, z - 1) /\ AfterPlace(v, z - 1) = AfterPlace(r, z)
    <3>1. FirstGone(h, g, e, c, n, z)
      BY <2>1, <2>3, <2>4, <1>3 DEF FirstGone
    <3>2. QED
      BY <3>1, NextIsFirst
  <2>10. Thinned(g, e, gone \cup {n})
    BY <2>1, <2>3, <1>2, ThinnedMore
  <2>11. Frees(heap, g, gone \cup {n})
    BY <2>3, <1>2, FreesMore DEF Takes
  <2>12. heap.what[n].kind = "element"
    <3>1. n \in Nodes
      BY <2>1, <1>4, DistinctIs
    <3>2. h.what[n].kind = "element"
      BY <2>1, <1>3 DEF FirstElement, FirstAt
    <3>3. h.what[n] = Free \/ h.what[n] = heap.what[n]
      BY <3>1, <1>2 DEF Frees
    <3>4. Free.kind # "element"
      BY DEF Free
    <3>5. QED
      BY <3>2, <3>3, <3>4
  <2>13. Len(v) + k <= Len(l)
    <3>1. v = RemoveAt(r, c)
      BY <2>3 DEF Takes, Edits, Lists
    <3>2. Len(v) = Len(r) - 1
      BY <3>1, <2>1, <1>4, Removed
    <3>3. Len(r) + (k - 1) <= Len(l)
      BY <1>1, <1>6
    <3> HIDE DEF v, r, l
    <3>4. QED
      BY <3>2, <3>3, <2>1
  <2>14. ErasedSome(g, j, e, k)
    <3> HIDE DEF n
    <3>1. \A m \in gone \cup {n} : heap.what[m].kind = "element"
      BY <2>12, <1>2
    <3>2. \E q : FirstElement(g.what, v, 1, q) /\ j.cur = AfterPlace(v, q)
      BY <2>7, <2>9
    <3>3. QED
      BY <3>1, <3>2, <2>7, <2>10, <2>11, <2>13 DEF ErasedSome
  <2>15. QED
    BY <2>8, <2>14
<1>7. QED
  BY <1>5, <1>6

\* element::erase(begin(), end())
LEMMA EraseElementsSeq ==
    ASSUME NodeInv, NEW e \in Elements, EraseElements(e)
    PROVE  Sequence!EraseElements(e)
<1> DEFINE l == Lists(heap)[e]
           D(k) == {p \in Turns(e) : ErasedSome(p[1], p[2], e, k)}
           S == [k \in 0 .. N |-> D(k)]
           T == {n \in Nodes : heap.what[n].kind # "element"}
<1>1. Good(heap) /\ IsList(heap, e, l) /\ Distinct(l) /\ N \in Nat
  BY ListsOf, ListIsDistinct, CellsType DEF NodeInv
<1>2. PICK f : /\ f[0] = <<heap, Made(e, Rest(heap, heap.head[e], TRUE), TRUE)>>
               /\ \A k \in 1 .. N : f[k] = EraseTurn(e, f[k - 1])
               /\ \A k \in 0 .. N : f[k] \in Turns(e)
               /\ heap' = f[N][1]
  BY <1>1, EraseElementsLoop
<1>3. \A k \in 0 .. N : S[k] = D(k)
  OBVIOUS
<1> HIDE DEF S
<1>4. f[0] \in S[0]
  <2> DEFINE i == Made(e, NextElement(heap, heap.head[e]), TRUE)
  <2>1. f[0] = <<heap, i>>
    BY <1>2 DEF NextElement
  <2>2. PICK c : FirstElement(heap.what, l, 1, c)
    <3> DEFINE elem == TRUE
    <3>1. elem \in BOOLEAN /\ 1 \in 1 .. Len(l) + 1
      BY <1>1, DistinctIs
    <3> HIDE DEF elem, l
    <3>2. \E c : FirstAt(heap.what, l, 1, c, elem)
      BY <3>1, <1>1, FirstExists
    <3>3. QED
      BY <3>2 DEF FirstElement, elem
  <2>3. NextElement(heap, heap.head[e]) = AfterPlace(l, c)
    BY <2>2, <1>1, RestElement
  <2>4. i.list = e /\ i.elem = TRUE /\ i.cur = AfterPlace(l, c)
    BY <2>3 DEF Made
  <2>5. Thinned(heap, e, {}) /\ Frees(heap, heap, {})
    <3>1. heap.what = [n \in Nodes |-> heap.what[n]]
      BY <1>1 DEF Good, Heaps
    <3>2. Frees(heap, heap, {})
      BY <3>1 DEF Frees
    <3>3. QED
      BY <3>2, <1>1, ThinnedNone
  <2> HIDE DEF i
  <2>6. Len(l) + 0 <= Len(l)
    BY <1>1, DistinctIs
  <2>7. ErasedSome(heap, i, e, 0)
    BY <2>2, <2>4, <2>5, <2>6 DEF ErasedSome
  <2>8. 0 \in 0 .. N
    BY <1>1
  <2>9. QED
    BY <2>1, <2>7, <2>8, <1>2, <1>3
<1>5. ASSUME NEW k \in 1 .. N, f[k - 1] \in S[k - 1] PROVE f[k] \in S[k]
  <2>1. k - 1 \in 0 .. N /\ k \in 0 .. N /\ k \in Nat \ {0}
    BY <1>1
  <2>2. PICK h, i : f[k - 1] = <<h, i>>
    BY <2>1, <1>2 DEF Turns
  <2>3. <<h, i>> \in Turns(e) /\ ErasedSome(h, i, e, k - 1)
    BY <2>1, <2>2, <1>3, <1>5
  <2>4. Good(h)
    BY <2>3, TurnsAre
  <2>5. PICK p : p = EraseTurn(e, <<h, i>>)
    OBVIOUS
  <2>6. ErasedSome(p[1], p[2], e, k)
    BY <2>1, <2>3, <2>4, <2>5, <1>1, EraseTurnSeq
  <2>7. f[k] = p /\ p \in Turns(e)
    BY <2>1, <2>2, <2>5, <1>2
  <2>8. QED
    BY <2>1, <2>6, <2>7, <1>3
<1>6. f[N] \in D(N)
  <2>1. \A k \in 0 .. N : f[k] \in S[k]
    BY <1>1, <1>4, <1>5, UpTo
  <2>2. N \in 0 .. N
    BY <1>1
  <2>3. QED
    BY <2>1, <2>2, <1>3
<1>7. PICK i : f[N] = <<heap', i>> /\ Good(heap') /\ ErasedSome(heap', i, e, N)
  <2>1. PICK h, i : f[N] = <<h, i>> /\ <<h, i>> \in Turns(e)
    BY <1>6 DEF Turns
  <2>2. h = heap' /\ ErasedSome(h, i, e, N)
    BY <2>1, <1>2, <1>6
  <2>3. Good(h)
    BY <2>1, TurnsAre
  <2>4. QED
    BY <2>1, <2>2, <2>3
<1> DEFINE r == Lists(heap')[e]
<1>8. PICK gone : /\ Thinned(heap', e, gone) /\ Frees(heap, heap', gone)
                  /\ \A n \in gone : heap.what[n].kind = "element"
  BY <1>7 DEF ErasedSome
<1>9. PICK c : FirstElement(heap'.what, r, 1, c) /\ i.cur = AfterPlace(r, c)
  BY <1>7 DEF ErasedSome
<1>10. Distinct(r)
  BY <1>7, ListsOf, ListIsDistinct
<1>11. i.cur = NIL \/ Len(r) + N <= Len(l)
  BY <1>7 DEF ErasedSome
<1>12. ToSet(l) \subseteq Nodes /\ Len(l) \in Nat /\ Len(l) <= N
  BY <1>1, DistinctIs, ListFits DEF Distinct
<1>13. Edits(heap, heap', e, r) /\ gone \subseteq ToSet(l) /\ Sequence!Part(r, l, Nodes \ gone)
  BY <1>8 DEF Thinned
<1> HIDE DEF l, r
<1>14. Len(r) \in Nat /\ c \in 1 .. Len(r) + 1 /\ c = Len(r) + 1
  <2>1. Len(r) \in Nat /\ c \in 1 .. Len(r) + 1
    BY <1>9, <1>10, DistinctIs DEF FirstElement, FirstAt
  <2>2. i.cur = NIL => c = Len(r) + 1
    BY <2>1, <1>9, <1>10, AfterIs
  <2>3. QED
    BY <2>1, <2>2, <1>1, <1>11, <1>12
<1>15. \A j \in 1 .. Len(r) : heap'.what[r[j]].kind # "element"
  BY <1>9, <1>14 DEF FirstElement, FirstAt
<1>16. ToSet(r) = ToSet(l) \cap (Nodes \ gone)
  BY <1>13 DEF Sequence!Part, Sequence!ToSet, ToSet
<1>17. ASSUME NEW n \in ToSet(l) PROVE n \in gone <=> n \notin T
  <2>1. n \in Nodes
    BY <1>12
  <2>2. CASE n \in gone
    BY <2>1, <2>2, <1>8
  <2>3. CASE n \notin gone
    <3>1. PICK j \in 1 .. Len(r) : r[j] = n
      BY <2>1, <2>3, <1>10, <1>16, DistinctIs
    <3>2. heap'.what[n].kind # "element"
      BY <3>1, <1>15
    <3>3. heap'.what[n] = heap.what[n]
      BY <2>1, <2>3, <1>8 DEF Frees
    <3>4. QED
      BY <2>1, <2>3, <3>2, <3>3
  <2>4. QED
    BY <2>2, <2>3
<1>18. ToSet(l) \cap (Nodes \ gone) = ToSet(l) \cap T /\ ToSet(l) \ T = gone
  <2> HIDE DEF T
  <2>1. QED
    BY <1>12, <1>13, <1>17
<1>19. Sequence!Part(r, l, T)
  BY <1>13, <1>16, <1>18 DEF Sequence!Part, Sequence!ToSet, ToSet
<1>20. Renewed(e)
  BY DEF EraseElements
<1>21. Sequence!Keep(e, T)
  <2> HIDE DEF T
  <2>1. QED
    BY <1>8, <1>13, <1>18, <1>19, <1>20, KeepSeq DEF l
<1>22. QED
  BY <1>21 DEF Sequence!EraseElements

-----------------------------------------------------------------------------
(* Runs of texts *)

\* Before place i stand k texts in a row, and no more.
RunBefore(l, i, k) ==
    /\ k \in 0 .. i - 1
    /\ \A j \in i - k .. i - 1 : Sequence!IsText(l[j])
    /\ k = i - 1 \/ ~Sequence!IsText(l[i - k - 1])

\* That is the number TextsBefore gives.
LEMMA RunBeforeIs ==
    ASSUME NEW l, NEW i \in Nat \ {0}, NEW k, RunBefore(l, i, k)
    PROVE  Sequence!TextsBefore(l, i) = k
<1> DEFINE S == {m \in 0 .. (i - 1) : \A j \in (i - m) .. (i - 1) : Sequence!IsText(l[j])}
<1>1. k \in 0 .. i - 1 /\ S \in SUBSET Nat /\ k \in S
  BY DEF RunBefore
<1>2. ASSUME NEW m \in S PROVE m <= k
  <2>1. m \in 0 .. i - 1 /\ \A j \in i - m .. i - 1 : Sequence!IsText(l[j])
    OBVIOUS
  <2>2. CASE k = i - 1
    BY <2>1, <2>2
  <2>3. CASE ~Sequence!IsText(l[i - k - 1])
    <3>1. i - k - 1 \notin i - m .. i - 1
      BY <2>1, <2>3
    <3>2. QED
      BY <3>1, <2>1, <1>1
  <2>4. QED
    BY <2>2, <2>3 DEF RunBefore
<1> HIDE DEF S
<1>3. Max(S) = k
  BY <1>1, <1>2, MaxIs
<1>4. Sequence!TextsBefore(l, i) = Max(S)
  BY DEF Sequence!TextsBefore, Sequence!Max, Max, S
<1>5. QED
  BY <1>3, <1>4

\* There is such a number.
LEMMA RunBeforeExists ==
    ASSUME NEW l, NEW i \in Nat \ {0}
    PROVE  \E k : RunBefore(l, i, k)
<1> DEFINE S == {k \in 0 .. i - 1 : k = i - 1 \/ ~Sequence!IsText(l[i - k - 1])}
<1>1. S \subseteq Nat /\ i - 1 \in S
  OBVIOUS
<1> HIDE DEF S
<1>2. PICK k \in S : \A m \in S : k <= m
  BY <1>1, Smallest
<1>3. k \in 0 .. i - 1 /\ (k = i - 1 \/ ~Sequence!IsText(l[i - k - 1]))
  BY <1>2 DEF S
<1>4. ASSUME NEW j \in i - k .. i - 1 PROVE Sequence!IsText(l[j])
  <2> DEFINE m == i - 1 - j
  <2>1. m \in 0 .. i - 1 /\ ~(k <= m) /\ i - m - 1 = j
    BY <1>3
  <2>2. m \notin S
    BY <2>1, <1>2
  <2> HIDE DEF m
  <2>3. Sequence!IsText(l[i - m - 1])
    BY <2>1, <2>2 DEF S
  <2>4. QED
    BY <2>1, <2>3
<1>5. QED
  BY <1>3, <1>4 DEF RunBefore

\* How the number grows along the list.
LEMMA TextsNext ==
    ASSUME NEW l, NEW i \in Nat \ {0}
    PROVE  /\ Sequence!TextsBefore(l, 1) = 0 /\ Sequence!TextsBefore(l, i) \in Nat
           /\ Sequence!TextsBefore(l, i + 1) = IF Sequence!IsText(l[i])
                                               THEN Sequence!TextsBefore(l, i) + 1 ELSE 0
<1>1. RunBefore(l, 1, 0)
  BY DEF RunBefore
<1>2. PICK k : RunBefore(l, i, k)
  BY RunBeforeExists
<1>3. Sequence!TextsBefore(l, 1) = 0 /\ Sequence!TextsBefore(l, i) = k /\ k \in Nat
  <2>1. 1 \in Nat \ {0} /\ k \in Nat
    BY <1>2 DEF RunBefore
  <2>2. QED
    BY <2>1, <1>1, <1>2, RunBeforeIs
<1>4. CASE Sequence!IsText(l[i])
  <2>1. k + 1 \in 0 .. (i + 1) - 1 /\ i + 1 \in Nat \ {0}
    BY <1>2 DEF RunBefore
  <2>2. \A j \in (i + 1) - (k + 1) .. (i + 1) - 1 : Sequence!IsText(l[j])
    BY <1>2, <1>4 DEF RunBefore
  <2>3. k + 1 = (i + 1) - 1 \/ ~Sequence!IsText(l[(i + 1) - (k + 1) - 1])
    <3>1. k \in Nat /\ (i + 1) - (k + 1) - 1 = i - k - 1 /\ (k = i - 1 => k + 1 = (i + 1) - 1)
      BY <1>3
    <3>2. QED
      BY <3>1, <1>2 DEF RunBefore
  <2>4. RunBefore(l, i + 1, k + 1)
    BY <2>1, <2>2, <2>3 DEF RunBefore
  <2>5. QED
    BY <2>1, <2>4, <1>3, <1>4, RunBeforeIs
<1>5. CASE ~Sequence!IsText(l[i])
  <2>1. i + 1 \in Nat \ {0} /\ (i + 1) - 0 - 1 = i
    OBVIOUS
  <2>2. RunBefore(l, i + 1, 0)
    BY <2>1, <1>5 DEF RunBefore
  <2>3. QED
    BY <2>1, <2>2, <1>3, <1>5, RunBeforeIs
<1>6. QED
  BY <1>4, <1>5, <1>3

\* From place c on, r is what l is from place m on.
SameRest(r, c, l, m) ==
    /\ c \in 1 .. Len(r) + 1 /\ m \in 1 .. Len(l) + 1
    /\ Len(r) + m = Len(l) + c
    /\ \A j \in 0 .. Len(r) - c : r[c + j] = l[m + j]

\* The rests end together, and are the same one place on.
RestGoesOn(r, c, l, m) ==
    /\ c \in 1 .. Len(r) + 1 /\ m \in 1 .. Len(l) + 1
    /\ c = Len(r) + 1 <=> m = Len(l) + 1
    /\ c # Len(r) + 1 => /\ c \in 1 .. Len(r) /\ m \in 1 .. Len(l) /\ r[c] = l[m]
                         /\ SameRest(r, c + 1, l, m + 1)

\* As they are if they are the same at all.
LEMMA SameRestNext ==
    ASSUME NEW r, Distinct(r), NEW l, Distinct(l), NEW c, NEW m, SameRest(r, c, l, m)
    PROVE  RestGoesOn(r, c, l, m)
<1>1. Len(r) \in Nat /\ Len(l) \in Nat
  BY DistinctIs
<1>2. c \in 1 .. Len(r) + 1 /\ m \in 1 .. Len(l) + 1 /\ Len(r) + m = Len(l) + c
  BY DEF SameRest
<1>3. ASSUME c # Len(r) + 1
      PROVE  c \in 1 .. Len(r) /\ m \in 1 .. Len(l) /\ r[c] = l[m] /\ SameRest(r, c + 1, l, m + 1)
  <2>1. /\ c \in 1 .. Len(r) /\ m \in 1 .. Len(l) /\ 0 \in 0 .. Len(r) - c
        /\ c + 0 = c /\ m + 0 = m
    BY <1>1, <1>2, <1>3
  <2>2. r[c] = l[m]
    BY <2>1 DEF SameRest
  <2>3. ASSUME NEW j \in 0 .. Len(r) - (c + 1) PROVE r[(c + 1) + j] = l[(m + 1) + j]
    <3> DEFINE q == j + 1
    <3>1. q \in 0 .. Len(r) - c /\ (c + 1) + j = c + q /\ (m + 1) + j = m + q
      BY <1>1, <1>2
    <3> HIDE DEF q
    <3>2. r[c + q] = l[m + q]
      BY <3>1 DEF SameRest
    <3>3. QED
      BY <3>1, <3>2
  <2>4. c + 1 \in 1 .. Len(r) + 1 /\ m + 1 \in 1 .. Len(l) + 1 /\ Len(r) + (m + 1) = Len(l) + (c + 1)
    BY <2>1, <1>1, <1>2
  <2>5. QED
    BY <2>1, <2>2, <2>3, <2>4 DEF SameRest
<1>4. c = Len(r) + 1 <=> m = Len(l) + 1
  BY <1>1, <1>2
<1>5. QED
  BY <1>2, <1>3, <1>4 DEF RestGoesOn

\* They are the same where one cell of r is gone.
LEMMA SameRestGone ==
    ASSUME NEW r, Distinct(r), NEW l, Distinct(l), NEW c, NEW m, SameRest(r, c, l, m),
           c # Len(r) + 1, NEW v, v = RemoveAt(r, c)
    PROVE  Distinct(v) /\ SameRest(v, c, l, m + 1) /\ AfterPlace(v, c) = AfterPlace(r, c + 1)
<1>1. Len(r) \in Nat /\ Len(l) \in Nat
  BY DistinctIs
<1>2. c \in 1 .. Len(r) /\ m \in 1 .. Len(l) /\ Len(r) + m = Len(l) + c
  BY <1>1, SameRestNext DEF SameRest, RestGoesOn
<1>3. /\ Distinct(v) /\ Len(v) = Len(r) - 1
      /\ \A j \in 1 .. Len(v) : v[j] = IF j < c THEN r[j] ELSE r[j + 1]
      /\ \A z \in c + 1 .. Len(r) + 1 : AfterPlace(v, z - 1) = AfterPlace(r, z)
  BY <1>2, Removed
<1>4. AfterPlace(v, c) = AfterPlace(r, c + 1)
  <2>1. c + 1 \in c + 1 .. Len(r) + 1 /\ (c + 1) - 1 = c
    BY <1>1, <1>2
  <2>2. QED
    BY <2>1, <1>3
<1>5. ASSUME NEW j \in 0 .. Len(v) - c PROVE v[c + j] = l[(m + 1) + j]
  <2>1. /\ c + j \in 1 .. Len(v) /\ ~(c + j < c) /\ (c + j) + 1 = c + (j + 1)
        /\ j + 1 \in 0 .. Len(r) - c /\ (m + 1) + j = m + (j + 1)
    BY <1>1, <1>2, <1>3
  <2>2. v[c + j] = r[c + (j + 1)]
    BY <2>1, <1>3
  <2>3. QED
    BY <2>1, <2>2 DEF SameRest
<1>6. c \in 1 .. Len(v) + 1 /\ m + 1 \in 1 .. Len(l) + 1 /\ Len(v) + (m + 1) = Len(l) + c
  <2>1. Len(v) = Len(r) - 1
    BY <1>3
  <2> HIDE <1>3
  <2>2. QED
    BY <2>1, <1>1, <1>2
<1>7. QED
  BY <1>3, <1>4, <1>5, <1>6 DEF SameRest

-----------------------------------------------------------------------------
(* The steps: set_content *)

\* The texts set_content erases: every other one of a run, from its first on.
Goes(l, j) == Sequence!IsText(l[j]) /\ Sequence!TextsBefore(l, j) % 2 = 0
\* Those of them that stand before place m.
GoneTo(l, m) == {l[j] : j \in {i \in 1 .. m - 1 : Goes(l, i)}}

\* Passing one place and passing two.
LEMMA GoneOn ==
    ASSUME NEW l, NEW m \in Nat \ {0}
    PROVE  /\ Goes(l, m) => /\ GoneTo(l, m + 1) = GoneTo(l, m) \cup {l[m]} /\ ~Goes(l, m + 1)
                            /\ Sequence!TextsBefore(l, (m + 1) + 1) % 2 = 0
           /\ ~Goes(l, m) => GoneTo(l, m + 1) = GoneTo(l, m)
           /\ ~Sequence!IsText(l[m]) => /\ GoneTo(l, m + 1) = GoneTo(l, m)
                                        /\ Sequence!TextsBefore(l, m + 1) % 2 = 0
<1>1. Goes(l, m) => GoneTo(l, m + 1) = GoneTo(l, m) \cup {l[m]}
  BY DEF GoneTo
<1>2. ~Goes(l, m) => GoneTo(l, m + 1) = GoneTo(l, m)
  <2>1. SUFFICES ASSUME ~Goes(l, m) PROVE GoneTo(l, m + 1) = GoneTo(l, m)
    OBVIOUS
  <2>2. {i \in 1 .. (m + 1) - 1 : Goes(l, i)} = {i \in 1 .. m - 1 : Goes(l, i)}
    <3>1. 1 .. (m + 1) - 1 = 1 .. m - 1 \cup {m}
      OBVIOUS
    <3>2. QED
      BY <2>1, <3>1
  <2>3. QED
    BY <2>2 DEF GoneTo
<1> DEFINE a == Sequence!TextsBefore(l, m)
           b == Sequence!TextsBefore(l, m + 1)
           c == Sequence!TextsBefore(l, (m + 1) + 1)
<1>3. /\ a \in Nat /\ b \in Nat
      /\ b = IF Sequence!IsText(l[m]) THEN a + 1 ELSE 0
      /\ c = IF Sequence!IsText(l[m + 1]) THEN b + 1 ELSE 0
  <2>1. m \in Nat \ {0} /\ m + 1 \in Nat \ {0}
    OBVIOUS
  <2>2. QED
    BY <2>1, TextsNext
<1> HIDE DEF a, b, c
<1>4. Goes(l, m) => b % 2 = 1 /\ c % 2 = 0
  <2>1. Goes(l, m) => a % 2 = 0 /\ b = a + 1
    BY <1>3 DEF Goes, a
  <2>2. c = b + 1 \/ c = 0
    BY <1>3
  <2>3. QED
    BY <2>1, <2>2, <1>3
<1>5. Goes(l, m) => ~Goes(l, m + 1)
  BY <1>4 DEF Goes, b
<1>6. ~Sequence!IsText(l[m]) => b % 2 = 0 /\ ~Goes(l, m)
  BY <1>3 DEF Goes
<1>7. QED
  BY <1>1, <1>2, <1>4, <1>5, <1>6 DEF b, c

\* What the loop of set_content has done after k turns: h is the heap, i the
\* iterator, and m the place of what it shows in the list as it was.
ContentTo(h, i, e, k, c, m) ==
    /\ i.list = e /\ i.elem = FALSE
    /\ Thinned(h, e, GoneTo(Lists(heap)[e], m)) /\ Frees(heap, h, GoneTo(Lists(heap)[e], m))
    /\ SameRest(Lists(h)[e], c, Lists(heap)[e], m) /\ i.cur = AfterPlace(Lists(h)[e], c)
    /\ m # Len(Lists(heap)[e]) + 1 => Sequence!TextsBefore(Lists(heap)[e], m) % 2 = 0
    /\ m = Len(Lists(heap)[e]) + 1 \/ k + 1 <= m
ContentSome(h, i, e, k) == \E c, m : ContentTo(h, i, e, k, c, m)

\* What h holds of the cell at place m has not changed.
LEMMA NotGone ==
    ASSUME NEW l, Distinct(l), NEW m \in 1 .. Len(l), NEW h, Frees(heap, h, GoneTo(l, m))
    PROVE  h.what[l[m]] = heap.what[l[m]]
<1>1. l[m] \in Nodes /\ Len(l) \in Nat /\ \A i, j \in 1 .. Len(l) : l[i] = l[j] => i = j
  BY DistinctIs
<1>2. l[m] \notin GoneTo(l, m)
  BY <1>1 DEF GoneTo
<1>3. QED
  BY <1>1, <1>2 DEF Frees

\* An iterator over all children, which shows one or is at the end.
OverAll(i) == i.elem = FALSE /\ (i.atEnd = TRUE \/ i.cur # NIL)

\* The iterator ++ leaves there.
MovedOn(h, i, j) == /\ j.list = i.list /\ j.elem = FALSE
                    /\ j.cur = IF i.cur = NIL THEN NIL ELSE h.next[i.cur]

\* ++ from there.
LEMMA IncrementedIs ==
    ASSUME NEW h, NEW i, OverAll(i), NEW j, j = Incremented(h, i)
    PROVE  MovedOn(h, i, j)
BY DEF MovedOn, OverAll, Incremented, Rest, Made

\* One turn.
LEMMA ContentTurnSeq ==
    ASSUME Good(heap), NEW e \in Elements, NEW h, Good(h), NEW i, IterOK(h, i), NEW k \in Nat \ {0},
           ContentSome(h, i, e, k - 1), NEW p, p = ContentTurn(e, <<h, i>>)
    PROVE  ContentSome(p[1], p[2], e, k)
<1> DEFINE l == Lists(heap)[e]
           r == Lists(h)[e]
           n == i.cur
<1>1. PICK c, m : ContentTo(h, i, e, k - 1, c, m)
  BY DEF ContentSome
<1>2. /\ i.list = e /\ i.elem = FALSE /\ n = AfterPlace(r, c)
      /\ Thinned(h, e, GoneTo(l, m)) /\ Frees(heap, h, GoneTo(l, m)) /\ SameRest(r, c, l, m)
      /\ m # Len(l) + 1 => Sequence!TextsBefore(l, m) % 2 = 0
      /\ m = Len(l) + 1 \/ (k - 1) + 1 <= m
  BY <1>1 DEF ContentTo
<1>3. Distinct(r) /\ Distinct(l) /\ IsList(h, e, r)
  BY ListsOf, ListIsDistinct
<1>4. /\ Len(r) \in Nat /\ Len(l) \in Nat /\ c \in 1 .. Len(r) + 1 /\ m \in 1 .. Len(l) + 1
      /\ c = Len(r) + 1 <=> m = Len(l) + 1
      /\ c # Len(r) + 1 => /\ c \in 1 .. Len(r) /\ m \in 1 .. Len(l) /\ r[c] = l[m]
                           /\ SameRest(r, c + 1, l, m + 1)
  <2> HIDE DEF r, l, n
  <2>1. RestGoesOn(r, c, l, m)
    BY <1>2, <1>3, SameRestNext
  <2>2. Len(r) \in Nat /\ Len(l) \in Nat
    BY <1>3, DistinctIs
  <2>3. QED
    BY <2>1, <2>2 DEF RestGoesOn
<1>5. n = NIL <=> c = Len(r) + 1
  <2> HIDE DEF r, l
  <2>1. QED
    BY <1>2, <1>3, <1>4, AfterIs
<1>6. CASE n = NIL
  <2>1. p[1] = h /\ p[2] = i
    BY <1>6 DEF ContentTurn
  <2>2. ContentTo(h, i, e, k, c, m)
    BY <1>2, <1>4, <1>5, <1>6 DEF ContentTo
  <2>3. QED
    BY <2>1, <2>2 DEF ContentSome
<1>7. CASE n # NIL
  <2>1. c # Len(r) + 1 /\ c \in 1 .. Len(r) /\ m \in 1 .. Len(l) /\ n = r[c] /\ n = l[m] /\ r[c] # NIL
    <3> HIDE DEF n, r, l
    <3>1. c # Len(r) + 1 /\ c \in 1 .. Len(r) /\ m \in 1 .. Len(l) /\ r[c] = l[m]
      BY <1>4, <1>5, <1>7
    <3>2. n = r[c]
      BY <3>1, <1>2 DEF AfterPlace
    <3>3. QED
      BY <3>1, <3>2, <1>7
  <2>2. h.what[n] = heap.what[n]
    <3>1. h.what[l[m]] = heap.what[l[m]]
      <4> HIDE DEF l
      <4>1. QED
        BY <2>1, <1>2, <1>3, NotGone
    <3>2. QED
      BY <3>1, <2>1
  <2>3. IsText(h, n) <=> Sequence!IsText(l[m])
    <3>1. h.what[l[m]] = heap.what[l[m]] /\ l[m] # NIL
      BY <2>1, <2>2, <1>7
    <3>2. IsText(h, l[m]) <=> Sequence!IsText(l[m])
      BY <3>1 DEF IsText, Sequence!IsText
    <3>3. QED
      BY <3>2, <2>1
  <2>4. h.next[n] = AfterPlace(r, c + 1)
    <3>1. h.next[r[c]] = AfterPlace(r, c + 1)
      <4>1. c \in 1 .. Len(r) /\ IsList(h, e, r)
        BY <2>1, <1>3
      <4> HIDE DEF r
      <4>2. QED
        BY <4>1, NextIs
    <3>2. QED
      BY <3>1, <2>1
  <2>5. Sequence!TextsBefore(l, m) % 2 = 0 /\ m \in Nat \ {0} /\ m + 1 \in Nat \ {0}
    <3> HIDE DEF l
    <3>1. QED
      BY <2>1, <1>2, <1>4
  <2>6. CASE ~Sequence!IsText(l[m])
    <3>0. PICK j : j = Incremented(h, i)
      OBVIOUS
    <3>1. p[1] = h /\ p[2] = j
      BY <3>0, <2>3, <2>6, <1>7 DEF ContentTurn
    <3>2. j.list = e /\ j.elem = FALSE /\ j.cur = AfterPlace(r, c + 1)
      <4>1. OverAll(i)
        BY <1>2, <1>7 DEF OverAll
      <4>2. QED
        <5>1. MovedOn(h, i, j)
          BY <4>1, <3>0, IncrementedIs
        <5>2. QED
          BY <5>1, <2>4, <1>2, <1>7 DEF MovedOn
    <3>3. GoneTo(l, m + 1) = GoneTo(l, m) /\ Sequence!TextsBefore(l, m + 1) % 2 = 0
      BY <2>5, <2>6, GoneOn
    <3>5. SameRest(r, c + 1, l, m + 1)
      BY <1>4, <2>1
    <3>6. k + 1 <= m + 1 \/ m + 1 = Len(l) + 1
      <4> HIDE DEF l, r
      <4>1. QED
        BY <1>2, <1>4, <2>1
    <3>7. ContentTo(h, j, e, k, c + 1, m + 1)
      BY <3>2, <3>3, <3>5, <3>6, <1>2 DEF ContentTo
    <3>8. QED
      BY <3>1, <3>7 DEF ContentSome
  <2>7. CASE Sequence!IsText(l[m])
    <3>1. PICK g : g = erase_impl(h, e, n)
      OBVIOUS
    <3>2. Takes(h, g, e, c, n)
      BY <2>1, <3>1, EraseTakes
    <3>3. PICK b : b = FromCell(e, h.next[n], FALSE)
      OBVIOUS
    <3>4. PICK j : j = Incremented(g, b)
      OBVIOUS
    <3>5. p[1] = g /\ p[2] = j
      BY <3>1, <3>3, <3>4, <2>3, <2>7, <1>7 DEF ContentTurn
    <3> DEFINE v == Lists(g)[e]
    <3>6. v = RemoveAt(r, c) /\ Good(g) /\ IsList(g, e, v)
      BY <3>2, ListsOf DEF Takes, Edits, Lists
    <3>7. Distinct(v) /\ SameRest(v, c, l, m + 1) /\ h.next[n] = AfterPlace(v, c)
      <4>1. Distinct(v) /\ SameRest(v, c, l, m + 1) /\ AfterPlace(v, c) = AfterPlace(r, c + 1)
        <5> HIDE DEF v, r, l, n
        <5>1. QED
          BY <3>6, <2>1, <1>2, <1>3, SameRestGone
      <4>2. QED
        BY <4>1, <2>4
    <3>8. b.list = e /\ b.elem = FALSE /\ b.atEnd = TRUE /\ b.cur = AfterPlace(v, c)
      BY <3>3, <3>7 DEF FromCell
    <3>9. j.list = e /\ j.elem = FALSE /\ j.cur = IF b.cur = NIL THEN NIL ELSE g.next[b.cur]
      <4>1. OverAll(b)
        BY <3>8 DEF OverAll
      <4>2. QED
        <5>1. MovedOn(g, b, j)
          BY <4>1, <3>4, IncrementedIs
        <5>2. QED
          BY <5>1, <3>8 DEF MovedOn
    <3>10. Goes(l, m)
      BY <2>5, <2>7 DEF Goes
    <3>11. /\ GoneTo(l, m + 1) = GoneTo(l, m) \cup {n} /\ GoneTo(l, (m + 1) + 1) = GoneTo(l, m) \cup {n}
           /\ Sequence!TextsBefore(l, (m + 1) + 1) % 2 = 0
      <4>1. /\ GoneTo(l, m + 1) = GoneTo(l, m) \cup {l[m]} /\ ~Goes(l, m + 1)
            /\ Sequence!TextsBefore(l, (m + 1) + 1) % 2 = 0
        BY <2>5, <3>10, GoneOn
      <4>2. GoneTo(l, (m + 1) + 1) = GoneTo(l, m + 1)
        BY <2>5, <4>1, GoneOn
      <4>3. QED
        BY <4>1, <4>2, <2>1
    <3>12. Thinned(g, e, GoneTo(l, m) \cup {n}) /\ Frees(heap, g, GoneTo(l, m) \cup {n})
      <4>1. Thinned(g, e, GoneTo(l, m) \cup {n})
        BY <2>1, <3>2, <1>2, ThinnedMore
      <4>2. Frees(heap, g, GoneTo(l, m) \cup {n})
        BY <3>2, <1>2, FreesMore DEF Takes
      <4>3. QED
        BY <4>1, <4>2
    <3> HIDE DEF n
    <3>13. CASE c = Len(v) + 1
      <4>1. m + 1 = Len(l) + 1
        <5> HIDE DEF v, l
        <5>1. QED
          BY <3>7, <3>13, <1>3, SameRestNext DEF RestGoesOn
      <4>2. j.cur = AfterPlace(v, c)
        BY <3>8, <3>9, <3>13 DEF AfterPlace
      <4>3. ContentTo(g, j, e, k, c, m + 1)
        BY <4>1, <4>2, <3>7, <3>9, <3>11, <3>12 DEF ContentTo
      <4>4. QED
        BY <4>3, <3>5 DEF ContentSome
    <3>14. CASE c # Len(v) + 1
      <4>1. c \in 1 .. Len(v) /\ SameRest(v, c + 1, l, (m + 1) + 1)
        <5> HIDE DEF v, l
        <5>1. QED
          BY <3>7, <3>14, <1>3, SameRestNext DEF RestGoesOn
      <4>2. b.cur = v[c] /\ v[c] # NIL
        <5> HIDE DEF v
        <5>1. QED
          BY <4>1, <3>7, <3>8, <3>14, DistinctIs DEF AfterPlace
      <4>3. g.next[v[c]] = AfterPlace(v, c + 1)
        <5> HIDE DEF v
        <5>1. QED
          BY <4>1, <3>6, NextIs
      <4>4. j.cur = AfterPlace(v, c + 1)
        BY <4>2, <4>3, <3>9
      <4>5. (m + 1) + 1 = Len(l) + 1 \/ k + 1 <= (m + 1) + 1
        <5> HIDE DEF l
        <5>1. QED
          BY <1>2, <1>4, <2>1
      <4>6. ContentTo(g, j, e, k, c + 1, (m + 1) + 1)
        BY <4>1, <4>4, <4>5, <3>9, <3>11, <3>12 DEF ContentTo
      <4>7. QED
        BY <4>6, <3>5 DEF ContentSome
    <3>15. QED
      BY <3>13, <3>14
  <2>8. QED
    BY <2>6, <2>7
<1>8. QED
  BY <1>6, <1>7

\* What the whole loop has done: h is the heap without the texts that go.
LEMMA ContentLoopSeq ==
    ASSUME NodeInv, NEW e \in Elements, NEW s, SetContent(e, s)
    PROVE  \E h : /\ Good(h) /\ Room(h, 1)
                  /\ heap' = insert_impl(Construct(h, Cell(h), [kind |-> "text", text |-> s]),
                                         e, NIL, Cell(h))
                  /\ Thinned(h, e, GoneTo(Lists(heap)[e], Len(Lists(heap)[e]) + 1))
                  /\ Frees(heap, h, GoneTo(Lists(heap)[e], Len(Lists(heap)[e]) + 1))
<1> DEFINE l == Lists(heap)[e]
           D(k) == {p \in Turns(e) : ContentSome(p[1], p[2], e, k)}
           S == [k \in 0 .. N |-> D(k)]
<1>1. Good(heap) /\ IsList(heap, e, l) /\ Distinct(l) /\ N \in Nat
  BY ListsOf, ListIsDistinct, CellsType DEF NodeInv
<1>2. PICK f : /\ f[0] = <<heap, Made(e, heap.head[e], FALSE)>>
               /\ \A k \in 1 .. N : f[k] = ContentTurn(e, f[k - 1])
               /\ \A k \in 0 .. N : f[k] \in Turns(e)
               /\ Room(f[N][1], 1)
               /\ heap' = insert_impl(Construct(f[N][1], Cell(f[N][1]), [kind |-> "text", text |-> s]),
                                      e, NIL, Cell(f[N][1]))
  BY <1>1, SetContentLoop
<1>3. \A k \in 0 .. N : S[k] = D(k)
  OBVIOUS
<1> HIDE DEF S
<1>4. f[0] \in S[0]
  <2> DEFINE i == Made(e, heap.head[e], FALSE)
  <2>1. i.list = e /\ i.elem = FALSE /\ i.cur = AfterPlace(l, 1)
    BY <1>1, EndsAre DEF Made
  <2>2. Thinned(heap, e, {}) /\ Frees(heap, heap, {}) /\ GoneTo(l, 1) = {}
    <3>1. heap.what = [n \in Nodes |-> heap.what[n]]
      BY <1>1 DEF Good, Heaps
    <3>2. Frees(heap, heap, {})
      BY <3>1 DEF Frees
    <3>3. {j \in 1 .. 1 - 1 : Goes(l, j)} = {}
      OBVIOUS
    <3>4. GoneTo(l, 1) = {}
      BY <3>3 DEF GoneTo
    <3>5. QED
      BY <3>2, <3>4, <1>1, ThinnedNone
  <2>3. Sequence!TextsBefore(l, 1) % 2 = 0
    <3>1. 1 \in Nat \ {0}
      OBVIOUS
    <3>2. Sequence!TextsBefore(l, 1) = 0
      BY <3>1, TextsNext
    <3>3. QED
      BY <3>2
  <2>4. SameRest(l, 1, l, 1)
    <3> HIDE DEF l
    <3>1. Len(l) \in Nat
      BY <1>1, DistinctIs
    <3>2. QED
      BY <3>1 DEF SameRest
  <2> HIDE DEF i
  <2>5. ContentTo(heap, i, e, 0, 1, 1)
    <3>1. Thinned(heap, e, GoneTo(l, 1)) /\ Frees(heap, heap, GoneTo(l, 1))
      BY <2>2
    <3>2. 0 + 1 <= 1
      OBVIOUS
    <3>3. QED
      BY <3>1, <3>2, <2>1, <2>3, <2>4 DEF ContentTo
  <2>6. ContentSome(heap, i, e, 0)
    BY <2>5 DEF ContentSome
  <2>7. f[0] = <<heap, i>> /\ 0 \in 0 .. N
    BY <1>1, <1>2 DEF i
  <2>8. QED
    BY <2>6, <2>7, <1>2, <1>3
<1>5. ASSUME NEW k \in 1 .. N, f[k - 1] \in S[k - 1] PROVE f[k] \in S[k]
  <2>1. k - 1 \in 0 .. N /\ k \in 0 .. N /\ k \in Nat \ {0}
    BY <1>1
  <2>2. PICK h, i : f[k - 1] = <<h, i>>
    BY <2>1, <1>2 DEF Turns
  <2>3. <<h, i>> \in Turns(e) /\ ContentSome(h, i, e, k - 1)
    BY <2>1, <2>2, <1>3, <1>5
  <2>4. Good(h) /\ IterOK(h, i)
    BY <2>3, TurnsAre
  <2>5. PICK p : p = ContentTurn(e, <<h, i>>)
    OBVIOUS
  <2>6. ContentSome(p[1], p[2], e, k)
    BY <2>1, <2>3, <2>4, <2>5, <1>1, ContentTurnSeq
  <2>7. f[k] = p /\ p \in Turns(e)
    BY <2>1, <2>2, <2>5, <1>2
  <2>8. QED
    BY <2>1, <2>6, <2>7, <1>3
<1>6. f[N] \in D(N)
  <2>1. \A k \in 0 .. N : f[k] \in S[k]
    BY <1>1, <1>4, <1>5, UpTo
  <2>2. N \in 0 .. N
    BY <1>1
  <2>3. QED
    BY <2>1, <2>2, <1>3
<1>7. PICK h, i : f[N] = <<h, i>> /\ <<h, i>> \in Turns(e)
  BY <1>6 DEF Turns
<1>8. Good(h) /\ ContentSome(h, i, e, N)
  BY <1>6, <1>7, TurnsAre
<1>9. PICK c, m : ContentTo(h, i, e, N, c, m)
  BY <1>8 DEF ContentSome
<1>10. ToSet(l) \subseteq Nodes /\ Len(l) \in Nat /\ Len(l) <= N
  BY <1>1, DistinctIs, ListFits DEF Distinct
<1>11. m \in 1 .. Len(l) + 1 /\ (m = Len(l) + 1 \/ N + 1 <= m)
  BY <1>9 DEF ContentTo, SameRest
<1>12. m = Len(l) + 1
  <2> HIDE DEF l
  <2>1. QED
    BY <1>1, <1>10, <1>11
<1>13. QED
  BY <1>2, <1>7, <1>8, <1>9, <1>12 DEF ContentTo

\* element::set_content
LEMMA SetContentSeq ==
    ASSUME NodeInv, NEW e \in Elements, NEW s \in Content.added, SetContent(e, s)
    PROVE  \E n \in Nodes : Sequence!SetContent(e, n, s)
<1> DEFINE L == [d \in Elements |-> List(d)]
           l == L[e]
           gone == GoneTo(l, Len(l) + 1)
           stays == {i \in DOMAIN l : ~(Sequence!IsText(l[i]) /\ Sequence!TextsBefore(l, i) % 2 = 0)}
<1>0. L = Lists(heap)
  BY SeqIs
<1>1. Good(heap) /\ Distinct(l) /\ s \in Seq(STRING)
  BY <1>0, ListsOf, ListIsDistinct, ContentType DEF NodeInv
<1> HIDE DEF L
<1>2. PICK h : /\ Good(h) /\ Room(h, 1)
               /\ heap' = insert_impl(Construct(h, Cell(h), [kind |-> "text", text |-> s]),
                                      e, NIL, Cell(h))
               /\ Thinned(h, e, gone) /\ Frees(heap, h, gone)
  BY <1>0, ContentLoopSeq
<1> DEFINE r == Lists(h)[e]
           n == Cell(h)
           w == [kind |-> "text", text |-> s]
<1>3. heap' = insert_impl(Construct(h, n, w), e, NIL, n)
  BY <1>2
<1>4. w \in Cells /\ w.kind # "free" /\ w = Sequence!New("text", s)
  BY <1>1 DEF Cells, Kinds, Sequence!New
<1>5. it' = Sequence!At(e, NIL, FALSE)
  BY DEF SetContent, Renewed, Made, Sequence!At
<1> HIDE DEF n, w, gone
<1>6. /\ n \in Nodes /\ h.what[n].kind = "free"
      /\ Edits(h, heap', e, Append(r, n)) /\ heap'.what = [h.what EXCEPT ![n] = w]
  BY <1>2, <1>3, <1>4, AppendPuts DEF n
<1>7. Edits(heap, h, e, r) /\ gone \subseteq ToSet(l) /\ Sequence!Part(r, l, Nodes \ gone)
  BY <1>0, <1>2 DEF Thinned
<1>8. Lists(heap') = [L EXCEPT ![e] = Append(r, n)] /\ Lists(heap')[e] = Append(r, n)
  <2>1. Lists(heap') = [Lists(h) EXCEPT ![e] = Append(r, n)]
    BY <1>6 DEF Edits
  <2>2. Lists(h) = [L EXCEPT ![e] = r]
    BY <1>0, <1>7 DEF Edits
  <2>3. Lists(heap')[e] = Append(r, n)
    BY <2>1 DEF Lists
  <2> HIDE DEF r
  <2>4. QED
    BY <2>1, <2>2, <2>3
<1>9. gone = {l[i] : i \in DOMAIN l \ stays}
  <2> HIDE DEF l
  <2>1. Len(l) \in Nat /\ DOMAIN l = 1 .. Len(l)
    BY <1>1, DistinctIs
  <2>2. 1 .. (Len(l) + 1) - 1 = 1 .. Len(l)
    BY <2>1
  <2>3. {i \in 1 .. (Len(l) + 1) - 1 : Goes(l, i)} = DOMAIN l \ stays
    BY <2>1, <2>2 DEF Goes
  <2> HIDE DEF stays
  <2>4. QED
    BY <2>3 DEF gone, GoneTo
<1>10. heap.what' = [m \in Nodes |-> IF m = n THEN Sequence!New("text", s)
                                    ELSE IF m \in gone THEN Sequence!Unused ELSE heap.what[m]]
  <2>1. h.what = [m \in Nodes |-> IF m \in gone THEN Free ELSE heap.what[m]]
    BY <1>2 DEF Frees
  <2>2. Free = Sequence!Unused
    BY DEF Free, Sequence!Unused
  <2>3. QED
    BY <2>1, <2>2, <1>4, <1>6
<1>11. n \notin Sequence!Used \ gone
  <2>1. SUFFICES ASSUME n \notin gone PROVE n \notin Sequence!Used
    OBVIOUS
  <2>2. heap.what[n].kind = "free"
    BY <2>1, <1>2, <1>6 DEF Frees
  <2>3. QED
    BY <2>2, <1>1, <1>6, UsedAre
<1> DEFINE new == Append(r, n)
<1>12. new # <<>> /\ Sequence!Last(new) = n /\ Sequence!Front(new) = r
  <2>1. Distinct(r)
    BY <1>2, ListsOf, ListIsDistinct
  <2> HIDE DEF r
  <2>2. r \in Seq(Nodes) /\ Len(r) \in Nat /\ DOMAIN r = 1 .. Len(r)
    BY <2>1, DistinctIs
  <2>3. /\ new \in Seq(Nodes) /\ Len(new) = Len(r) + 1 /\ new[Len(r) + 1] = n
        /\ \A i \in 1 .. Len(r) : new[i] = r[i]
    BY <2>2, <1>6, AppendProperties
  <2> HIDE DEF new
  <2>4. r = [i \in 1 .. Len(r) |-> r[i]]
    BY <2>2, LenProperties
  <2>5. new # <<>> /\ Sequence!Last(new) = n
    BY <2>2, <2>3 DEF Sequence!Last
  <2>6. Sequence!Front(new) = r
    <3>1. Len(new) - 1 = Len(r)
      BY <2>2, <2>3
    <3>2. Sequence!Front(new) = [i \in 1 .. Len(r) |-> new[i]]
      BY <2>2, <2>3, <3>1 DEF Sequence!Front
    <3>3. [i \in 1 .. Len(r) |-> new[i]] = [i \in 1 .. Len(r) |-> r[i]]
      BY <2>3
    <3>4. QED
      BY <2>4, <3>2, <3>3
  <2>7. QED
    BY <2>5, <2>6
<1> HIDE DEF new
<1>13. /\ [d \in Elements |-> List(d)]' = [L EXCEPT ![e] = new]
       /\ [d \in Elements |-> List(d)]'[e] = new
  BY <1>8, SeqIs DEF new
<1>14. Sequence!Part(Sequence!Front(new), l, Nodes \ gone)
  BY <1>7, <1>12
<1>15. (heap.what)'[n] = Sequence!New("text", s)
  BY <1>6, <1>10
<1> DEFINE kept  == Sequence!ToSet(Sequence!Front(new))
           lost  == Sequence!ToSet(l) \ kept
           texts == {i \in DOMAIN l : Sequence!IsText(l[i])}
<1>16. lost = gone
  <2>1. kept = Sequence!ToSet(l) \cap (Nodes \ gone)
    BY <1>14 DEF Sequence!Part
  <2>2. Sequence!ToSet(l) = ToSet(l) /\ ToSet(l) \subseteq Nodes
    BY <1>1, DistinctIs DEF Sequence!ToSet, ToSet
  <2> HIDE DEF kept
  <2>3. QED
    BY <2>1, <2>2, <1>7
<1>17. Sequence!Part(Sequence!Front(new), l, kept)
  <2>1. kept = Sequence!ToSet(l) \cap kept
    BY <1>14 DEF Sequence!Part
  <2>2. QED
    BY <2>1, <1>14 DEF Sequence!Part
<1>18. ASSUME NEW i \in DOMAIN l
       PROVE  /\ i \notin texts => l[i] \in kept
              /\ i \in texts /\ i - 1 \notin texts => l[i] \in lost
  <2>1. l[i] \in Sequence!ToSet(l) /\ i \in Nat \ {0} /\ Len(l) \in Nat /\ DOMAIN l = 1 .. Len(l)
    BY <1>1, DistinctIs DEF Sequence!ToSet
  <2>2. \A j \in DOMAIN l : l[j] = l[i] => j = i
    BY <1>1, <2>1, DistinctIs
  <2>3. CASE i \notin texts
    <3>1. i \in stays
      BY <2>3
    <3>2. l[i] \notin gone
      BY <3>1, <2>2, <1>9
    <3> HIDE DEF kept
    <3>3. QED
      BY <2>1, <2>3, <3>2, <1>16
  <2>4. CASE i \in texts /\ i - 1 \notin texts
    <3>1. Sequence!TextsBefore(l, i) = 0
      <4>1. CASE i = 1
        BY <4>1, TextsNext
      <4>2. CASE i # 1
        <5>1. i - 1 \in Nat \ {0} /\ i - 1 \in DOMAIN l /\ (i - 1) + 1 = i
          BY <2>1, <4>2
        <5>2. ~Sequence!IsText(l[i - 1])
          BY <2>4, <5>1
        <5>3. Sequence!TextsBefore(l, (i - 1) + 1) = 0
          BY <5>1, <5>2, TextsNext
        <5>4. QED
          BY <5>1, <5>3
      <4>3. QED
        BY <4>1, <4>2
    <3>2. 0 % 2 = 0
      OBVIOUS
    <3>3. i \in DOMAIN l \ stays
      BY <2>4, <3>1, <3>2
    <3>4. l[i] \in gone
      BY <3>3, <1>9
    <3> HIDE DEF lost
    <3>5. QED
      BY <2>4, <3>4, <1>16
  <2>5. QED
    BY <2>3, <2>4
<1>19. /\ (heap.what)' = [m \in Nodes |-> IF m = n THEN Sequence!New("text", s)
                                        ELSE IF m \in lost THEN Sequence!Unused ELSE heap.what[m]]
       /\ n \notin Sequence!Used \ lost
  <2> HIDE DEF lost
  <2>1. QED
    BY <1>10, <1>11, <1>16
<1>20. Sequence!SetContent(e, n, s)
  BY <1>5, <1>12, <1>13, <1>15, <1>17, <1>18, <1>19 DEF Sequence!SetContent, L
<1>21. QED
  BY <1>6, <1>20

-----------------------------------------------------------------------------
(* The steps: flatten_text *)

\* g[i] is the first i of the sequences ts, one after the other.
Joined(ts, g) ==
    /\ g = [i \in 1 .. Len(ts) |-> g[i]]
    /\ g[1] = ts[1]
    /\ \A i \in 2 .. Len(ts) : g[i] = g[i - 1] \o ts[i]
    /\ \A i \in 1 .. Len(ts) : g[i] \in Seq(STRING)

\* FlattenSeq joins its sequences.
LEMMA FlattenIs ==
    ASSUME NEW n \in Nat \ {0}, NEW ts \in [1 .. n -> Seq(STRING)]
    PROVE  \E g : Joined(ts, g) /\ Sequence!FlattenSeq(ts) = g[n]
<1>1. ts \in Seq(Seq(STRING)) /\ Len(ts) = n /\ Len(ts) # 0
  BY FunctionIsSeq
<1> DEFINE body(w) == [i \in 1 .. Len(ts) |-> IF i = 1 THEN ts[i] ELSE w[i - 1] \o ts[i]]
           flatten == CHOOSE w : w = body(w)
           S == [k \in 0 .. n - 1 |-> Seq(STRING)]
           base == ts[1]
           step == [k \in 1 .. n - 1 |-> [x \in Seq(STRING) |-> x \o ts[k + 1]]]
<1>2. Sequence!FlattenSeq(ts) = flatten[Len(ts)]
  BY <1>1 DEF Sequence!FlattenSeq
<1>3. /\ n - 1 \in Nat /\ base \in Seq(STRING) /\ 0 \in 0 .. n - 1
      /\ \A k \in 0 .. n - 1 : S[k] = Seq(STRING)
  BY <1>1
<1>4. ASSUME NEW k \in 1 .. n - 1, NEW x \in Seq(STRING)
      PROVE  step[k][x] = x \o ts[k + 1] /\ step[k][x] \in Seq(STRING)
  <2>1. k + 1 \in 1 .. n /\ ts[k + 1] \in Seq(STRING)
    OBVIOUS
  <2>2. x \o ts[k + 1] \in Seq(STRING)
    BY <2>1, ConcatProperties
  <2>3. QED
    BY <2>2
<1>5. \A w : /\ body(w) = [i \in 1 .. Len(ts) |-> body(w)[i]]
             /\ body(w)[1] = ts[1]
             /\ \A i \in 2 .. Len(ts) : body(w)[i] = w[i - 1] \o ts[i]
  <2> SUFFICES ASSUME NEW w
               PROVE  /\ body(w) = [i \in 1 .. Len(ts) |-> body(w)[i]]
                      /\ body(w)[1] = ts[1]
                      /\ \A i \in 2 .. Len(ts) : body(w)[i] = w[i - 1] \o ts[i]
    OBVIOUS
  <2>1. body(w) = [i \in 1 .. Len(ts) |-> body(w)[i]]
    OBVIOUS
  <2>2. body(w)[1] = ts[1]
    BY <1>1
  <2>3. ASSUME NEW i \in 2 .. Len(ts) PROVE body(w)[i] = w[i - 1] \o ts[i]
    <3>1. i \in 1 .. Len(ts) /\ i # 1
      BY <1>1
    <3>2. QED
      BY <3>1
  <2>4. QED
    BY <2>1, <2>2, <2>3
<1> HIDE DEF S, step, body, base
<1>6. Steps(n - 1, S, base, step)
  <2>1. \A k \in 1 .. n - 1 : k - 1 \in 0 .. n - 1 /\ k \in 0 .. n - 1
    OBVIOUS
  <2>2. QED
    BY <2>1, <1>3, <1>4 DEF Steps
<1>7. PICK f : Runs(f, n - 1, S, base, step)
  BY <1>3, <1>6, Recursion
<1> DEFINE g == [i \in 1 .. Len(ts) |-> f[i - 1]]
<1>8. g = body(g)
  <2>1. g = [i \in 1 .. Len(ts) |-> g[i]]
    OBVIOUS
  <2>2. g[1] = ts[1]
    <3>1. g[1] = f[0]
      BY <1>1
    <3>2. QED
      BY <3>1, <1>7 DEF Runs, base
  <2>3. ASSUME NEW i \in 2 .. Len(ts) PROVE g[i] = g[i - 1] \o ts[i]
    <3>1. /\ i - 1 \in 1 .. n - 1 /\ (i - 1) - 1 \in 0 .. n - 1 /\ (i - 1) + 1 = i
          /\ i \in 1 .. Len(ts) /\ i - 1 \in 1 .. Len(ts)
      BY <1>1
    <3>2. f[(i - 1) - 1] \in S[(i - 1) - 1] /\ f[i - 1] = step[i - 1][f[(i - 1) - 1]]
      BY <3>1, <1>7 DEF Runs
    <3>3. f[(i - 1) - 1] \in Seq(STRING)
      BY <3>1, <3>2, <1>3
    <3>4. f[i - 1] = f[(i - 1) - 1] \o ts[(i - 1) + 1]
      BY <3>1, <3>2, <3>3, <1>4
    <3>5. g[i] = f[i - 1] /\ g[i - 1] = f[(i - 1) - 1]
      BY <3>1
    <3>6. QED
      BY <3>1, <3>4, <3>5
  <2> HIDE DEF g
  <2>4. \A i \in 1 .. Len(ts) : g[i] = body(g)[i]
    <3>1. \A i \in 1 .. Len(ts) : i = 1 \/ i \in 2 .. Len(ts)
      BY <1>1
    <3>2. QED
      BY <3>1, <2>2, <2>3, <1>5
  <2>5. QED
    BY <2>1, <2>4, <1>5
<1>9. flatten = body(flatten)
  BY <1>8
<1> HIDE DEF flatten
<1>10. /\ flatten = [i \in 1 .. Len(ts) |-> flatten[i]] /\ flatten[1] = ts[1]
       /\ \A i \in 2 .. Len(ts) : flatten[i] = flatten[i - 1] \o ts[i]
  BY <1>5, <1>9
<1>11. \A i \in 1 .. Len(ts) : flatten[i] \in Seq(STRING)
  <2> DEFINE F == [k \in 0 .. n - 1 |-> flatten[k + 1]]
  <2>1. F[0] \in S[0]
    BY <1>3, <1>10 DEF base
  <2>2. ASSUME NEW k \in 1 .. n - 1, F[k - 1] \in S[k - 1] PROVE F[k] \in S[k]
    <3>1. k - 1 \in 0 .. n - 1 /\ k \in 0 .. n - 1 /\ k + 1 \in 2 .. Len(ts) /\ (k - 1) + 1 = (k + 1) - 1
      BY <1>1
    <3>2. F[k] = F[k - 1] \o ts[k + 1]
      BY <3>1, <1>10
    <3>3. ts[k + 1] \in Seq(STRING) /\ F[k - 1] \in Seq(STRING)
      <4> HIDE DEF F
      <4>1. F[k - 1] \in Seq(STRING)
        BY <3>1, <2>2, <1>3
      <4>2. QED
        BY <4>1, <3>1, <1>1
    <3> HIDE DEF F
    <3>4. F[k] \in Seq(STRING)
      BY <3>2, <3>3, ConcatProperties
    <3>5. QED
      BY <3>1, <3>4, <1>3
  <2>3. \A k \in 0 .. n - 1 : F[k] \in S[k]
    <3> HIDE DEF F
    <3>1. QED
      BY <2>1, <2>2, <1>3, UpTo
  <2>4. ASSUME NEW i \in 1 .. Len(ts) PROVE flatten[i] \in Seq(STRING)
    <3>1. i - 1 \in 0 .. n - 1 /\ (i - 1) + 1 = i
      BY <1>1
    <3>2. F[i - 1] = flatten[i]
      BY <3>1
    <3>3. F[i - 1] \in Seq(STRING)
      <4> HIDE DEF F
      <4>1. QED
        BY <2>3, <3>1, <1>3
    <3>4. QED
      BY <3>2, <3>3
  <2>5. QED
    BY <2>4
<1>12. Joined(ts, flatten)
  BY <1>10, <1>11 DEF Joined
<1>13. QED
  BY <1>1, <1>2, <1>12

\* The longer one is the shorter one and what comes after it.
LEMMA FlattenMore ==
    ASSUME NEW n \in Nat \ {0}, NEW ts \in [1 .. n -> Seq(STRING)],
           NEW us \in [1 .. n + 1 -> Seq(STRING)], \A i \in 1 .. n : us[i] = ts[i]
    PROVE  Sequence!FlattenSeq(us) = Sequence!FlattenSeq(ts) \o us[n + 1]
<1>1. Len(ts) = n /\ Len(us) = n + 1 /\ n + 1 \in Nat \ {0}
  <2>1. n + 1 \in Nat \ {0}
    OBVIOUS
  <2>2. QED
    BY <2>1, FunctionIsSeq
<1>2. PICK g : Joined(ts, g) /\ Sequence!FlattenSeq(ts) = g[n]
  BY FlattenIs
<1>3. PICK h : Joined(us, h) /\ Sequence!FlattenSeq(us) = h[n + 1]
  BY <1>1, FlattenIs
<1> DEFINE F == [k \in 0 .. n - 1 |-> h[k + 1]]
           S == [k \in 0 .. n - 1 |-> {g[k + 1]}]
<1>4. F[0] \in S[0]
  <2>1. 0 \in 0 .. n - 1 /\ 0 + 1 = 1 /\ 1 \in 1 .. n
    OBVIOUS
  <2>2. h[1] = g[1]
    BY <2>1, <1>2, <1>3 DEF Joined
  <2>3. QED
    BY <2>1, <2>2
<1>5. ASSUME NEW k \in 1 .. n - 1, F[k - 1] \in S[k - 1] PROVE F[k] \in S[k]
  <2>1. /\ k - 1 \in 0 .. n - 1 /\ k \in 0 .. n - 1 /\ k + 1 \in 2 .. n /\ k + 1 \in 2 .. n + 1
        /\ (k - 1) + 1 = k /\ (k + 1) - 1 = k /\ k + 1 \in 1 .. n
    OBVIOUS
  <2>2. h[k] = g[k]
    BY <2>1, <1>5
  <2>3. g[k + 1] = g[k] \o ts[k + 1] /\ h[k + 1] = h[k] \o us[k + 1] /\ us[k + 1] = ts[k + 1]
    BY <2>1, <1>1, <1>2, <1>3 DEF Joined
  <2>4. QED
    BY <2>1, <2>2, <2>3
<1>6. h[n] = g[n]
  <2>1. n - 1 \in Nat /\ n - 1 \in 0 .. n - 1 /\ (n - 1) + 1 = n
    OBVIOUS
  <2>2. \A k \in 0 .. n - 1 : F[k] \in S[k]
    <3> HIDE DEF F, S
    <3>1. QED
      BY <2>1, <1>4, <1>5, UpTo
  <2>3. QED
    BY <2>1, <2>2
<1>7. n + 1 \in 2 .. n + 1 /\ (n + 1) - 1 = n
  OBVIOUS
<1>8. h[n + 1] = h[n] \o us[n + 1]
  BY <1>1, <1>3, <1>7 DEF Joined
<1>9. QED
  BY <1>2, <1>3, <1>6, <1>8

\* The text of the cells of l from place i to place j.
Whole(l, i, j) == Sequence!FlattenSeq([k \in 1 .. (j - i + 1) |-> heap.what[l[i + k - 1]].text])

\* Of one cell it is the cell's own, and each cell adds its own.
LEMMA WholeNext ==
    ASSUME Good(heap), NEW l, Distinct(l), NEW i \in 1 .. Len(l), NEW j \in i .. Len(l)
    PROVE  /\ Whole(l, i, i) = heap.what[l[i]].text
           /\ Whole(l, i, j) \in Seq(STRING)
           /\ j # Len(l) => Whole(l, i, j + 1) = Whole(l, i, j) \o heap.what[l[j + 1]].text
<1> DEFINE t(q) == heap.what[l[q]].text
           T(n) == [k \in 1 .. n |-> t(i + k - 1)]
<1>1. Len(l) \in Nat /\ \A q \in 1 .. Len(l) : t(q) \in Seq(STRING)
  <2>1. Len(l) \in Nat /\ \A q \in 1 .. Len(l) : l[q] \in Nodes
    BY DistinctIs
  <2>2. \A n \in Nodes : heap.what[n].text \in Seq(STRING)
    BY DEF Good, Heaps, Cells
  <2>3. QED
    BY <2>1, <2>2
<1> HIDE DEF t
<1>2. ASSUME NEW n \in Nat \ {0}, i + n - 1 <= Len(l) PROVE T(n) \in [1 .. n -> Seq(STRING)]
  <2>1. ASSUME NEW k \in 1 .. n PROVE t(i + k - 1) \in Seq(STRING)
    <3>1. i + k - 1 \in 1 .. Len(l)
      BY <1>1, <1>2
    <3>2. QED
      BY <3>1, <1>1
  <2>2. QED
    BY <2>1
<1>3. \A q \in i .. Len(l) : Whole(l, i, q) = Sequence!FlattenSeq(T(q - i + 1))
  BY DEF Whole, t
<1>4. Whole(l, i, i) = t(i)
  <2>1. i - i + 1 = 1 /\ 1 \in Nat \ {0} /\ i + 1 - 1 <= Len(l) /\ i \in i .. Len(l)
    BY <1>1
  <2>2. T(1) \in [1 .. 1 -> Seq(STRING)]
    BY <2>1, <1>2
  <2>3. PICK g : Joined(T(1), g) /\ Sequence!FlattenSeq(T(1)) = g[1]
    <3> HIDE DEF T
    <3>1. QED
      BY <2>1, <2>2, FlattenIs
  <2>4. T(1)[1] = t(i)
    <3>1. i + 1 - 1 = i /\ 1 \in 1 .. 1
      OBVIOUS
    <3>2. QED
      BY <3>1
  <2> HIDE DEF T
  <2>5. QED
    BY <2>1, <2>3, <2>4, <1>3 DEF Joined
<1> DEFINE n == j - i + 1
<1>5. n \in Nat \ {0} /\ i + n - 1 = j /\ j \in i .. Len(l)
  BY <1>1
<1>6. Whole(l, i, j) \in Seq(STRING)
  <2>1. T(n) \in [1 .. n -> Seq(STRING)]
    BY <1>1, <1>2, <1>5
  <2> HIDE DEF T, n
  <2>2. PICK g : Joined(T(n), g) /\ Sequence!FlattenSeq(T(n)) = g[n]
    BY <2>1, <1>5, FlattenIs
  <2>3. Len(T(n)) = n /\ n \in 1 .. n
    BY <2>1, <1>5, FunctionIsSeq
  <2>4. QED
    BY <2>2, <2>3, <1>3, <1>5 DEF Joined, n
<1>7. ASSUME j # Len(l) PROVE Whole(l, i, j + 1) = Whole(l, i, j) \o t(j + 1)
  <2>1. /\ n + 1 \in Nat \ {0} /\ i + (n + 1) - 1 = j + 1 /\ i + (n + 1) - 1 <= Len(l)
        /\ j + 1 \in i .. Len(l) /\ (j + 1) - i + 1 = n + 1 /\ i + n - 1 <= Len(l)
    BY <1>1, <1>7
  <2>2. T(n) \in [1 .. n -> Seq(STRING)] /\ T(n + 1) \in [1 .. n + 1 -> Seq(STRING)]
    BY <2>1, <1>2, <1>5
  <2>3. \A k \in 1 .. n : T(n + 1)[k] = T(n)[k]
    BY <1>5
  <2>4. T(n + 1)[n + 1] = t(j + 1)
    <3>1. n + 1 \in 1 .. n + 1
      BY <1>5
    <3>2. QED
      BY <3>1, <2>1
  <2>5. /\ Whole(l, i, j + 1) = Sequence!FlattenSeq(T(n + 1))
        /\ Whole(l, i, j) = Sequence!FlattenSeq(T(n))
    <3>1. Whole(l, i, j + 1) = Sequence!FlattenSeq(T((j + 1) - i + 1))
      BY <2>1, <1>3
    <3>2. Whole(l, i, j) = Sequence!FlattenSeq(T(j - i + 1))
      BY <1>3
    <3> HIDE DEF T
    <3>3. QED
      BY <3>1, <3>2, <2>1
  <2> HIDE DEF T, n
  <2>6. Sequence!FlattenSeq(T(n + 1)) = Sequence!FlattenSeq(T(n)) \o T(n + 1)[n + 1]
    BY <2>2, <2>3, <1>5, FlattenMore
  <2>7. QED
    BY <2>4, <2>5, <2>6
<1>8. QED
  BY <1>4, <1>6, <1>7 DEF t

\* The first text of a run.
FirstText(l, j) == Sequence!IsText(l[j]) /\ Sequence!TextsBefore(l, j) = 0
\* A text that is not, up to place m: what flatten_text erases.
Merged(l, m) == {l[j] : j \in {i \in 1 .. m : Sequence!IsText(l[i]) /\ Sequence!TextsBefore(l, i) # 0}}
\* The texts of a run from place j on, as far as they come before place m + 1.
RunTo(l, j, q, m) ==
    /\ q \in j .. m /\ \A i \in j .. q : Sequence!IsText(l[i])
    /\ q = m \/ ~Sequence!IsText(l[q + 1])

\* In h every run of texts up to place m is one text.
JoinedTo(h, l, m) ==
    /\ \A x \in Nodes : x \in Merged(l, m) => h.what[x] = Free
    /\ \A x \in Nodes : x \notin Merged(l, m) /\ (\A j \in 1 .. m : x = l[j] => ~FirstText(l, j))
                        => h.what[x] = heap.what[x]
    /\ \A j \in 1 .. m : FirstText(l, j) =>
          \E q : RunTo(l, j, q, m) /\ h.what[l[j]] = [heap.what[l[j]] EXCEPT !.text = Whole(l, j, q)]

\* A text has texts before it exactly when it follows one.
LEMMA TextsAfter ==
    ASSUME NEW l, NEW i \in Nat \ {0}
    PROVE  Sequence!TextsBefore(l, i + 1) = 0 <=> ~Sequence!IsText(l[i])
<1>1. Sequence!TextsBefore(l, i) \in Nat
  BY TextsNext
<1>2. Sequence!TextsBefore(l, i + 1) = IF Sequence!IsText(l[i])
                                       THEN Sequence!TextsBefore(l, i) + 1 ELSE 0
  BY TextsNext
<1>3. QED
  BY <1>1, <1>2

\* Where no text follows a text, nothing is merged.
LEMMA JoinedPass ==
    ASSUME Good(heap), NEW l, Distinct(l), NEW h, NEW m \in 1 .. Len(l), m # Len(l),
           JoinedTo(h, l, m), ~(Sequence!IsText(l[m]) /\ Sequence!IsText(l[m + 1]))
    PROVE  Merged(l, m + 1) = Merged(l, m) /\ JoinedTo(h, l, m + 1)
<1>1. /\ Len(l) \in Nat /\ \A i \in 1 .. Len(l) : l[i] \in Nodes
      /\ \A i, j \in 1 .. Len(l) : l[i] = l[j] => i = j
      /\ m + 1 \in 1 .. Len(l) /\ m \in Nat \ {0}
  BY DistinctIs
<1>2. Sequence!IsText(l[m + 1]) => Sequence!TextsBefore(l, m + 1) = 0
  BY <1>1, TextsAfter
<1>3. Merged(l, m + 1) = Merged(l, m)
  <2>1. 1 .. m + 1 = 1 .. m \cup {m + 1}
    BY <1>1
  <2>2. {i \in 1 .. m + 1 : Sequence!IsText(l[i]) /\ Sequence!TextsBefore(l, i) # 0}
        = {i \in 1 .. m : Sequence!IsText(l[i]) /\ Sequence!TextsBefore(l, i) # 0}
    BY <1>2, <2>1
  <2>3. QED
    BY <2>2 DEF Merged
<1>4. h.what[l[m + 1]] = heap.what[l[m + 1]]
  <2>1. l[m + 1] \in Nodes /\ \A j \in 1 .. m : l[m + 1] # l[j]
    BY <1>1
  <2>2. l[m + 1] \notin Merged(l, m)
    BY <2>1 DEF Merged
  <2>3. QED
    BY <2>1, <2>2 DEF JoinedTo
<1>5. ASSUME NEW x \in Nodes, x \notin Merged(l, m + 1),
             \A j \in 1 .. m + 1 : x = l[j] => ~FirstText(l, j)
      PROVE  h.what[x] = heap.what[x]
  <2>1. \A j \in 1 .. m : j \in 1 .. m + 1
    BY <1>1
  <2>2. QED
    BY <2>1, <1>3, <1>5 DEF JoinedTo
<1>6. ASSUME NEW j \in 1 .. m + 1, FirstText(l, j)
      PROVE  \E q : /\ RunTo(l, j, q, m + 1)
                    /\ h.what[l[j]] = [heap.what[l[j]] EXCEPT !.text = Whole(l, j, q)]
  <2>1. CASE j = m + 1
    <3>1. Whole(l, j, j) = heap.what[l[j]].text
      <4>1. j \in 1 .. Len(l) /\ j \in j .. Len(l)
        BY <2>1, <1>1
      <4>2. QED
        BY <4>1, WholeNext
    <3>2. heap.what[l[j]] \in Cells
      BY <2>1, <1>1 DEF Good, Heaps
    <3>3. heap.what[l[j]] = [heap.what[l[j]] EXCEPT !.text = heap.what[l[j]].text]
      BY <3>2 DEF Cells
    <3>4. RunTo(l, j, j, m + 1)
      BY <2>1, <1>1, <1>6 DEF RunTo, FirstText
    <3>5. QED
      BY <3>1, <3>3, <3>4, <2>1, <1>4
  <2>2. CASE j # m + 1
    <3>1. j \in 1 .. m
      BY <2>2, <1>1
    <3>2. PICK q : RunTo(l, j, q, m) /\ h.what[l[j]] = [heap.what[l[j]] EXCEPT !.text = Whole(l, j, q)]
      BY <3>1, <1>6 DEF JoinedTo
    <3>3. q \in j .. m /\ \A i \in j .. q : Sequence!IsText(l[i])
      BY <3>2 DEF RunTo
    <3>4. q \in j .. m + 1 /\ q \in j .. q
      BY <3>3, <3>1
    <3>5. ~Sequence!IsText(l[q + 1])
      BY <3>2, <3>3, <3>4 DEF RunTo
    <3>6. RunTo(l, j, q, m + 1)
      BY <3>3, <3>4, <3>5 DEF RunTo
    <3>7. QED
      BY <3>2, <3>6
  <2>3. QED
    BY <2>1, <2>2
<1>7. QED
  BY <1>3, <1>5, <1>6 DEF JoinedTo

\* From place a to place m stands one run, and another text follows.
RunGoesOn(l, a, m) ==
    /\ a \in 1 .. m /\ FirstText(l, a)
    /\ \A i \in a .. m : Sequence!IsText(l[i])
    /\ Sequence!IsText(l[m + 1])

\* The text of that one is given to the first, and it is freed.
Merges(h, g, l, a, m) ==
    g.what = [[h.what EXCEPT ![l[a]].text = h.what[l[a]].text \o h.what[l[m + 1]].text]
                 EXCEPT ![l[m + 1]] = Free]

\* The text of the next cell of a run comes to that of the first.
LEMMA JoinedMore ==
    ASSUME Good(heap), NEW l, Distinct(l), NEW h, Good(h), NEW g, NEW m \in 1 .. Len(l), m # Len(l),
           NEW a, JoinedTo(h, l, m), RunGoesOn(l, a, m), Merges(h, g, l, a, m)
    PROVE  Merged(l, m + 1) = Merged(l, m) \cup {l[m + 1]} /\ JoinedTo(g, l, m + 1)
<1>1. /\ Len(l) \in Nat /\ \A i \in 1 .. Len(l) : l[i] \in Nodes
      /\ \A i, j \in 1 .. Len(l) : l[i] = l[j] => i = j
      /\ m + 1 \in 1 .. Len(l) /\ m \in Nat \ {0}
  BY DistinctIs
<1>2. /\ a \in 1 .. m /\ a \in 1 .. Len(l) /\ m \in a .. m /\ a \in a .. m
      /\ Sequence!TextsBefore(l, a) = 0
      /\ \A i \in a .. m : Sequence!IsText(l[i])
      /\ Sequence!IsText(l[m + 1])
  <2>1. a \in 1 .. m /\ FirstText(l, a)
    BY DEF RunGoesOn
  <2>2. a \in 1 .. Len(l) /\ m \in a .. m /\ a \in a .. m
    BY <2>1, <1>1
  <2>3. QED
    BY <2>1, <2>2 DEF RunGoesOn, FirstText
<1>3. Sequence!TextsBefore(l, m + 1) # 0
  BY <1>1, <1>2, TextsAfter
<1>4. Merged(l, m + 1) = Merged(l, m) \cup {l[m + 1]}
  <2>1. 1 .. m + 1 = 1 .. m \cup {m + 1}
    BY <1>1
  <2>2. {i \in 1 .. m + 1 : Sequence!IsText(l[i]) /\ Sequence!TextsBefore(l, i) # 0}
        = {i \in 1 .. m : Sequence!IsText(l[i]) /\ Sequence!TextsBefore(l, i) # 0} \cup {m + 1}
    BY <1>2, <1>3, <2>1
  <2>3. QED
    BY <2>2 DEF Merged
<1>5. h.what[l[m + 1]] = heap.what[l[m + 1]]
  <2>1. l[m + 1] \in Nodes /\ \A j \in 1 .. m : l[m + 1] # l[j]
    BY <1>1
  <2>2. l[m + 1] \notin Merged(l, m)
    BY <2>1 DEF Merged
  <2>3. QED
    BY <2>1, <2>2 DEF JoinedTo
<1>6. l[a] # l[m + 1] /\ l[a] \notin Merged(l, m)
  <2>1. l[a] # l[m + 1]
    BY <1>1, <1>2
  <2>2. \A j \in 1 .. m : l[a] = l[j] => a = j
    BY <1>1, <1>2
  <2>3. QED
    BY <2>1, <2>2, <1>2 DEF Merged
<1>7. /\ \A x \in Nodes : x # l[a] /\ x # l[m + 1] => g.what[x] = h.what[x]
      /\ g.what[l[m + 1]] = Free
      /\ g.what[l[a]] = [h.what[l[a]] EXCEPT !.text = h.what[l[a]].text \o h.what[l[m + 1]].text]
  <2>1. h.what \in [Nodes -> Cells] /\ l[a] \in Nodes /\ l[m + 1] \in Nodes
    BY <1>1, <1>2 DEF Good, Heaps
  <2> DEFINE t == h.what[l[a]].text \o h.what[l[m + 1]].text
             x == l[a]
             y == l[m + 1]
  <2>2. g.what = [[h.what EXCEPT ![x].text = t] EXCEPT ![y] = Free] /\ x # y
    BY <1>6 DEF Merges
  <2> HIDE DEF t, x, y
  <2>3. x \in Nodes /\ y \in Nodes
    BY <2>1 DEF x, y
  <2>4. /\ \A z \in Nodes : z # x /\ z # y => g.what[z] = h.what[z]
        /\ g.what[y] = Free /\ g.what[x] = [h.what[x] EXCEPT !.text = t]
    BY <2>1, <2>2, <2>3
  <2>5. QED
    BY <2>4 DEF x, y, t
<1>8. ASSUME NEW x \in Nodes, x \in Merged(l, m + 1) PROVE g.what[x] = Free
  <2>1. CASE x = l[m + 1]
    BY <2>1, <1>7
  <2>2. CASE x # l[m + 1]
    <3>1. x \in Merged(l, m) /\ x # l[a]
      BY <2>2, <1>4, <1>6, <1>8
    <3>2. h.what[x] = Free
      BY <3>1 DEF JoinedTo
    <3>3. QED
      BY <3>1, <3>2, <2>2, <1>7
  <2>3. QED
    BY <2>1, <2>2
<1>9. ASSUME NEW x \in Nodes, x \notin Merged(l, m + 1),
             \A j \in 1 .. m + 1 : x = l[j] => ~FirstText(l, j)
      PROVE  g.what[x] = heap.what[x]
  <2>1. \A j \in 1 .. m : j \in 1 .. m + 1
    BY <1>1
  <2>2. x \notin Merged(l, m) /\ x # l[m + 1]
    BY <1>4, <1>9
  <2>3. x # l[a]
    BY <2>1, <1>2, <1>9 DEF RunGoesOn
  <2>4. h.what[x] = heap.what[x]
    BY <2>1, <2>2, <1>9 DEF JoinedTo
  <2>5. QED
    BY <2>2, <2>3, <2>4, <1>7
<1>10. ASSUME NEW j \in 1 .. m + 1, FirstText(l, j)
       PROVE  \E q : /\ RunTo(l, j, q, m + 1)
                     /\ g.what[l[j]] = [heap.what[l[j]] EXCEPT !.text = Whole(l, j, q)]
  <2>1. j # m + 1
    BY <1>3, <1>10 DEF FirstText
  <2>2. j \in 1 .. m /\ j \in 1 .. Len(l) /\ j \in Nat \ {0}
    BY <2>1, <1>1
  <2>3. PICK q : RunTo(l, j, q, m) /\ h.what[l[j]] = [heap.what[l[j]] EXCEPT !.text = Whole(l, j, q)]
    BY <2>2, <1>10 DEF JoinedTo
  <2>4. q \in j .. m /\ \A i \in j .. q : Sequence!IsText(l[i])
    BY <2>3 DEF RunTo
  <2>5. CASE j = a
    <3>1. q = m
      <4>1. q + 1 \in a .. m \/ q = m
        BY <2>4, <2>5, <1>1, <1>2
      <4>2. QED
        BY <4>1, <2>3, <1>2 DEF RunTo
    <3>2. Whole(l, a, m + 1) = Whole(l, a, m) \o heap.what[l[m + 1]].text
      <4>1. m \in a .. Len(l)
        BY <1>1, <1>2
      <4>2. QED
        BY <4>1, <1>2, WholeNext
    <3> DEFINE w == heap.what[l[a]]
               t == Whole(l, a, m)
               z == heap.what[l[m + 1]].text
    <3>3. h.what[l[a]] = [w EXCEPT !.text = t] /\ w \in Cells
      BY <3>1, <2>3, <2>5, <1>1, <1>2 DEF Good, Heaps
    <3>4. g.what[l[a]] = [h.what[l[a]] EXCEPT !.text = h.what[l[a]].text \o z]
      BY <1>5, <1>7
    <3> HIDE DEF w, t, z
    <3>5. g.what[l[a]] = [w EXCEPT !.text = t \o z]
      BY <3>3, <3>4 DEF Cells
    <3>6. RunTo(l, a, m + 1, m + 1)
      <4>1. m + 1 \in a .. m + 1 /\ \A i \in a .. m + 1 : i \in a .. m \/ i = m + 1
        BY <1>1, <1>2
      <4>2. QED
        BY <4>1, <1>2 DEF RunTo
    <3>7. QED
      BY <3>2, <3>5, <3>6, <2>5 DEF w, t, z
  <2>6. CASE j # a
    <3>1. q # m
      <4>1. SUFFICES ASSUME q = m PROVE FALSE
        OBVIOUS
      <4>2. CASE j < a
        <5>1. a - 1 \in j .. q /\ a - 1 \in Nat \ {0} /\ (a - 1) + 1 = a
          BY <4>1, <4>2, <2>2, <1>2
        <5>2. Sequence!TextsBefore(l, (a - 1) + 1) # 0
          BY <5>1, <2>4, TextsAfter
        <5>3. QED
          BY <5>1, <5>2, <1>2
      <4>3. CASE a < j
        <5>1. j - 1 \in a .. m /\ j - 1 \in Nat \ {0} /\ (j - 1) + 1 = j
          BY <4>3, <2>2, <1>1, <1>2
        <5>2. Sequence!TextsBefore(l, (j - 1) + 1) # 0
          BY <5>1, <1>2, TextsAfter
        <5>3. QED
          BY <5>1, <5>2, <1>10 DEF FirstText
      <4>4. j < a \/ a < j
        BY <2>2, <2>6, <1>2
      <4>5. QED
        BY <4>2, <4>3, <4>4
    <3>2. q \in j .. m + 1
      BY <2>2, <2>4
    <3>3. RunTo(l, j, q, m + 1)
      BY <3>1, <3>2, <2>3, <2>4 DEF RunTo
    <3>4. l[j] \in Nodes /\ l[j] # l[a] /\ l[j] # l[m + 1]
      BY <2>1, <2>2, <2>6, <1>1, <1>2
    <3>5. QED
      BY <3>3, <3>4, <2>3, <1>7
  <2>7. QED
    BY <2>5, <2>6
<1>11. QED
  BY <1>4, <1>8, <1>9, <1>10 DEF JoinedTo

\* What the loop of flatten_text has done after k turns: h is the heap and n the
\* cell it stands at; c is the place of n, which was at a, and m that of the last
\* cell of the list as it was that has been looked at.
FlattenTo(h, n, e, k, c, a, m) ==
    /\ m \in 1 .. Len(Lists(heap)[e]) /\ a \in 1 .. m
    /\ c \in 1 .. Len(Lists(h)[e]) /\ n = Lists(h)[e][c] /\ n = Lists(heap)[e][a]
    /\ SameRest(Lists(h)[e], c + 1, Lists(heap)[e], m + 1)
    /\ a = m \/ \A i \in a .. m : Sequence!IsText(Lists(heap)[e][i])
    /\ Sequence!IsText(Lists(heap)[e][a]) => FirstText(Lists(heap)[e], a)
    /\ Thinned(h, e, Merged(Lists(heap)[e], m)) /\ JoinedTo(h, Lists(heap)[e], m)
    /\ m = Len(Lists(heap)[e]) \/ k + 1 <= m
FlattenSome(h, n, e, k) == \E c, a, m : FlattenTo(h, n, e, k, c, a, m)

\* A cell that is in use keeps its kind.
LEMMA KindStays ==
    ASSUME Good(heap), NEW l, Distinct(l), NEW h, NEW m \in 1 .. Len(l), JoinedTo(h, l, m),
           NEW a \in 1 .. Len(l), Sequence!IsText(l[a]) /\ a <= m => FirstText(l, a)
    PROVE  IsText(h, l[a]) <=> Sequence!IsText(l[a])
<1>1. /\ Len(l) \in Nat /\ l[a] \in Nodes /\ l[a] # NIL
      /\ \A i, j \in 1 .. Len(l) : l[i] = l[j] => i = j
  BY DistinctIs
<1>2. heap.what[l[a]] \in Cells
  BY <1>1 DEF Good, Heaps
<1>3. h.what[l[a]].kind = heap.what[l[a]].kind
  <2>1. CASE a <= m /\ FirstText(l, a)
    <3>1. a \in 1 .. m
      BY <2>1
    <3>2. PICK q : h.what[l[a]] = [heap.what[l[a]] EXCEPT !.text = Whole(l, a, q)]
      BY <2>1, <3>1 DEF JoinedTo
    <3>3. QED
      BY <3>2, <1>2 DEF Cells
  <2>2. CASE ~(a <= m /\ FirstText(l, a))
    <3>1. \A j \in 1 .. m : l[a] = l[j] => a = j /\ a <= m
      BY <1>1
    <3>2. l[a] \notin Merged(l, m)
      BY <3>1, <2>2 DEF Merged
    <3>3. \A j \in 1 .. m : l[a] = l[j] => ~FirstText(l, j)
      BY <3>1, <2>2
    <3>4. QED
      BY <3>2, <3>3, <1>1 DEF JoinedTo
  <2>3. QED
    BY <2>1, <2>2
<1>4. QED
  BY <1>1, <1>3 DEF IsText, Sequence!IsText

\* One turn.
LEMMA FlattenTurnSeq ==
    ASSUME Good(heap), NEW e \in Elements, NEW h, Good(h), NEW n, NEW k \in Nat \ {0},
           FlattenSome(h, n, e, k - 1), NEW p, p = FlattenTurn(e, <<h, n>>)
    PROVE  FlattenSome(p[1], p[2], e, k)
<1> DEFINE l == Lists(heap)[e]
           r == Lists(h)[e]
<1>1. PICK c, a, m : FlattenTo(h, n, e, k - 1, c, a, m)
  BY DEF FlattenSome
<1>2. /\ m \in 1 .. Len(l) /\ a \in 1 .. m /\ c \in 1 .. Len(r) /\ n = r[c] /\ n = l[a]
      /\ SameRest(r, c + 1, l, m + 1)
      /\ a = m \/ \A i \in a .. m : Sequence!IsText(l[i])
      /\ Sequence!IsText(l[a]) => FirstText(l, a)
      /\ Thinned(h, e, Merged(l, m)) /\ JoinedTo(h, l, m)
      /\ m = Len(l) \/ (k - 1) + 1 <= m
  BY <1>1 DEF FlattenTo
<1>3. Distinct(r) /\ Distinct(l) /\ IsList(h, e, r)
  BY ListsOf, ListIsDistinct
<1>4. h.next[r[c]] = AfterPlace(r, c + 1) /\ h.tail[e] = BeforePlace(r, Len(r) + 1)
  <2>1. c \in 1 .. Len(r) /\ IsList(h, e, r)
    BY <1>2, <1>3
  <2> HIDE DEF r
  <2>2. h.next[r[c]] = AfterPlace(r, c + 1)
    BY <2>1, NextIs
  <2>3. h.tail[e] = BeforePlace(r, Len(r) + 1)
    BY <2>1, EndsAre
  <2>4. QED
    BY <2>2, <2>3
<1> HIDE DEF l, r
<1>5. /\ Len(r) \in Nat /\ Len(l) \in Nat /\ \A i, j \in 1 .. Len(r) : r[i] = r[j] => i = j
      /\ \A i \in 1 .. Len(l) : l[i] \in Nodes /\ l[i] # NIL
      /\ a \in 1 .. Len(l) /\ Len(r) \in 1 .. Len(r)
  <2>1. /\ Len(r) \in Nat /\ Len(l) \in Nat /\ \A i, j \in 1 .. Len(r) : r[i] = r[j] => i = j
        /\ \A i \in 1 .. Len(l) : l[i] \in Nodes /\ l[i] # NIL
    BY <1>3, DistinctIs
  <2>2. QED
    BY <2>1, <1>2
<1>6. /\ c = Len(r) <=> m = Len(l)
      /\ c # Len(r) => /\ c + 1 \in 1 .. Len(r) /\ m + 1 \in 1 .. Len(l) /\ c + 1 # Len(r) + 1
                       /\ r[c + 1] = l[m + 1] /\ SameRest(r, (c + 1) + 1, l, (m + 1) + 1)
  <2>1. /\ c + 1 = Len(r) + 1 <=> m + 1 = Len(l) + 1
        /\ c + 1 # Len(r) + 1 => /\ c + 1 \in 1 .. Len(r) /\ m + 1 \in 1 .. Len(l)
                                 /\ r[c + 1] = l[m + 1] /\ SameRest(r, (c + 1) + 1, l, (m + 1) + 1)
    <3>1. PICK d, z : d = c + 1 /\ z = m + 1
      OBVIOUS
    <3>2. SameRest(r, d, l, z)
      BY <3>1, <1>2
    <3>3. /\ d = Len(r) + 1 <=> z = Len(l) + 1
          /\ d # Len(r) + 1 => /\ d \in 1 .. Len(r) /\ z \in 1 .. Len(l)
                               /\ r[d] = l[z] /\ SameRest(r, d + 1, l, z + 1)
      <4>1. Distinct(r) /\ Distinct(l)
        BY <1>3
      <4>2. RestGoesOn(r, d, l, z)
        BY <4>1, <3>2, SameRestNext
      <4>3. QED
        BY <4>2 DEF RestGoesOn
    <3>4. QED
      BY <3>1, <3>3
  <2>2. QED
    BY <2>1, <1>2, <1>5
<1>7. n = h.tail[e] <=> c = Len(r)
  <2>1. h.tail[e] = r[Len(r)]
    BY <1>4, <1>5 DEF BeforePlace
  <2>2. QED
    BY <2>1, <1>2, <1>5
<1>8. IsText(h, n) <=> Sequence!IsText(l[a])
  BY <1>2, <1>3, <1>5, KindStays
<1>9. CASE n = h.tail[e]
  <2>1. p[1] = h /\ p[2] = n
    BY <1>9 DEF FlattenTurn
  <2>2. m = Len(l)
    BY <1>6, <1>7, <1>9
  <2>3. FlattenTo(h, n, e, k, c, a, m)
    BY <2>2, <1>2 DEF FlattenTo, l, r
  <2>4. QED
    BY <2>1, <2>3 DEF FlattenSome
<1>10. CASE n # h.tail[e]
  <2> DEFINE x == h.next[n]
  <2>1. /\ c # Len(r) /\ m # Len(l) /\ c + 1 # Len(r) + 1
        /\ c + 1 \in 1 .. Len(r) /\ m + 1 \in 1 .. Len(l) /\ r[c + 1] = l[m + 1]
        /\ SameRest(r, (c + 1) + 1, l, (m + 1) + 1)
    BY <1>6, <1>7, <1>10
  <2>2. x = r[c + 1] /\ x = l[m + 1]
    <3>1. h.next[r[c]] = r[c + 1]
      BY <2>1, <1>4 DEF AfterPlace
    <3>2. QED
      BY <3>1, <2>1, <1>2
  <2>3. IsText(h, x) <=> Sequence!IsText(l[m + 1])
    <3>1. ~(m + 1 <= m)
      BY <1>2, <1>5
    <3>2. IsText(h, l[m + 1]) <=> Sequence!IsText(l[m + 1])
      BY <3>1, <2>1, <1>2, <1>3, KindStays
    <3>3. QED
      BY <3>2, <2>2
  <2>4. m + 1 = Len(l) \/ k + 1 <= m + 1
    BY <2>1, <1>2, <1>5
  <2>5. CASE ~IsText(h, n) \/ ~IsText(h, x)
    <3>1. p[1] = h /\ p[2] = x
      BY <2>5, <1>10 DEF FlattenTurn
    <3>2. ~(Sequence!IsText(l[m]) /\ Sequence!IsText(l[m + 1]))
      <4>1. Sequence!IsText(l[m]) => Sequence!IsText(l[a])
        <5>1. a \in a .. m
          BY <1>2, <1>5
        <5>2. QED
          BY <5>1, <1>2
      <4>2. QED
        BY <4>1, <2>3, <2>5, <1>8
    <3>3. Merged(l, m + 1) = Merged(l, m) /\ JoinedTo(h, l, m + 1)
      BY <3>2, <2>1, <1>2, <1>3, JoinedPass
    <3>4. Sequence!IsText(l[m + 1]) => FirstText(l, m + 1)
      <4>1. m \in Nat \ {0}
        BY <1>2, <1>5
      <4>2. QED
        BY <4>1, <3>2, TextsAfter DEF FirstText
    <3>5. m + 1 \in 1 .. m + 1
      BY <1>2, <1>5
    <3>6. FlattenTo(h, x, e, k, c + 1, m + 1, m + 1)
      <4> HIDE DEF x
      <4>1. QED
        BY <3>3, <3>4, <3>5, <2>1, <2>2, <2>4, <1>2 DEF FlattenTo, l, r
    <3>7. QED
      BY <3>1, <3>6 DEF FlattenSome
  <2>6. CASE IsText(h, n) /\ IsText(h, x)
    <3>1. PICK t : t = h.what[n].text \o h.what[x].text
      OBVIOUS
    <3>2. PICK b : b = [h EXCEPT !.what[n].text = t]
      OBVIOUS
    <3>3. PICK g : g = erase_impl(b, e, x)
      OBVIOUS
    <3>4. p[1] = g /\ p[2] = n
      BY <3>1, <3>2, <3>3, <2>6, <1>10 DEF FlattenTurn
    <3>5. n \in Nodes /\ x \in Nodes /\ n # NIL /\ h.what[n].kind # "free"
      BY <2>1, <2>2, <2>6, <1>2, <1>5 DEF IsText
    <3>6. h.what \in [Nodes -> Cells] /\ t \in Seq(STRING)
      <4>1. h.what \in [Nodes -> Cells]
        BY DEF Good, Heaps
      <4>2. h.what[n].text \in Seq(STRING) /\ h.what[x].text \in Seq(STRING)
        BY <4>1, <3>5 DEF Cells
      <4>3. QED
        BY <4>1, <4>2, <3>1, ConcatProperties
    <3> HIDE DEF x
    <3>7. Good(b) /\ SameElse(h, b, {})
      BY <3>2, <3>5, <3>6, TextGood
    <3>8. b.what = [h.what EXCEPT ![n].text = t]
      BY <3>2, <3>5 DEF Good, Heaps
    <3>9. Lists(b) = Lists(h) /\ Lists(b)[e] = r
      BY <3>7, ListsSame DEF r
    <3>10. Takes(b, g, e, c + 1, x)
      BY <3>3, <3>7, <3>9, <2>1, <2>2, EraseTakes
    <3> DEFINE v == Lists(g)[e]
    <3>11. v = RemoveAt(r, c + 1) /\ g.what = [b.what EXCEPT ![x] = Free]
      BY <3>9, <3>10 DEF Takes, Edits, Lists
    <3>12. RunGoesOn(l, a, m)
      <4>1. Sequence!IsText(l[a]) /\ Sequence!IsText(l[m + 1])
        BY <2>3, <2>6, <1>8
      <4>2. \A i \in a .. m : Sequence!IsText(l[i])
        <5>1. a = m => \A i \in a .. m : i = a
          BY <1>2, <1>5
        <5>2. QED
          BY <5>1, <4>1, <1>2
      <4>3. QED
        BY <4>1, <4>2, <1>2 DEF RunGoesOn
    <3>13. Merges(h, g, l, a, m)
      BY <3>1, <3>8, <3>11, <2>2, <1>2 DEF Merges
    <3>14. Merged(l, m + 1) = Merged(l, m) \cup {x} /\ JoinedTo(g, l, m + 1)
      <4>1. Merged(l, m + 1) = Merged(l, m) \cup {l[m + 1]} /\ JoinedTo(g, l, m + 1)
        BY <3>12, <3>13, <2>1, <1>2, <1>3, JoinedMore
      <4>2. QED
        BY <4>1, <2>2
    <3>15. Thinned(g, e, Merged(l, m) \cup {x})
      <4>1. Thinned(b, e, Merged(l, m))
        BY <3>9, <1>2 DEF Thinned, Edits, r
      <4>2. QED
        BY <4>1, <3>7, <3>9, <3>10, <2>1, <2>2, ThinnedMore
    <3> HIDE DEF v
    <3>16. SameRest(v, c + 1, l, (m + 1) + 1) /\ Len(v) = Len(r) - 1 /\ v[c] = r[c]
      <4>1. SameRest(v, c + 1, l, (m + 1) + 1)
        <5>1. PICK d, z : d = c + 1 /\ z = m + 1
          OBVIOUS
        <5>2. SameRest(r, d, l, z) /\ d # Len(r) + 1 /\ v = RemoveAt(r, d)
          BY <5>1, <3>11, <2>1, <1>2
        <5>3. SameRest(v, d, l, z + 1)
          BY <5>2, <1>3, SameRestGone
        <5>4. QED
          BY <5>1, <5>3
      <4>2. Len(v) = Len(r) - 1 /\ \A j \in 1 .. Len(v) : v[j] = IF j < c + 1 THEN r[j] ELSE r[j + 1]
        <5>1. PICK d : d = c + 1
          OBVIOUS
        <5>2. d \in 1 .. Len(r) /\ v = RemoveAt(r, d) /\ Distinct(r)
          BY <5>1, <3>11, <2>1, <1>3
        <5>3. Len(v) = Len(r) - 1 /\ \A j \in 1 .. Len(v) : v[j] = IF j < d THEN r[j] ELSE r[j + 1]
          BY <5>2, Removed
        <5>4. QED
          BY <5>1, <5>3
      <4>3. c \in 1 .. Len(v) /\ c < c + 1
        BY <4>2, <2>1, <1>2, <1>5
      <4>4. QED
        BY <4>1, <4>2, <4>3
    <3>17. c \in 1 .. Len(v) /\ a \in 1 .. m + 1
      BY <3>16, <2>1, <1>2, <1>5
    <3>18. \A i \in a .. m + 1 : Sequence!IsText(l[i])
      <4>1. \A i \in a .. m + 1 : i \in a .. m \/ i = m + 1
        BY <1>2, <1>5
      <4>2. QED
        BY <4>1, <3>12 DEF RunGoesOn
    <3>19. FlattenTo(g, n, e, k, c, a, m + 1)
      BY <3>14, <3>15, <3>16, <3>17, <3>18, <2>1, <2>4, <1>2 DEF FlattenTo, l, v
    <3>20. QED
      BY <3>4, <3>19 DEF FlattenSome
  <2>7. QED
    BY <2>5, <2>6
<1>11. QED
  BY <1>9, <1>10

\* Where nothing has been looked at nothing is merged.
LEMMA JoinedNone ==
    ASSUME Good(heap), NEW e \in Elements
    PROVE  /\ Merged(Lists(heap)[e], 0) = {} /\ Thinned(heap, e, {})
           /\ JoinedTo(heap, Lists(heap)[e], 0)
<1> DEFINE l == Lists(heap)[e]
<1>1. Merged(l, 0) = {}
  <2>1. {i \in 1 .. 0 : Sequence!IsText(l[i]) /\ Sequence!TextsBefore(l, i) # 0} = {}
    OBVIOUS
  <2>2. QED
    BY <2>1 DEF Merged
<1>2. JoinedTo(heap, l, 0)
  <2>1. 1 .. 0 = {}
    OBVIOUS
  <2>2. QED
    BY <1>1, <2>1 DEF JoinedTo
<1>3. QED
  BY <1>1, <1>2, ThinnedNone

\* The loop begins at the first child.
LEMMA FlattenStarts ==
    ASSUME Good(heap), NEW e \in Elements, Lists(heap)[e] # <<>>
    PROVE  FlattenSome(heap, heap.head[e], e, 0)
<1> DEFINE l == Lists(heap)[e]
<1>1. Distinct(l) /\ IsList(heap, e, l)
  BY ListsOf, ListIsDistinct
<1>2. heap.head[e] = AfterPlace(l, 1)
  BY <1>1, EndsAre
<1>3. 0 + 1 = 1 /\ 1 + 1 = 2
  OBVIOUS
<1>4. Merged(l, 0) = {} /\ Thinned(heap, e, {}) /\ JoinedTo(heap, l, 0)
  BY JoinedNone
<1> HIDE DEF l
<1>5. Len(l) \in Nat /\ l \in Seq(Nodes) /\ \A i \in 1 .. Len(l) : l[i] \in Nodes
  BY <1>1, DistinctIs
<1>6. Len(l) # 0
  BY <1>5 DEF l
<1>7. 1 \in 1 .. Len(l) /\ heap.head[e] = l[1] /\ 1 \in 1 .. 1
  BY <1>2, <1>5, <1>6 DEF AfterPlace
<1>8. Sequence!TextsBefore(l, 1) = 0
  BY <1>3, TextsNext
<1>9. Merged(l, 1) = {}
  <2>1. {i \in 1 .. 1 : Sequence!IsText(l[i]) /\ Sequence!TextsBefore(l, i) # 0} = {}
    BY <1>8
  <2>2. QED
    BY <2>1 DEF Merged
<1>10. JoinedTo(heap, l, 1)
  <2>1. ASSUME NEW j \in 1 .. 1, FirstText(l, j)
        PROVE  \E q : RunTo(l, j, q, 1) /\ heap.what[l[j]] = [heap.what[l[j]] EXCEPT !.text = Whole(l, j, q)]
    <3>1. j = 1 /\ j \in 1 .. Len(l) /\ j \in j .. Len(l)
      BY <1>7
    <3>2. Whole(l, j, j) = heap.what[l[j]].text
      BY <3>1, <1>1, WholeNext
    <3>3. heap.what[l[j]] \in Cells
      BY <3>1, <1>5 DEF Good, Heaps
    <3>4. heap.what[l[j]] = [heap.what[l[j]] EXCEPT !.text = heap.what[l[j]].text]
      BY <3>3 DEF Cells
    <3>5. RunTo(l, j, j, 1)
      BY <2>1, <3>1 DEF RunTo, FirstText
    <3>6. QED
      BY <3>2, <3>4, <3>5
  <2>2. QED
    BY <1>9, <2>1 DEF JoinedTo
<1>11. SameRest(l, 1 + 1, l, 1 + 1)
  <2>1. 1 + 1 \in 1 .. Len(l) + 1
    BY <1>5, <1>6
  <2>2. QED
    BY <2>1 DEF SameRest
<1>12. FirstText(l, 1) \/ ~Sequence!IsText(l[1])
  BY <1>8 DEF FirstText
<1>13. FlattenTo(heap, heap.head[e], e, 0, 1, 1, 1)
  <2>1. 1 = Len(l) \/ 0 + 1 <= 1
    OBVIOUS
  <2>2. QED
    BY <2>1, <1>4, <1>7, <1>9, <1>10, <1>11, <1>12 DEF FlattenTo, l
<1>14. QED
  BY <1>13 DEF FlattenSome

\* What the whole loop has done.
LEMMA FlattenLoopSeq ==
    ASSUME NodeInv, NEW e \in Elements, FlattenText(e)
    PROVE  /\ Thinned(heap', e, Merged(Lists(heap)[e], Len(Lists(heap)[e])))
           /\ JoinedTo(heap', Lists(heap)[e], Len(Lists(heap)[e]))
<1> DEFINE l == Lists(heap)[e]
           M == 2 * N
           D(k) == {p \in TextTurns(e) : IF l = <<>> THEN p = <<heap, heap.head[e]>>
                                         ELSE FlattenSome(p[1], p[2], e, k)}
           S == [k \in 0 .. M |-> D(k)]
<1>1. Good(heap) /\ IsList(heap, e, l) /\ Distinct(l) /\ N \in Nat /\ M \in Nat
  BY ListsOf, ListIsDistinct, CellsType DEF NodeInv
<1>2. PICK f : /\ f[0] = <<heap, heap.head[e]>>
               /\ \A k \in 1 .. M : f[k] = FlattenTurn(e, f[k - 1])
               /\ \A k \in 0 .. M : f[k] \in TextTurns(e)
               /\ heap' = f[M][1]
  BY <1>1, FlattenTextLoop
<1>3. \A k \in 0 .. M : S[k] = D(k)
  OBVIOUS
<1> HIDE DEF S, M
<1>4. f[0] \in S[0]
  <2>1. 0 \in 0 .. M
    BY <1>1
  <2>2. l # <<>> => FlattenSome(heap, heap.head[e], e, 0)
    BY <1>1, FlattenStarts
  <2>3. QED
    BY <2>1, <2>2, <1>2, <1>3
<1>5. ASSUME NEW k \in 1 .. M, f[k - 1] \in S[k - 1] PROVE f[k] \in S[k]
  <2>1. k - 1 \in 0 .. M /\ k \in 0 .. M /\ k \in Nat \ {0}
    BY <1>1
  <2>2. PICK h, n : f[k - 1] = <<h, n>>
    BY <2>1, <1>2 DEF TextTurns
  <2>3. <<h, n>> \in TextTurns(e) /\ f[k] = FlattenTurn(e, <<h, n>>) /\ f[k] \in TextTurns(e)
    BY <2>1, <2>2, <1>2
  <2>4. Good(h)
    BY <2>3 DEF TextTurns
  <2>5. CASE l = <<>>
    <3>1. h = heap /\ n = heap.head[e]
      BY <2>1, <2>2, <2>5, <1>3, <1>5
    <3>2. heap.head[e] = heap.tail[e]
      BY <2>5, <1>1 DEF IsList
    <3>3. f[k] = <<heap, heap.head[e]>>
      BY <3>1, <3>2, <2>3 DEF FlattenTurn
    <3>4. QED
      BY <3>3, <2>1, <2>3, <2>5, <1>3
  <2>6. CASE l # <<>>
    <3>1. FlattenSome(h, n, e, k - 1)
      BY <2>1, <2>2, <2>6, <1>3, <1>5
    <3>2. PICK p : p = FlattenTurn(e, <<h, n>>)
      OBVIOUS
    <3>3. FlattenSome(p[1], p[2], e, k)
      BY <3>1, <3>2, <2>1, <2>4, <1>1, FlattenTurnSeq
    <3>4. QED
      BY <3>2, <3>3, <2>1, <2>3, <2>6, <1>3
  <2>7. QED
    BY <2>5, <2>6
<1>6. f[M] \in D(M)
  <2>1. \A k \in 0 .. M : f[k] \in S[k]
    BY <1>1, <1>4, <1>5, UpTo
  <2>2. M \in 0 .. M
    BY <1>1
  <2>3. QED
    BY <2>1, <2>2, <1>3
<1>7. PICK n : f[M] = <<heap', n>>
  <2>1. PICK h, n : f[M] = <<h, n>>
    BY <1>6 DEF TextTurns
  <2>2. QED
    BY <2>1, <1>2
<1>8. CASE l = <<>>
  <2>1. heap' = heap /\ Len(l) = 0
    BY <1>6, <1>7, <1>8
  <2>2. Merged(l, 0) = {} /\ Thinned(heap, e, {}) /\ JoinedTo(heap, l, 0)
    BY <1>1, JoinedNone
  <2>3. QED
    BY <2>1, <2>2
<1>9. CASE l # <<>>
  <2>1. FlattenSome(heap', n, e, M)
    BY <1>6, <1>7, <1>9
  <2>2. PICK c, a, m : FlattenTo(heap', n, e, M, c, a, m)
    BY <2>1 DEF FlattenSome
  <2>3. m \in 1 .. Len(l) /\ (m = Len(l) \/ M + 1 <= m)
    BY <2>2 DEF FlattenTo
  <2>4. m = Len(l)
    <3>1. l \in Seq(Nodes) /\ Len(l) \in Nat /\ \A i, j \in 1 .. Len(l) : l[i] = l[j] => i = j
      BY <1>1, DistinctIs
    <3> HIDE DEF l
    <3>2. Len(l) <= N
      BY <3>1, ListFits
    <3>3. QED
      BY <3>1, <3>2, <2>3, <1>1 DEF M
  <2>5. QED
    BY <2>2, <2>4 DEF FlattenTo
<1>10. QED
  BY <1>8, <1>9

\* element::flatten_text
LEMMA FlattenTextSeq ==
    ASSUME NodeInv, NEW e \in Elements, FlattenText(e)
    PROVE  Sequence!FlattenText(e)
<1> DEFINE L == [d \in Elements |-> List(d)]
           s == L[e]
           first == {i \in DOMAIN s : ~Sequence!IsText(s[i]) \/ Sequence!TextsBefore(s, i) = 0}
           last(i) == Sequence!Max({j \in i .. Len(s) : \A k \in i .. j : Sequence!IsText(s[k])})
           whole(i) == Sequence!FlattenSeq([j \in 1 .. (last(i) - i + 1) |-> heap.what[s[i + j - 1]].text])
           own == Sequence!ToSet(s)
           z == Len(s)
<1>0. L = Lists(heap)
  BY SeqIs
<1>1. Good(heap) /\ Distinct(s)
  BY <1>0, ListsOf, ListIsDistinct DEF NodeInv
<1>2. Thinned(heap', e, Merged(s, z)) /\ JoinedTo(heap', s, z)
  BY <1>0, FlattenLoopSeq
<1>3. it' = Sequence!At(e, NIL, FALSE)
  BY DEF FlattenText, Renewed, Made, Sequence!At
<1> DEFINE r == Lists(heap')[e]
<1>4. Lists(heap') = [L EXCEPT ![e] = r] /\ Sequence!Part(r, s, Nodes \ Merged(s, z))
  BY <1>0, <1>2 DEF Thinned, Edits
<1>5. /\ [d \in Elements |-> List(d)]' = [L EXCEPT ![e] = r]
      /\ [d \in Elements |-> List(d)]'[e] = r
  BY <1>4, SeqIs
<1> HIDE DEF L
<1>6. /\ z \in Nat /\ DOMAIN s = 1 .. z /\ \A i \in 1 .. z : s[i] \in Nodes
      /\ \A i, j \in 1 .. z : s[i] = s[j] => i = j
      /\ own = {s[i] : i \in 1 .. z}
  <2> HIDE DEF s
  <2>1. QED
    BY <1>1, DistinctIs DEF Sequence!ToSet, ToSet
<1>7. \A i \in 1 .. z : s[i] \in Merged(s, z) <=> i \notin first
  <2> HIDE DEF s
  <2>1. QED
    BY <1>6 DEF Merged
<1>8. Sequence!Part(r, s, {s[i] : i \in first})
  <2>1. own \cap (Nodes \ Merged(s, z)) = own \cap {s[i] : i \in first}
    <3> HIDE DEF s
    <3>1. first \subseteq 1 .. z
      BY <1>6
    <3> HIDE DEF first, own
    <3>2. QED
      BY <3>1, <1>6, <1>7
  <2> HIDE DEF s, r, first
  <2>2. QED
    BY <2>1, <1>4 DEF Sequence!Part
<1>9. ASSUME NEW i \in 1 .. z, NEW q, RunTo(s, i, q, z) PROVE Whole(s, i, q) = whole(i)
  <2> DEFINE X == {j \in i .. Len(s) : \A k \in i .. j : Sequence!IsText(s[k])}
  <2>1. q \in i .. z /\ (\A k \in i .. q : Sequence!IsText(s[k])) /\ (q = z \/ ~Sequence!IsText(s[q + 1]))
    BY <1>9 DEF RunTo
  <2> HIDE DEF s
  <2>2. X \in SUBSET Nat /\ q \in X
    <3>1. i .. Len(s) \subseteq Nat /\ q \in i .. Len(s)
      BY <2>1
    <3>2. QED
      BY <3>1, <2>1
  <2>3. ASSUME NEW j \in X PROVE j <= q
    <3>1. j \in i .. z /\ \A k \in i .. j : Sequence!IsText(s[k])
      OBVIOUS
    <3>2. CASE q = z
      BY <3>1, <3>2, <1>6
    <3>3. CASE ~Sequence!IsText(s[q + 1])
      <4>1. q + 1 \notin i .. j
        BY <3>1, <3>3
      <4>2. QED
        <5>1. i \in Nat /\ q \in Nat /\ j \in Nat /\ i <= q
          BY <3>1, <2>1
        <5>2. QED
          BY <5>1, <4>1
    <3>4. QED
      BY <3>2, <3>3, <2>1
  <2> HIDE DEF X
  <2>4. Max(X) = q
    BY <2>2, <2>3, MaxIs
  <2>5. last(i) = Max(X)
    BY DEF Sequence!Max, Max, X
  <2>6. last(i) = q
    BY <2>4, <2>5
  <2> HIDE DEF last
  <2>7. QED
    BY <2>6 DEF Whole
<1> DEFINE to(n) == IF n \notin own THEN heap.what[n]
                    ELSE IF Sequence!Place(s, n) \notin first THEN Sequence!Unused
                    ELSE IF Sequence!IsText(n) THEN [heap.what[n] EXCEPT !.text = whole(Sequence!Place(s, n))]
                    ELSE heap.what[n]
<1>10. ASSUME NEW n \in Nodes PROVE heap'.what[n] = to(n)
  <2> HIDE DEF s, whole, r
  <2>1. CASE n \notin own
    <3>1. \A j \in 1 .. z : n # s[j]
      BY <2>1, <1>6
    <3>2. n \notin Merged(s, z)
      BY <3>1 DEF Merged
    <3>3. heap'.what[n] = heap.what[n]
      BY <3>1, <3>2, <1>2 DEF JoinedTo
    <3>4. QED
      BY <3>3, <2>1
  <2>2. CASE n \in own
    <3>1. PICK i \in 1 .. z : n = s[i]
      BY <2>2, <1>6
    <3>2. Sequence!Place(s, n) = i
      BY <3>1, <1>1, PlaceIs
    <3>3. CASE i \notin first
      <4>1. heap'.what[n] = Free
        BY <3>1, <3>3, <1>2, <1>7 DEF JoinedTo
      <4>2. Free = Sequence!Unused
        BY DEF Free, Sequence!Unused
      <4>3. QED
        BY <4>1, <4>2, <3>2, <3>3, <2>2
    <3>4. CASE i \in first /\ Sequence!IsText(n)
      <4>1. FirstText(s, i)
        BY <3>1, <3>4 DEF FirstText
      <4>2. PICK q : /\ RunTo(s, i, q, z)
                     /\ heap'.what[s[i]] = [heap.what[s[i]] EXCEPT !.text = Whole(s, i, q)]
        BY <4>1, <3>1, <1>2 DEF JoinedTo
      <4>3. Whole(s, i, q) = whole(i)
        BY <4>2, <1>9
      <4>4. QED
        BY <4>2, <4>3, <3>1, <3>2, <3>4, <2>2
    <3>5. CASE i \in first /\ ~Sequence!IsText(n)
      <4>1. n \notin Merged(s, z)
        BY <3>1, <3>5, <1>7
      <4>2. \A j \in 1 .. z : n = s[j] => ~FirstText(s, j)
        BY <3>1, <3>5 DEF FirstText
      <4>3. heap'.what[n] = heap.what[n]
        BY <4>1, <4>2, <1>2 DEF JoinedTo
      <4>4. QED
        BY <4>3, <3>2, <3>5, <2>2
    <3>6. QED
      BY <3>3, <3>4, <3>5
  <2>3. QED
    BY <2>1, <2>2
<1>11. heap'.what = [n \in Nodes |-> to(n)]
  <2>1. heap'.what = [n \in Nodes |-> heap'.what[n]]
    <3>1. Good(heap')
      <4>1. Good(heap)
        BY <1>1
      <4>2. QED
        BY <4>1, FlattenTextGood
    <3>2. QED
      BY <3>1 DEF Good, Heaps
  <2> HIDE DEF to
  <2>2. QED
    BY <2>1, <1>10
<1> HIDE DEF r
<1>12. Sequence!FlattenText(e)
  BY <1>3, <1>5, <1>8, <1>11 DEF Sequence!FlattenText, L
<1>13. QED
  BY <1>12

-----------------------------------------------------------------------------
(* The refinement *)

\* The lists start empty.
LEMMA InitSeq == Init => Sequence!Init
<1> SUFFICES ASSUME Init PROVE Sequence!Init
  OBVIOUS
<1>1. \A e \in Elements : List(e) = <<>>
  BY ChainOfNothing DEF Init, List
<1>2. [e \in Elements |-> List(e)] = [e \in Elements |-> <<>>]
  BY <1>1
<1>3. heap.what = [n \in Nodes |-> Sequence!Unused]
  BY DEF Init, Free, Sequence!Unused
<1>4. it \in {Sequence!At(e, NIL, FALSE) : e \in Elements}
  BY DEF Init, Made, Sequence!At
<1>5. QED
  BY <1>2, <1>3, <1>4 DEF Sequence!Init

\* Every step is one of the sequences' or changes nothing they show.
LEMMA NextSeq == NodeInv /\ [Next]_vars => [Sequence!Next]_(Sequence!vars)
<1> SUFFICES ASSUME NodeInv, [Next]_vars PROVE Sequence!Next \/ UNCHANGED Sequence!vars
  OBVIOUS
<1>1. ASSUME NEW e \in Elements, NEW elem \in BOOLEAN, Begin(e, elem) \/ End(e, elem)
      PROVE  Sequence!Next
  BY <1>1, BeginSeq, EndSeq DEF Sequence!Next
<1>2. CASE Advance \/ Retreat \/ Erase
  BY <1>2, AdvanceSeq, RetreatSeq, EraseSeq DEF Sequence!Next
<1>3. ASSUME NEW k \in Kinds, NEW s \in Content[k], Insert(k, s) PROVE Sequence!Next
  <2>1. PICK n \in Nodes : Sequence!Insert(n, k, s)
    BY <1>3, InsertSeq
  <2>2. k \in Sequence!Kinds
    BY DEF Kinds, Sequence!Kinds
  <2>3. QED
    BY <2>1, <2>2 DEF Sequence!Next
<1>4. ASSUME NEW e \in Elements,
             Clear(e) \/ PopFront(e) \/ PopBack(e) \/ EraseElements(e) \/ FlattenText(e)
      PROVE  Sequence!Next
  BY <1>4, ClearSeq, PopFrontSeq, PopBackSeq, EraseElementsSeq, FlattenTextSeq DEF Sequence!Next
<1>5. ASSUME NEW e \in Elements, InsertRange(e) PROVE Sequence!Next
  BY <1>5, InsertRangeSeq DEF Sequence!Next
<1>6. ASSUME NEW d \in Elements, NEW e \in Elements, Swap(d, e) \/ MoveAssign(d, e) \/ CopyAssign(d, e)
      PROVE  Sequence!Next
  BY <1>6, SwapSeq, MoveAssignSeq, CopyAssignSeq DEF Sequence!Next
<1>7. ASSUME NEW e \in Elements, NEW s \in Content.added, SetContent(e, s) \/ AddText(e, s)
      PROVE  Sequence!Next
  BY <1>7, SetContentSeq, AddTextSeq DEF Sequence!Next
<1>8. CASE UNCHANGED vars
  <2>1. heap' = heap /\ it' = it
    BY <1>8 DEF vars
  <2>2. [e \in Elements |-> List(e)]' = [e \in Elements |-> List(e)] /\ heap.what' = heap.what
    BY <2>1, SeqIs
  <2>3. QED
    BY <2>1, <2>2 DEF Sequence!vars
<1>9. QED
  BY <1>1, <1>2, <1>3, <1>4, <1>5, <1>6, <1>7, <1>8 DEF Next

(***************************************************************************)
(* The doubly linked list is the sequence its interface promises, however  *)
(* many cells there are and whatever is done with them: insert_impl,       *)
(* erase_impl, clear, swap, the copies, the iterators' ++ and --, and the  *)
(* loops of element over its children and texts each do to the chain of    *)
(* m_next pointers exactly what NodeSequence says they do to the sequence. *)
(***************************************************************************)
THEOREM ListsAreSequences == Spec => ImplementsSequence
<1>1. NodeInv /\ [Next]_vars => NodeInv'
  BY NextInv
<1>2. NodeInv /\ [Next]_vars => [Sequence!Next]_(Sequence!vars)
  BY NextSeq
<1>3. QED
  BY <1>1, <1>2, InitInv, InitSeq, PTL DEF Spec, ImplementsSequence, Sequence!Spec
=============================================================================
