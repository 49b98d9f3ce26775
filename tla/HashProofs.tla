---------------------------- MODULE HashProofs ----------------------------
(***************************************************************************)
(* Proofs about Hash, for every size of a block, of the length field and   *)
(* of a digest, and for every way a message is cut into calls of update.   *)
(***************************************************************************)
EXTENDS Hash, TLAPS, SequenceTheorems

-----------------------------------------------------------------------------
(* Whole blocks *)

\* A block has bytes.
LEMMA BlockPositive == BlockSize \in Nat \ {0}
BY SizesAssumption

\* A length that is a multiple of the block size is that of some blocks.
LEMMA WholeBlocks ==
    ASSUME NEW a \in Nat, a % BlockSize = 0
    PROVE  \E k \in Nat : a = BlockSize * k
BY BlockPositive

\* And the other way around.
LEMMA BlocksAreWhole ==
    ASSUME NEW k \in Nat
    PROVE  (BlockSize * k) % BlockSize = 0
BY BlockPositive

\* Whole blocks after whole blocks are whole blocks.
LEMMA BlocksAdd ==
    ASSUME NEW a \in Nat, NEW b \in Nat, a % BlockSize = 0, b % BlockSize = 0
    PROVE  (a + b) % BlockSize = 0
<1>1. PICK k \in Nat : a = BlockSize * k
  BY WholeBlocks
<1>2. PICK j \in Nat : b = BlockSize * j
  BY WholeBlocks
<1>3. BlockSize * (k + j) = BlockSize * k + BlockSize * j
  BY BlockPositive
<1>4. a + b = BlockSize * (k + j)
  BY <1>1, <1>2, <1>3
<1>5. QED
  BY <1>4, BlocksAreWhole

\* What is left when the rest of a division is taken away.
LEMMA BlocksOf ==
    ASSUME NEW a \in Nat
    PROVE  /\ a % BlockSize \in 0 .. BlockSize - 1
           /\ a - (a % BlockSize) \in 0 .. a
           /\ (a - (a % BlockSize)) % BlockSize = 0
<1>1. a % BlockSize \in 0 .. BlockSize - 1
  BY BlockPositive
<1>2. a \div BlockSize \in Nat
  BY BlockPositive
<1>3. a = BlockSize * (a \div BlockSize) + (a % BlockSize)
  BY BlockPositive
<1>4. BlockSize * (a \div BlockSize) \in Nat
  BY BlockPositive, <1>2
<1>5. a - (a % BlockSize) = BlockSize * (a \div BlockSize)
  BY <1>1, <1>3, <1>4
<1>6. QED
  BY <1>1, <1>2, <1>4, <1>5, BlocksAreWhole

-----------------------------------------------------------------------------
(* Sequences *)

\* A sequence of one number, n times.
LEMMA Constantly ==
    ASSUME NEW n \in Nat, NEW c \in Int
    PROVE  /\ [i \in 1 .. n |-> c] \in Seq(Int)
           /\ Len([i \in 1 .. n |-> c]) = n
           /\ \A i \in 1 .. n : [j \in 1 .. n |-> c][i] = c
OBVIOUS

\* Sequences of bytes and their concatenation, under names of their own so that
\* the steps below use the laws stated here and not the definition of \o.
Bytes == Seq(Int)
Cat(a, b) == a \o b

\* Bytes one after another: what the proofs need of concatenation.
LEMMA CatLaws ==
    /\ \A a, b \in Bytes : Cat(a, b) \in Bytes
    /\ \A a, b \in Bytes : Len(Cat(a, b)) = Len(a) + Len(b)
    /\ \A a, b, c \in Bytes : Cat(a, Cat(b, c)) = Cat(Cat(a, b), c)
    /\ \A a \in Bytes : Cat(a, <<>>) = a
    /\ \A a \in Bytes : Len(a) \in Nat
<1>1. ASSUME NEW a \in Seq(Int), NEW b \in Seq(Int)
      PROVE  a \o b \in Seq(Int) /\ Len(a \o b) = Len(a) + Len(b)
  BY ConcatProperties
<1>2. ASSUME NEW a \in Seq(Int), NEW b \in Seq(Int), NEW c \in Seq(Int)
      PROVE  a \o (b \o c) = (a \o b) \o c
  <2>1. (a \o b) \o c = a \o (b \o c)
    BY ConcatAssociative, SMTT(20)
  <2>2. QED
    BY <2>1, Zenon
<1>3. ASSUME NEW a \in Seq(Int)
      PROVE  a \o <<>> = a /\ Len(a) \in Nat
  BY ConcatEmptySeq
<1>4. QED
  BY <1>1, <1>2, <1>3 DEF Bytes, Cat

\* The pieces of a message in the order in which transform sees them.
LEMMA Regrouped ==
    ASSUME NEW a \in Bytes, NEW b \in Bytes, NEW s \in Bytes, NEW f \in Bytes, NEW k \in Bytes
    PROVE  /\ Cat(Cat(a, Cat(b, s)), f) \in Bytes
           /\ Cat(Cat(Cat(a, Cat(b, s)), f), k) = Cat(Cat(a, b), Cat(s, Cat(f, k)))
<1> DEFINE c == Cat(b, s)
           e == Cat(a, c)
           d == Cat(e, f)
<1>1. c \in Bytes /\ e \in Bytes /\ d \in Bytes
  BY CatLaws
<1>2. Cat(d, k) = Cat(Cat(a, b), Cat(s, Cat(f, k)))
  BY <1>1, CatLaws
<1>3. QED
  BY <1>1, <1>2

\* A sequence cut in two.
LEMMA Cut ==
    ASSUME NEW p \in Bytes, NEW n \in 0 .. Len(p)
    PROVE  /\ SubSeq(p, 1, n) \in Bytes /\ Len(SubSeq(p, 1, n)) = n
           /\ SubSeq(p, n + 1, Len(p)) \in Bytes
           /\ Len(SubSeq(p, n + 1, Len(p))) = Len(p) - n
           /\ Cat(SubSeq(p, 1, n), SubSeq(p, n + 1, Len(p))) = p
<1>1. /\ SubSeq(p, 1, n) \in Bytes /\ Len(SubSeq(p, 1, n)) = n
      /\ SubSeq(p, n + 1, Len(p)) \in Bytes
      /\ Len(SubSeq(p, n + 1, Len(p))) = Len(p) - n
  BY DEF Bytes
<1>2. SubSeq(p, 1, n) \o SubSeq(p, n + 1, Len(p)) = SubSeq(p, 1, Len(p))
  <2>1. 1 \in 1 .. Len(p) + 1 /\ n \in 1 - 1 .. Len(p) /\ Len(p) \in n .. Len(p)
    OBVIOUS
  <2>2. QED
    BY <2>1, ConcatAdjacentSubSeq, Zenon DEF Bytes
<1>3. SubSeq(p, 1, Len(p)) = p
  BY SubSeqFull DEF Bytes
<1>4. QED
  BY <1>1, <1>2, <1>3 DEF Cat

-----------------------------------------------------------------------------
(* hash_base::update *)

\* What hash_base holds: whole blocks transformed, less than a block kept.
Held == {d \in [done : Bytes, data : Bytes] :
            Len(d.data) < BlockSize /\ Len(d.done) % BlockSize = 0}

\* The bytes an object was given since it was last empty.
All(d) == Cat(d.done, d.data)

\* The number n of bytes that fill up the b kept ones, of l that are given: either
\* all of them and the block is not full, or the block is full or was empty.
LEMMA FillsUp ==
    ASSUME NEW b \in Nat, NEW l \in Nat, NEW n, b < BlockSize,
           n = IF b = 0 THEN 0 ELSE Smaller(BlockSize - b, l)
    PROVE  /\ n \in 0 .. l
           /\ b + n > 0 /\ b + n < BlockSize => n = l
           /\ ~(b + n > 0 /\ b + n < BlockSize) => b + n = 0 \/ b + n = BlockSize
BY BlockPositive DEF Smaller

\* The rest of p that is kept is less than a block.
LEMMA RestIsShort ==
    ASSUME NEW l \in Nat, NEW w, w = l - (l % BlockSize)
    PROVE  w \in 0 .. l /\ w % BlockSize = 0 /\ l - w < BlockSize
<1> DEFINE r == l % BlockSize
<1>1. r \in 0 .. BlockSize - 1 /\ l - r \in 0 .. l /\ (l - r) % BlockSize = 0
  BY BlocksOf
<1> HIDE DEF r
<1>2. l - (l - r) < BlockSize
  BY BlockPositive, <1>1
<1>3. QED
  BY <1>1, <1>2 DEF r

\* The branch of update in which the block is filled, or nothing was kept: the
\* kept bytes b with the start s of p and then the whole blocks f of p are whole
\* blocks.
LEMMA BlocksFlushed ==
    ASSUME NEW a \in Bytes, NEW b \in Bytes, NEW s \in Bytes, NEW f \in Bytes,
           Len(a) % BlockSize = 0, Len(b) + Len(s) \in {0, BlockSize},
           Len(f) % BlockSize = 0
    PROVE  Len(Cat(Cat(a, Cat(b, s)), f)) % BlockSize = 0
<1> DEFINE c == Cat(b, s)
           e == Cat(a, c)
           d == Cat(e, f)
<1>1. c \in Bytes /\ e \in Bytes /\ d \in Bytes
  BY CatLaws
<1>2. Len(c) = Len(b) + Len(s) /\ Len(e) = Len(a) + Len(c) /\ Len(d) = Len(e) + Len(f)
  BY <1>1, CatLaws
<1> HIDE DEF c, e, d
<1>3. Len(c) % BlockSize = 0
  <2>1. BlockSize * 0 = 0 /\ BlockSize * 1 = BlockSize
    BY BlockPositive
  <2>2. QED
    BY <1>2, <2>1, BlocksAreWhole
<1>4. Len(e) % BlockSize = 0
  BY <1>1, <1>2, <1>3, CatLaws, BlocksAdd
<1>5. Len(d) % BlockSize = 0
  BY <1>1, <1>2, <1>4, CatLaws, BlocksAdd
<1>6. QED
  BY <1>5 DEF c, d, e

\* The branches of update together: no byte of p is lost, doubled or moved, and
\* again less than a block is kept.
LEMMA AbsorbAppends ==
    ASSUME NEW a \in Bytes, NEW b \in Bytes, [done |-> a, data |-> b] \in Held,
           NEW p \in Bytes
    PROVE  /\ Absorb([done |-> a, data |-> b], p) \in Held
           /\ All(Absorb([done |-> a, data |-> b], p)) = Cat(Cat(a, b), p)
<1> DEFINE n     == IF Len(b) = 0 THEN 0 ELSE Smaller(BlockSize - Len(b), Len(p))
           start == SubSeq(p, 1, n)
           full  == Cat(b, start)
           rest  == SubSeq(p, n + 1, Len(p))
           whole == Len(rest) - (Len(rest) % BlockSize)
           front == SubSeq(rest, 1, whole)
           back  == SubSeq(rest, whole + 1, Len(rest))
<1>1. Absorb([done |-> a, data |-> b], p) =
        IF Len(full) > 0 /\ Len(full) < BlockSize
        THEN [done |-> a, data |-> full]
        ELSE [done |-> Cat(Cat(a, full), front), data |-> back]
  BY DEF Absorb, Cat
<1>2. Len(b) < BlockSize /\ Len(a) % BlockSize = 0
  BY DEF Held
<1>3. /\ n \in 0 .. Len(p)
      /\ Len(b) + n > 0 /\ Len(b) + n < BlockSize => n = Len(p)
      /\ ~(Len(b) + n > 0 /\ Len(b) + n < BlockSize) => Len(b) + n \in {0, BlockSize}
  BY <1>2, FillsUp, CatLaws
<1> HIDE DEF n
<1>4. /\ start \in Bytes /\ Len(start) = n
      /\ rest \in Bytes /\ Len(rest) = Len(p) - n
      /\ Cat(start, rest) = p
  BY <1>3, Cut
<1> HIDE DEF start, rest
<1>5. full \in Bytes /\ Len(full) = Len(b) + n
  BY <1>4, CatLaws
<1>6. CASE Len(full) > 0 /\ Len(full) < BlockSize
  <2>1. n = Len(p)
    BY <1>3, <1>5, <1>6
  <2>2. rest = <<>>
    BY <1>4, <2>1, CatLaws, EmptySeq DEF Bytes
  <2>3. start = p
    BY <1>4, <2>2, CatLaws
  <2>4. Cat(a, full) = Cat(Cat(a, b), p)
    BY <2>3, CatLaws
  <2> HIDE DEF full
  <2>5. [done |-> a, data |-> full] \in Held
    BY <1>2, <1>5, <1>6 DEF Held
  <2>6. All([done |-> a, data |-> full]) = Cat(a, full)
    BY DEF All
  <2>7. QED
    BY <1>1, <1>6, <2>4, <2>5, <2>6
<1>7. CASE ~(Len(full) > 0 /\ Len(full) < BlockSize)
  <2>1. Len(b) + Len(start) \in {0, BlockSize}
    BY <1>3, <1>4, <1>5, <1>7
  <2>2. whole \in 0 .. Len(rest) /\ whole % BlockSize = 0 /\ Len(rest) - whole < BlockSize
    BY <1>4, RestIsShort, CatLaws
  <2> HIDE DEF whole
  <2>3. /\ front \in Bytes /\ Len(front) = whole
        /\ back \in Bytes /\ Len(back) = Len(rest) - whole
        /\ Cat(front, back) = rest
    BY <1>4, <2>2, Cut
  <2> HIDE DEF front, back
  <2> DEFINE t == Cat(Cat(a, full), front)
  <2>4. Len(front) % BlockSize = 0
    BY <2>2, <2>3
  <2>5. /\ t \in Bytes /\ Len(t) % BlockSize = 0
        /\ Cat(t, back) = Cat(Cat(a, b), Cat(start, Cat(front, back)))
    <3>1. start \in Bytes /\ front \in Bytes /\ back \in Bytes
      BY <1>4, <2>3
    <3>2. t \in Bytes /\ Cat(t, back) = Cat(Cat(a, b), Cat(start, Cat(front, back)))
      BY <3>1, Regrouped
    <3>3. Len(t) % BlockSize = 0
      <4>1. Len(a) % BlockSize = 0
        BY <1>2
      <4>2. QED
        BY <2>1, <2>4, <3>1, <4>1, BlocksFlushed
    <3>4. QED
      BY <3>2, <3>3
  <2>6. Absorb([done |-> a, data |-> b], p) = [done |-> t, data |-> back]
    BY <1>1, <1>7
  <2> HIDE DEF t
  <2>7. Cat(t, back) = Cat(Cat(a, b), p)
    BY <1>4, <2>3, <2>5
  <2>8. [done |-> t, data |-> back] \in Held
    BY <2>2, <2>3, <2>5 DEF Held
  <2>9. All([done |-> t, data |-> back]) = Cat(t, back)
    BY DEF All
  <2>10. QED
    BY <2>6, <2>7, <2>8, <2>9
<1>8. QED
  BY <1>6, <1>7

\* hash_base::update: the block that is held is never full, and nothing is lost.
LEMMA AbsorbHeld ==
    ASSUME NEW d \in Held, NEW p \in Bytes
    PROVE  Absorb(d, p) \in Held /\ All(Absorb(d, p)) = Cat(All(d), p)
<1>1. PICK a \in Bytes, b \in Bytes : d = [done |-> a, data |-> b] /\ All(d) = Cat(a, b)
  BY DEF Held, All
<1>2. QED
  BY <1>1, AbsorbAppends

-----------------------------------------------------------------------------
(* hash_base::final *)

\* The bytes of two pieces, by their place.
LEMMA CatAt ==
    ASSUME NEW a \in Bytes, NEW b \in Bytes
    PROVE  \A i \in 1 .. Len(a) + Len(b) :
              Cat(a, b)[i] = IF i <= Len(a) THEN a[i] ELSE b[i - Len(a)]
BY ConcatProperties DEF Bytes, Cat

\* The first piece is at the front.
LEMMA CatFront ==
    ASSUME NEW a \in Bytes, NEW b \in Bytes, Len(a) > 0
    PROVE  SubSeq(Cat(a, b), 1, Len(a)) = a
<1>1. 1 \in 1 .. Len(a) /\ Len(a) \in 1 .. Len(a)
  BY CatLaws
<1>2. SubSeq(a \o b, 1, Len(a)) = SubSeq(a, 1, Len(a))
  BY <1>1, SubSeqOfConcat1 DEF Bytes
<1>3. SubSeq(a, 1, Len(a)) = a
  BY SubSeqFull DEF Bytes
<1>4. QED
  BY <1>2, <1>3 DEF Cat

\* The padding between the bit and the length.
LEMMA ZerosAt ==
    ASSUME NEW n \in Nat
    PROVE  /\ Zeros(n) \in Bytes /\ Len(Zeros(n)) = n
           /\ \A i \in 1 .. n : Zeros(n)[i] = 0
BY Constantly DEF Zeros, Bytes

\* Zeros up to the last place and the number there.
Tail0(w, n, l) == /\ w \in Bytes /\ Len(w) = l
                  /\ \A i \in 1 .. l - 1 : w[i] = 0
                  /\ w[l] = n

\* A single byte.
LEMMA OneByte ==
    ASSUME NEW n \in Int
    PROVE  <<n>> \in Bytes /\ Len(<<n>>) = 1 /\ <<n>>[1] = n
BY DEF Bytes

\* The length field has its bytes, and says how long the message was.
LEMMA LengthFieldAt ==
    ASSUME NEW n \in Nat
    PROVE  Tail0(LengthField(n), n, LengthBytes)
<1> DEFINE z == Zeros(LengthBytes - 1)
           o == <<n>>
<1>1. LengthBytes - 1 \in Nat /\ LengthBytes \in Nat
  BY SizesAssumption
<1>2. /\ z \in Bytes /\ Len(z) = LengthBytes - 1
      /\ \A i \in 1 .. LengthBytes - 1 : z[i] = 0
  BY <1>1, ZerosAt
<1>3. o \in Bytes /\ Len(o) = 1 /\ o[1] = n
  BY OneByte
<1>4. LengthField(n) = Cat(z, o)
  BY DEF LengthField, Cat
<1> HIDE DEF z, o
<1>5. z \in Bytes /\ o \in Bytes /\ Len(z) + Len(o) = LengthBytes
  BY <1>1, <1>2, <1>3
<1>6. Cat(z, o) \in Bytes /\ Len(Cat(z, o)) = LengthBytes
  BY <1>5, CatLaws
<1>7. \A i \in 1 .. LengthBytes : Cat(z, o)[i] = IF i <= Len(z) THEN z[i] ELSE o[i - Len(z)]
  BY <1>5, CatAt
<1>8. QED
  BY <1>1, <1>2, <1>3, <1>4, <1>6, <1>7 DEF Tail0

\* More zeros in front.
LEMMA ZerosBefore ==
    ASSUME NEW w, NEW n, NEW l \in Nat, l > 0, NEW k \in Nat, Tail0(w, n, l)
    PROVE  Tail0(Cat(Zeros(k), w), n, k + l)
<1> DEFINE z == Zeros(k)
<1>1. z \in Bytes /\ Len(z) = k /\ \A i \in 1 .. k : z[i] = 0
  BY ZerosAt
<1> HIDE DEF z
<1>2. Cat(z, w) \in Bytes /\ Len(Cat(z, w)) = k + l
  BY <1>1, CatLaws DEF Tail0
<1>3. \A i \in 1 .. k + l : Cat(z, w)[i] = IF i <= k THEN z[i] ELSE w[i - k]
  BY <1>1, CatAt DEF Tail0
<1>4. Tail0(Cat(z, w), n, k + l)
  BY <1>1, <1>2, <1>3 DEF Tail0
<1>5. QED
  BY <1>4 DEF z

\* A message, the mark and zeros up to the length at the end.
LEMMA MarkedAndZeros ==
    ASSUME NEW m \in Bytes, NEW w, NEW l \in Nat, l >= LengthBytes, l < LengthBytes + BlockSize,
           Tail0(w, Len(m), l), (Len(m) + 1 + l) % BlockSize = 0
    PROVE  PadsTo(Cat(Cat(m, Mark), w), m)
<1> DEFINE h == Cat(m, Mark)
           t == Cat(h, w)
<1>0. LengthBytes \in Nat /\ LengthBytes > 0 /\ BlockSize \in Nat /\ Len(m) \in Nat
  BY SizesAssumption, CatLaws
<1>1. Mark \in Bytes /\ Len(Mark) = 1
  BY OneByte DEF Mark
<1>2. h \in Bytes /\ Len(h) = Len(m) + 1
  BY <1>1, CatLaws
<1> HIDE DEF h
<1>3. w \in Bytes /\ Len(w) = l
  BY DEF Tail0
<1>4. t \in Bytes /\ Len(t) = Len(m) + 1 + l
  BY <1>0, <1>2, <1>3, CatLaws
<1>5. SubSeq(t, 1, Len(m) + 1) = m \o Mark
  <2>1. SubSeq(t, 1, Len(h)) = h
    BY <1>0, <1>2, <1>3, CatFront
  <2>2. QED
    BY <1>2, <2>1 DEF h, Cat
<1>6. \A i \in 1 .. Len(m) + 1 + l : t[i] = IF i <= Len(m) + 1 THEN h[i] ELSE w[i - (Len(m) + 1)]
  BY <1>2, <1>3, CatAt
<1> HIDE DEF t
<1>7. \A i \in Len(m) + 2 .. Len(t) - 1 : t[i] = 0
  BY <1>0, <1>4, <1>6 DEF Tail0
<1>8. t[Len(t)] = Len(m)
  BY <1>0, <1>4, <1>6 DEF Tail0
<1>9. Len(t) - Len(m) >= LengthBytes + 1 /\ Len(t) - Len(m) <= LengthBytes + BlockSize
  BY <1>0, <1>4
<1>10. Len(t) % BlockSize = 0
  BY <1>4
<1>11. PadsTo(t, m)
  BY <1>5, <1>7, <1>8, <1>9, <1>10 DEF PadsTo
<1>12. QED
  BY <1>11 DEF t, h

\* Both branches of final, with and without a further block.
LEMMA FinishPads ==
    ASSUME NEW a \in Bytes, NEW b \in Bytes, [done |-> a, data |-> b] \in Held
    PROVE  PadsTo(Finish([done |-> a, data |-> b], Len(Cat(a, b))), Cat(a, b))
<1> DEFINE m    == Cat(a, b)
           n    == Len(m)
           h    == Cat(m, Mark)
           l    == LengthField(n)
           room == BlockSize - (Len(b) + 1)
           gap  == BlockSize - LengthBytes
<1>0. /\ LengthBytes \in Nat /\ LengthBytes > 0 /\ LengthBytes < BlockSize /\ BlockSize \in Nat
      /\ Len(a) \in Nat /\ Len(b) \in Nat
  BY SizesAssumption, CatLaws
<1>1. Len(b) < BlockSize /\ Len(a) % BlockSize = 0
  BY DEF Held
<1>2. m \in Bytes /\ n = Len(a) + Len(b) /\ n \in Nat
  BY <1>0, CatLaws
<1>3. Finish([done |-> a, data |-> b], n) =
        IF room < LengthBytes THEN Cat(Cat(Cat(h, Zeros(room)), Zeros(gap)), l)
        ELSE Cat(Cat(h, Zeros(room - LengthBytes)), l)
  BY DEF Finish, Cat
<1> HIDE DEF m, n
<1>4. h \in Bytes
  <2>1. Mark \in Bytes
    BY OneByte DEF Mark
  <2>2. QED
    BY <1>2, <2>1, CatLaws
<1>5. Tail0(l, n, LengthBytes)
  BY <1>2, LengthFieldAt
<1>6. BlockSize % BlockSize = 0
  <2>1. BlockSize * 1 = BlockSize
    BY BlockPositive
  <2>2. QED
    BY <2>1, BlocksAreWhole
<1> HIDE DEF h, l
<1>7. CASE room < LengthBytes
  <2> DEFINE y == Cat(Zeros(gap), l)
             w == Cat(Zeros(room), y)
  <2>1. room \in Nat /\ gap \in Nat /\ gap + LengthBytes = BlockSize
    BY <1>0, <1>1
  <2>2. Tail0(y, n, BlockSize)
    <3>1. Tail0(y, n, gap + LengthBytes)
      BY <1>0, <1>5, <2>1, ZerosBefore
    <3>2. QED
      BY <2>1, <3>1
  <2>3. Tail0(w, n, room + BlockSize)
    BY <1>0, <2>1, <2>2, ZerosBefore
  <2>4. Zeros(room) \in Bytes /\ Zeros(gap) \in Bytes /\ l \in Bytes
    BY <1>5, <2>1, ZerosAt DEF Tail0
  <2>5. Cat(Cat(Cat(h, Zeros(room)), Zeros(gap)), l) = Cat(h, w)
    <3>1. Cat(h, Zeros(room)) \in Bytes /\ y \in Bytes
      BY <1>4, <2>4, CatLaws
    <3>2. QED
      BY <1>4, <2>4, <3>1, CatLaws
  <2> HIDE DEF w
  <2>6. n + 1 + (room + BlockSize) = Len(a) + (BlockSize + BlockSize)
    BY <1>0, <1>2
  <2>7. (n + 1 + (room + BlockSize)) % BlockSize = 0
    <3>1. (BlockSize + BlockSize) % BlockSize = 0
      BY <1>0, <1>6, BlocksAdd
    <3>2. BlockSize + BlockSize \in Nat
      BY <1>0
    <3>3. QED
      BY <1>0, <1>1, <2>6, <3>1, <3>2, BlocksAdd
  <2>8. room + BlockSize \in Nat /\ room + BlockSize >= LengthBytes
        /\ room + BlockSize < LengthBytes + BlockSize
    BY <1>0, <1>7, <2>1
  <2>9. PadsTo(Cat(h, w), m)
    BY <1>2, <2>3, <2>7, <2>8, MarkedAndZeros DEF h, n
  <2>10. QED
    BY <1>3, <1>7, <2>5, <2>9 DEF m, n
<1>8. CASE ~(room < LengthBytes)
  <2> DEFINE r == room - LengthBytes
             w == Cat(Zeros(r), l)
  <2>1. r \in Nat /\ r + LengthBytes = room
    BY <1>0, <1>1, <1>8
  <2>2. Tail0(w, n, room)
    <3>1. Tail0(w, n, r + LengthBytes)
      BY <1>0, <1>5, <2>1, ZerosBefore
    <3>2. QED
      BY <2>1, <3>1
  <2>3. Zeros(r) \in Bytes /\ l \in Bytes
    BY <1>5, <2>1, ZerosAt DEF Tail0
  <2>4. Cat(Cat(h, Zeros(r)), l) = Cat(h, w)
    BY <1>4, <2>3, CatLaws
  <2> HIDE DEF w
  <2>5. n + 1 + room = Len(a) + BlockSize
    BY <1>0, <1>2
  <2>6. (n + 1 + room) % BlockSize = 0
    BY <1>0, <1>1, <1>6, <2>5, BlocksAdd
  <2>7. room \in Nat /\ room >= LengthBytes /\ room < LengthBytes + BlockSize
    BY <1>0, <1>1, <1>8
  <2>8. PadsTo(Cat(h, w), m)
    BY <1>2, <2>2, <2>6, <2>7, MarkedAndZeros DEF h, n
  <2>9. QED
    BY <1>3, <1>8, <2>4, <2>8 DEF m, n
<1>9. QED
  BY <1>7, <1>8

\* hash_base::final: the padding ends the last block.
LEMMA FinishHeld ==
    ASSUME NEW d \in Held
    PROVE  PadsTo(Finish(d, Len(All(d))), All(d))
<1>1. d = [done |-> d.done, data |-> d.data] /\ d.done \in Bytes /\ d.data \in Bytes
  BY DEF Held
<1>2. QED
  BY <1>1, FinishPads DEF All

-----------------------------------------------------------------------------
(* The object *)

\* The two pads of an hmac are a block each, and a digest has its size.
LEMMA Pads ==
    /\ Ipad \in Bytes /\ Len(Ipad) = BlockSize
    /\ Opad \in Bytes /\ Len(Opad) = BlockSize
    /\ Hashed \in Bytes /\ Len(Hashed) = DigestSize
<1>1. BlockSize \in Nat /\ DigestSize \in Nat
  BY SizesAssumption
<1>2. QED
  BY <1>1, Constantly DEF Ipad, Opad, Hashed, Bytes

\* The object before a message: nothing transformed and nothing kept.
LEMMA EmptyHeld == <<>> \in Bytes /\ [done |-> <<>>, data |-> <<>>] \in Held
<1>1. <<>> \in Bytes /\ Len(<<>>) = 0
  BY EmptySeq DEF Bytes
<1>2. 0 % BlockSize = 0
  <2>1. BlockSize * 0 = 0
    BY BlockPositive
  <2>2. QED
    BY <2>1, BlocksAreWhole
<1>3. 0 < BlockSize
  BY BlockPositive
<1>4. QED
  BY <1>1, <1>2, <1>3 DEF Held

\* The outer hash of final is padded as the inner one.
LEMMA OuterPads ==
    PadsTo(Finish(Absorb(Absorb(Fresh, Opad), Hashed), BlockSize + DigestSize), Opad \o Hashed)
<1> DEFINE d == Absorb(Fresh, Opad)
           e == Absorb(d, Hashed)
<1>1. Fresh \in Held /\ All(Fresh) = Cat(<<>>, <<>>)
  BY EmptyHeld DEF Fresh, All
<1>2. d \in Held /\ All(d) = Cat(All(Fresh), Opad)
  BY <1>1, Pads, AbsorbHeld
<1> HIDE DEF d
<1>3. e \in Held /\ All(e) = Cat(All(d), Hashed)
  BY <1>2, Pads, AbsorbHeld
<1> HIDE DEF e
<1>4. Cat(Cat(<<>>, <<>>), Opad) = Opad
  BY Pads, ConcatEmptySeq, EmptyHeld DEF Cat, Bytes
<1>5. All(e) = Cat(Opad, Hashed)
  BY <1>1, <1>2, <1>3, <1>4
<1>6. Len(All(e)) = BlockSize + DigestSize
  BY <1>5, Pads, CatLaws
<1>7. PadsTo(Finish(e, Len(All(e))), All(e))
  BY <1>3, FinishHeld
<1>8. PadsTo(Finish(e, BlockSize + DigestSize), Opad \o Hashed)
  BY <1>5, <1>6, <1>7 DEF Cat
<1>9. QED
  BY <1>8 DEF d, e

\* Collected says nothing of the message while updated is FALSE; that none of it
\* is left then is what makes it inductive.
HashInv == /\ TypeOK /\ Collected /\ Padded
           /\ ~updated => fed = <<>>

\* No byte has been given at first.
LEMMA InitHash == Init => HashInv
<1> SUFFICES ASSUME Init PROVE HashInv
  OBVIOUS
<1>1. TypeOK
  BY EmptySeq DEF Init, TypeOK
<1>2. Len(<<>>) < BlockSize /\ Len(<<>>) % BlockSize = 0
  BY EmptyHeld DEF Held
<1>3. <<>> \o <<>> = <<>> /\ Len(<<>>) = 0
  BY ConcatEmptySeq, EmptySeq
<1>4. Collected
  BY <1>2, <1>3 DEF Init, Collected
<1>5. Padded
  BY DEF Init, Padded
<1>6. QED
  BY <1>1, <1>4, <1>5 DEF Init, HashInv

\* What Collected says, in the vocabulary of the lemmas.
LEMMA CollectedHeld ==
    ASSUME TypeOK
    PROVE  Collected <=> /\ [done |-> done, data |-> data] \in Held
                         /\ Cat(done, data) = IF updated THEN Cat(Ipad, fed) ELSE <<>>
                         /\ length = Len(Cat(done, data))
<1>1. done \in Bytes /\ data \in Bytes
  BY DEF TypeOK, Bytes
<1>2. [done |-> done, data |-> data] \in Held
        <=> Len(data) < BlockSize /\ Len(done) % BlockSize = 0
  BY <1>1 DEF Held
<1>3. QED
  BY <1>2 DEF Collected, Cat

\* update keeps the invariant.
LEMMA UpdateHash ==
    ASSUME HashInv, NEW p \in Chunks, Update(p)
    PROVE  HashInv'
<1> DEFINE start == [done |-> done, data |-> data]
           keyed == IF updated THEN start ELSE Absorb(start, Ipad)
           after == Absorb(keyed, p)
<1>1. p \in Bytes /\ fed \in Bytes /\ finals \in Nat /\ updated \in BOOLEAN
  BY ChunksAssumption DEF HashInv, TypeOK, Bytes
<1>2. /\ start \in Held /\ length = Len(All(start))
      /\ All(start) = IF updated THEN Cat(Ipad, fed) ELSE <<>>
  BY CollectedHeld DEF HashInv, All
<1>3. /\ done' = after.done /\ data' = after.data
      /\ length' = length + (IF updated THEN 0 ELSE BlockSize) + Len(p)
      /\ updated' = TRUE /\ fed' = Cat(fed, p)
      /\ finals' = finals /\ digest' = digest
  BY DEF Update, Cat
<1> HIDE DEF start
<1>4. /\ keyed \in Held /\ All(keyed) = Cat(Ipad, fed)
      /\ length + (IF updated THEN 0 ELSE BlockSize) = Len(All(keyed))
  <2>1. CASE updated
    <3>1. Len(All(start)) \in Nat
      BY <1>1, <1>2, <2>1, Pads, CatLaws
    <3>2. QED
      BY <1>2, <2>1, <3>1
  <2>2. CASE ~updated
    <3>1. Absorb(start, Ipad) \in Held /\ All(Absorb(start, Ipad)) = Cat(All(start), Ipad)
      BY <1>2, Pads, AbsorbHeld
    <3>2. fed = <<>>
      BY <2>2 DEF HashInv
    <3>3. Cat(<<>>, Ipad) = Ipad /\ Cat(Ipad, <<>>) = Ipad
      BY Pads, ConcatEmptySeq DEF Cat, Bytes
    <3>4. length = 0
      BY <1>2, <2>2, EmptySeq
    <3>5. QED
      BY <1>2, <2>2, <3>1, <3>2, <3>3, <3>4, Pads, SizesAssumption
  <2>3. QED
    BY <1>1, <2>1, <2>2
<1> HIDE DEF keyed
<1>5. after \in Held /\ All(after) = Cat(Cat(Ipad, fed), p)
  BY <1>1, <1>4, AbsorbHeld
<1>6. All(after) = Cat(Ipad, fed') /\ fed' \in Bytes
  BY <1>1, <1>3, <1>5, Pads, CatLaws
<1>7. length' = Len(All(after))
  <2>1. Cat(Ipad, fed) \in Bytes
    BY <1>1, Pads, CatLaws
  <2>2. Len(All(after)) = Len(Cat(Ipad, fed)) + Len(p)
    BY <1>1, <1>5, <2>1, CatLaws
  <2>3. QED
    BY <1>3, <1>4, <2>2
<1> HIDE DEF after
<1>8. /\ done' \in Bytes /\ data' \in Bytes /\ Cat(done', data') = All(after)
      /\ Len(data') < BlockSize /\ Len(done') % BlockSize = 0
  BY <1>3, <1>5 DEF Held, All
<1>9. TypeOK'
  <2>1. length' \in Nat
    BY <1>6, <1>7, Pads, CatLaws
  <2>2. QED
    BY <1>1, <1>3, <1>6, <1>8, <2>1 DEF TypeOK, Bytes
<1>10. Collected'
  BY <1>3, <1>6, <1>7, <1>8 DEF Collected, Cat
<1>11. Padded'
  BY <1>3 DEF HashInv, Padded
<1>12. QED
  BY <1>3, <1>9, <1>10, <1>11 DEF HashInv

\* final keeps it, for the inner and for the outer hash.
LEMMA FinalHash ==
    ASSUME HashInv, Final
    PROVE  HashInv'
<1> DEFINE d == [done |-> done, data |-> data]
<1>1. d \in Held /\ All(d) = Cat(Ipad, fed) /\ length = Len(All(d))
  BY CollectedHeld DEF HashInv, Final, All
<1>2. PadsTo(Finish(d, length), Ipad \o fed)
  BY <1>1, FinishHeld DEF Cat
<1>3. /\ digest'.inner = Finish(d, length)
      /\ digest'.outer = Finish(Absorb(Absorb(Fresh, Opad), Hashed), BlockSize + DigestSize)
      /\ digest'.message = fed
  BY DEF Final
<1>4. /\ done' = <<>> /\ data' = <<>> /\ length' = 0 /\ updated' = FALSE /\ fed' = <<>>
      /\ finals' = finals + 1
  BY DEF Final
<1>5. Padded'
  BY <1>2, <1>3, OuterPads DEF Padded
<1>6. TypeOK'
  <2>1. finals' \in Nat
    BY <1>4 DEF HashInv, TypeOK
  <2>2. <<>> \in Seq(Int) /\ 0 \in Nat
    BY EmptySeq
  <2>3. QED
    BY <1>4, <2>1, <2>2, Zenon DEF TypeOK
<1>7. Collected'
  <2>1. Len(<<>>) < BlockSize /\ Len(<<>>) % BlockSize = 0
    BY EmptyHeld DEF Held
  <2>2. <<>> \o <<>> = <<>> /\ Len(<<>>) = 0
    BY ConcatEmptySeq, EmptySeq
  <2>3. QED
    BY <1>4, <2>1, <2>2 DEF Collected
<1>8. QED
  BY <1>4, <1>5, <1>6, <1>7 DEF HashInv

\* So does every step.
LEMMA NextHash == HashInv /\ [Next]_hashVars => HashInv'
<1> SUFFICES ASSUME HashInv, [Next]_hashVars PROVE HashInv'
  OBVIOUS
<1>1. CASE Final
  BY <1>1, FinalHash
<1>2. CASE \E p \in Chunks : Update(p)
  BY <1>2, UpdateHash
<1>3. CASE UNCHANGED hashVars
  BY <1>3 DEF hashVars, HashInv, TypeOK, Collected, Padded
<1>4. QED
  BY <1>1, <1>2, <1>3 DEF Next

\* However a message is cut into calls of update, and whatever messages the object
\* was used for before, hash_base has transformed whole blocks of key and message,
\* keeps the rest of less than a block and has counted every byte.
THEOREM BytesCollected == Spec => []Collected
<1>1. HashInv => Collected
  BY DEF HashInv
<1>2. QED
  BY <1>1, InitHash, NextHash, PTL DEF Spec

\* Both hashes of a finished HMAC are of the padded message, whether or not the
\* length still fits in the last block, for every length of a message and every
\* size of block, length field and digest.
THEOREM MessagesPadded == Spec => []Padded
<1>1. HashInv => Padded
  BY DEF HashInv
<1>2. QED
  BY <1>1, InitHash, NextHash, PTL DEF Spec
=============================================================================
