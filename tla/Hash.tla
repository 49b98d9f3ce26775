-------------------------------- MODULE Hash --------------------------------
(***************************************************************************)
(* The hash objects of crypto.cpp: hash_base collects data in blocks and   *)
(* pads the last of them, and HMAC puts a key before the data.  The        *)
(* functions on blocks (MD5, SHA1, SHA256) are left out: what a hash is    *)
(* the hash of is the sequence of bytes it has transformed.                *)
(*                                                                         *)
(* One HMAC object is used for message after message, as pbkdf2 does.      *)
(***************************************************************************)
EXTENDS Integers, Sequences

CONSTANTS BlockSize,     \* bytes to a block (64 in the code)
          LengthBytes,   \* bytes of the length at the end (8 in the code)
          DigestSize,    \* bytes of a digest (16, 20 or 32 in the code)
          Chunks,        \* what update is called with
          MaxFed,        \* bound on the bytes of a message
          MaxFinals      \* bound on the messages

ASSUME SizesAssumption == /\ BlockSize \in Nat /\ LengthBytes \in Nat
                          /\ LengthBytes > 0 /\ LengthBytes < BlockSize
                          /\ DigestSize \in Nat
ASSUME ChunksAssumption == Chunks \subseteq Seq(Int)

VARIABLES done,      \* the bytes transformed since init
          data,      \* hash_base::m_data, as far as m_data_length
          length,    \* hash_base::m_bit_length, in bytes
          updated,   \* HMAC::m_inner_updated
          fed,       \* the bytes of the message given so far
          finals,    \* the number of messages finished
          digest     \* what the last final transformed, and its message

hashVars == <<done, data, length, updated, fed, finals, digest>>

(* The paddings of HMAC, which the key is xored into, and a digest.        *)
Ipad == [i \in 1..BlockSize |-> 54]
Opad == [i \in 1..BlockSize |-> 92]
Hashed == [i \in 1..DigestSize |-> 7]
Fresh == [done |-> << >>, data |-> << >>]
Zeros(n) == [i \in 1..n |-> 0]
Mark == <<128>>
LengthField(n) == Zeros(LengthBytes - 1) \o <<n>>

-----------------------------------------------------------------------------
(* hash_base::update, on the bytes transformed and those kept.  What is    *)
(* kept is filled up to a block first; whole blocks are taken from p; the  *)
(* rest is kept.                                                           *)
Smaller(m, n) == IF m < n THEN m ELSE n

\* Mutant: a block that p just fills is not transformed.
AbsorbLate(d, p) ==
    LET n     == IF Len(d.data) = 0 THEN 0 ELSE Smaller(BlockSize - Len(d.data), Len(p))
        full  == d.data \o SubSeq(p, 1, n)
        flush == Len(full) = BlockSize /\ n < Len(p)
        rest  == SubSeq(p, n + 1, Len(p))
        whole == IF flush \/ Len(d.data) = 0 THEN Len(rest) - (Len(rest) % BlockSize) ELSE 0
    IN  IF Len(full) > 0 /\ ~flush THEN [done |-> d.done, data |-> full]
        ELSE [done |-> d.done \o full \o SubSeq(rest, 1, whole), data |-> SubSeq(rest, whole + 1, Len(rest))]

Absorb(d, p) ==
    LET n     == IF Len(d.data) = 0 THEN 0 ELSE Smaller(BlockSize - Len(d.data), Len(p))
        full  == d.data \o SubSeq(p, 1, n)
        rest  == SubSeq(p, n + 1, Len(p))
        whole == Len(rest) - (Len(rest) % BlockSize)
    IN  IF Len(full) > 0 /\ Len(full) < BlockSize
        THEN [done |-> d.done, data |-> full]
        ELSE [done |-> d.done \o full \o SubSeq(rest, 1, whole),
              data |-> SubSeq(rest, whole + 1, Len(rest))]

(* hash_base::final: the mark, zeros, and the length at the end of a       *)
(* block, of one more block when it does not fit.                          *)
\* Mutant: the length is written over a block that has no room for it.
FinishTight(d, n) ==
    LET used == Len(d.data) + 1
        tail == Zeros(BlockSize - LengthBytes - used)
    IN  d.done \o d.data \o Mark \o tail \o LengthField(n)

Finish(d, n) ==
    LET used  == Len(d.data) + 1
        room  == BlockSize - used
    IN  IF room < LengthBytes
        THEN d.done \o d.data \o Mark \o Zeros(room) \o Zeros(BlockSize - LengthBytes) \o LengthField(n)
        ELSE d.done \o d.data \o Mark \o Zeros(room - LengthBytes) \o LengthField(n)

-----------------------------------------------------------------------------
Init == /\ done = << >> /\ data = << >> /\ length = 0
        /\ updated = FALSE /\ fed = << >> /\ finals = 0
        /\ digest = [inner |-> << >>, outer |-> << >>, message |-> << >>]

(* HMAC::update: the key goes first.                                       *)
Update(p) ==
    LET start == [done |-> done, data |-> data]
        keyed == IF updated THEN start ELSE Absorb(start, Ipad)
        after == Absorb(keyed, p)
    IN  /\ Len(fed) + Len(p) <= MaxFed /\ finals < MaxFinals
        /\ done' = after.done
        /\ data' = after.data
        /\ length' = length + (IF updated THEN 0 ELSE BlockSize) + Len(p)
        /\ updated' = TRUE
        /\ fed' = fed \o p
        /\ UNCHANGED <<finals, digest>>

(* HMAC::final, after which the object is as it was: a second hash, of the *)
(* outer padding and the digest of the first.  No caller asks for it       *)
(* before an update.                                                       *)
Final == /\ updated /\ finals < MaxFinals
         /\ digest' = [inner |-> Finish([done |-> done, data |-> data], length),
                       outer |-> Finish(Absorb(Absorb(Fresh, Opad), Hashed), BlockSize + DigestSize),
                       message |-> fed]
         /\ done' = << >> /\ data' = << >> /\ length' = 0
         /\ updated' = FALSE
         /\ fed' = << >>
         /\ finals' = finals + 1

Next == Final \/ \E p \in Chunks : Update(p)

Spec == Init /\ [][Next]_hashVars

-----------------------------------------------------------------------------
TypeOK == /\ done \in Seq(Int) /\ data \in Seq(Int) /\ length \in Nat
          /\ updated \in BOOLEAN /\ fed \in Seq(Int) /\ finals \in Nat

(* However a message is cut into updates, the object has transformed whole *)
(* blocks of the key and the message so far and keeps the rest, which is   *)
(* less than a block, and counts them all: nothing is lost, doubled or out *)
(* of order at the edge of a block, nor left over from the message before. *)
Collected == LET all == IF updated THEN Ipad \o fed ELSE << >>
             IN  /\ done \o data = all
                 /\ Len(data) < BlockSize /\ Len(done) % BlockSize = 0
                 /\ length = Len(all)

(* What either hash of an HMAC is taken of is its padded message: key,     *)
(* data, mark, zeros and length, a whole number of blocks and no more of   *)
(* them than needed.                                                       *)
PadsTo(t, m) ==
    /\ Len(t) % BlockSize = 0
    /\ Len(t) - Len(m) >= LengthBytes + 1 /\ Len(t) - Len(m) <= LengthBytes + BlockSize
    /\ SubSeq(t, 1, Len(m) + 1) = m \o Mark
    /\ \A i \in Len(m) + 2..Len(t) - 1 : t[i] = 0
    /\ t[Len(t)] = Len(m)
Padded == finals > 0 => /\ PadsTo(digest.inner, Ipad \o digest.message)
                        /\ PadsTo(digest.outer, Opad \o Hashed)
=============================================================================
