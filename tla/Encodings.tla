----------------------------- MODULE Encodings -----------------------------
(***************************************************************************)
(* The encodings of crypto.cpp: base64, with lines or for URLs, hex, and   *)
(* the escapes of URLs.  Text and data are sequences of bytes.             *)
(***************************************************************************)
EXTENDS Integers, SequencesExt

Refused == <<-1>>       \* invalid_base64 or invalid_hex is thrown
Undefined == <<-2>>     \* memory outside an object is read or written
Aborted == <<-3>>       \* an assertion does not hold

(* Codes of characters.                                                    *)
NL == 10
Space == 32
Percent == 37
Plus == 43
Dash == 45
Slash == 47
Pad == 61
Underscore == 95
Zero == 48
UpperA == 65
LowerA == 97
LowerZ == 122

-----------------------------------------------------------------------------
(* kBase64CharTable and kBase64IndexTable.  The second holds 128 for the   *)
(* characters in its range that stand for nothing.                         *)
Char64(i) == CASE i < 26 -> UpperA + i
               [] i \in 26..51 -> LowerA + i - 26
               [] i \in 52..61 -> Zero + i - 52
               [] i = 62 -> Plus
               [] OTHER -> Slash
sextet(c) == IF \E i \in 0..63 : Char64(i) = c THEN CHOOSE i \in 0..63 : Char64(i) = c ELSE 128

\* Mutant: the bits of the second byte are left out where there is no third.
QuadShort(g) ==
    LET b(i) == IF i \in DOMAIN g THEN g[i] ELSE 0
        s    == <<b(1) \div 4, (b(1) % 4) * 16 + (IF Len(g) = 2 THEN 0 ELSE b(2) \div 16),
                  (b(2) % 16) * 4 + b(3) \div 64, b(3) % 64>>
    IN  [i \in 1..4 |-> IF i <= Len(g) + 1 THEN Char64(s[i]) ELSE Pad]

(* The four characters for one, two or three bytes.                        *)
Quad(g) ==
    LET b(i) == IF i \in DOMAIN g THEN g[i] ELSE 0
        s    == <<b(1) \div 4, (b(1) % 4) * 16 + b(2) \div 16, (b(2) % 16) * 4 + b(3) \div 64, b(3) % 64>>
    IN  [i \in 1..4 |-> IF i <= Len(g) + 1 THEN Char64(s[i]) ELSE Pad]

(* A line break before a character that does not fit on the line, and one  *)
(* at the end.                                                             *)
Lines(s, width) ==
    IF width = 0 THEN s
    ELSE FlattenSeq([i \in DOMAIN s |-> IF i > 1 /\ (i - 1) % width = 0 THEN <<NL, s[i]>> ELSE <<s[i]>>])
         \o <<NL>>

(* encode_base64, as it is built with assertions: the length of the text   *)
(* is counted beforehand, and is asserted to be what was counted.          *)
encode_base64(data, wrap_width) ==
    LET groups == (Len(data) + 2) \div 3
        last(k) == IF 3 * k < Len(data) THEN 3 * k ELSE Len(data)
        m == 4 * groups + IF wrap_width = 0 THEN 0 ELSE (4 * groups) \div wrap_width + 1
        text == Lines(FlattenSeq([k \in 1..groups |-> Quad(SubSeq(data, 3 * k - 2, last(k)))]), wrap_width)
    IN  IF Len(text) = m THEN text ELSE Aborted

(* decode_base64.  A quad is read from place i on; b characters of it are  *)
(* in sxt.  Padding ends a quad but not the text.  The second of two pads  *)
(* is looked for without a look at the end of the text.                    *)
Bytes3(sxt, c) ==
    LET s(i) == IF i \in DOMAIN sxt THEN sxt[i] ELSE 0
    IN  SubSeq(<<(s(1) * 4 + s(2) \div 16) % 256, (s(2) * 16 + s(3) \div 4) % 256, (s(3) * 64 + s(4)) % 256>>, 1, c)

RECURSIVE Decode64(_, _, _, _)
Decode64(data, i, sxt, acc) ==
    LET b  == Len(sxt)
        ch == data[i]
    IN  CASE b = 4 -> Decode64(data, i, << >>, acc \o Bytes3(sxt, 3))
          [] b < 4 /\ i > Len(data) -> IF b = 0 THEN acc ELSE Refused
          [] OTHER ->
               IF ch \in {Space, NL} THEN Decode64(data, i + 1, sxt, acc)
               ELSE IF ch = Pad
               THEN IF b = 2 /\ i = Len(data) THEN Undefined
                    ELSE IF b = 2 /\ data[i + 1] = Pad THEN Decode64(data, i + 2, << >>, acc \o Bytes3(sxt, 1))
                    ELSE IF b = 3 THEN Decode64(data, i + 1, << >>, acc \o Bytes3(sxt, 2)) ELSE Refused
               ELSE IF ch < Plus \/ ch > LowerZ THEN Refused
               ELSE Decode64(data, i + 1, Append(sxt, sextet(ch)), acc)
decode_base64(data) == Decode64(data, 1, << >>, << >>)

Swap(s, from, to) == [i \in DOMAIN s |-> IF s[i] = from THEN to ELSE s[i]]
encode_base64url(data) ==
    LET e   == encode_base64(data, 0)
        end == CHOOSE n \in 0..Len(e) : /\ n > 0 => e[n] # Pad
                                        /\ \A i \in n + 1..Len(e) : e[i] = Pad
    IN  Swap(Swap(SubSeq(e, 1, end), Plus, Dash), Slash, Underscore)

\* Mutant: the padding is the wrong way about.
DecodeBase64UrlSwapped(data) ==
    LET d == Swap(Swap(data, Dash, Plus), Underscore, Slash)
    IN  CASE Len(d) % 4 = 0 -> decode_base64(d)
          [] Len(d) % 4 = 2 -> decode_base64(d \o <<Pad>>)
          [] Len(d) % 4 = 3 -> decode_base64(d \o <<Pad, Pad>>)
          [] OTHER -> Refused

decode_base64url(data) ==
    LET d == Swap(Swap(data, Dash, Plus), Underscore, Slash)
    IN  CASE Len(d) % 4 = 0 -> decode_base64(d)
          [] Len(d) % 4 = 2 -> decode_base64(d \o <<Pad, Pad>>)
          [] Len(d) % 4 = 3 -> decode_base64(d \o <<Pad>>)
          [] OTHER -> Refused

-----------------------------------------------------------------------------
(* Hex.  decode_hex puts a digit where its pair begins in the text, so     *)
(* that the first pair gives its second digit only and the others write    *)
(* beside the two bytes there are.                                         *)
HexDigit(n) == IF n < 10 THEN Zero + n ELSE LowerA + n - 10
HexValue(c) == CASE c \in Zero..(Zero + 9) -> c - Zero
                 [] c \in LowerA..(LowerA + 5) -> c - LowerA + 10
                 [] c \in UpperA..(UpperA + 5) -> c - UpperA + 10
                 [] OTHER -> -1
encode_hex(data) == FlattenSeq([i \in DOMAIN data |-> <<HexDigit(data[i] \div 16), HexDigit(data[i] % 16)>>])
decode_hex(s) == CASE Len(s) % 2 = 1 \/ (Len(s) = 2 /\ \E i \in 1..2 : HexValue(s[i]) = -1) -> Refused
                   [] s = << >> -> << >>
                   [] Len(s) = 2 -> <<HexValue(s[2]) * 16>>
                   [] OTHER -> Undefined

-----------------------------------------------------------------------------
(* The escapes of URLs.  kURLAcceptable lets a plus through, which         *)
(* decode_url takes for a space.                                           *)
IsAcceptable(c) == \/ c \in {42, Plus, Dash, 46, Slash, 64, Underscore}
                   \/ c \in Zero..(Zero + 9) \/ c \in UpperA..(UpperA + 25) \/ c \in LowerA..LowerZ
encode_url(s) == FlattenSeq([i \in DOMAIN s |-> IF IsAcceptable(s[i]) THEN <<s[i]>>
                                                ELSE <<Percent>> \o encode_hex(<<s[i]>>)])

(* A percent sign that does not begin an escape is dropped; one digit that *)
(* is followed by something else is a value of its own.  (A sign or a      *)
(* space in an escape, which the stream also reads, is left out.)          *)
RECURSIVE Unescape(_, _)
Unescape(s, i) ==
    IF i > Len(s) THEN << >>
    ELSE IF s[i] = Plus THEN <<Space>> \o Unescape(s, i + 1)
    ELSE IF s[i] # Percent THEN <<s[i]>> \o Unescape(s, i + 1)
    ELSE IF i + 2 > Len(s) \/ HexValue(s[i + 1]) = -1 THEN Unescape(s, i + 1)
    ELSE IF HexValue(s[i + 2]) = -1 THEN <<HexValue(s[i + 1])>> \o Unescape(s, i + 3)
    ELSE <<HexValue(s[i + 1]) * 16 + HexValue(s[i + 2])>> \o Unescape(s, i + 3)
decode_url(s) == Unescape(s, 1)
=============================================================================
