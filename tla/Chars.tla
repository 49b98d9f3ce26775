------------------------------- MODULE Chars -------------------------------
(***************************************************************************)
(* What the models that look into text take from the C++ library: a        *)
(* character is a one-character string, text is a sequence of them.  Only  *)
(* the characters of Alphabet occur, in the order of their codes.          *)
(***************************************************************************)
EXTENDS Integers, SequencesExt

Digits == [i \in 0..9 |-> <<"0", "1", "2", "3", "4", "5", "6", "7", "8", "9">>[i + 1]]
DigitOf(c) == CHOOSE i \in 0..9 : Digits[i] = c
IsDigit(c) == \E i \in 0..9 : Digits[i] = c

(* A number in decimal notation, and back.                                 *)
RECURSIVE Decimal(_)
Decimal(n) == IF n < 0 THEN <<"-">> \o Decimal(-n)
              ELSE IF n < 10 THEN <<Digits[n]>>
              ELSE Append(Decimal(n \div 10), Digits[n % 10])
Natural(s) == FoldLeft(LAMBDA acc, c : 10 * acc + DigitOf(c), 0, s)

(* std::string::operator<.                                                 *)
Alphabet == <<"\f", "\n", " ", "\"", "-", ".", "/">> \o [i \in 1..10 |-> Digits[i - 1]]
            \o <<"\\", "a", "b", "c", "e", "i", "k", "n", "q", "x", "y", "{", "}">>
Code(c) == CHOOSE i \in DOMAIN Alphabet : Alphabet[i] = c
LexLess(s, t) ==
    \E k \in 0..Len(s) : /\ k < Len(t) /\ SubSeq(s, 1, k) = SubSeq(t, 1, k)
                         /\ k < Len(s) => Code(s[k + 1]) < Code(t[k + 1])

(* std::string::find, from a place on; -1 is npos.  Places begin at 0.     *)
FindFrom(s, t, p) ==
    LET at == {i \in p..(Len(s) - Len(t)) : SubSeq(s, i + 1, i + Len(t)) = t}
    IN  IF at = {} THEN -1 ELSE Min(at)
Find(s, t) == FindFrom(s, t, 0)
=============================================================================
