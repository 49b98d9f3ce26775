----------------------------- MODULE JsonParser -----------------------------
(***************************************************************************)
(* zeep::json::parse_json (parser.cpp): a lexer that reads one character   *)
(* at a time and a parser by recursive descent.                            *)
(***************************************************************************)
EXTENDS Json

(* json_parser.  get_next_token gives the token that begins at place i of  *)
(* the text, its value and the place after it; past the end every          *)
(* character is the same.                                                  *)
Letters == {"a", "b", "c", "e", "f", "i", "k", "l", "n", "q", "r", "s", "t", "u", "x", "y"}
Tok(t, v, i) == [t |-> t, v |-> v, next |-> i]
BadToken == Tok("throws", Null, 0)
Endless == Tok("hangs", Null, 0)

(* A string up to its closing quote.  A hex digit may be any character     *)
(* below 9; of what four of them stand for, the model knows the form feed. *)
HexLike == {Digits[i] : i \in 0..9} \cup {"a", "b", "c", "e", "f"}
           \cup {"\f", "\n", " ", "\"", "-", ".", "/", ","}
RECURSIVE ReadString(_, _, _)
ReadString(s, i, acc) ==
    LET c == At(s, i)
        e == At(s, i + 1)
        u == SubSeq(s, i + 2, i + 5)
    IN  CASE c = "\"" -> Tok("String", Str(acc), i + 1)
          [] c = "end" -> BadToken
          [] c = "\\" /\ e \in {"\"", "\\", "/"} -> ReadString(s, i + 2, Append(acc, e))
          [] c = "\\" /\ e = "n" -> ReadString(s, i + 2, Append(acc, "\n"))
          [] c = "\\" /\ e = "f" -> ReadString(s, i + 2, Append(acc, "\f"))
          [] c = "\\" /\ e = "u" ->
                IF i + 5 > Len(s) \/ ~(ToSet(u) \subseteq HexLike) THEN BadToken
                ELSE ReadString(s, i + 6, Append(acc, IF u = <<"0", "0", "0", "c">> THEN "\f" ELSE "other"))
          [] c = "\\" /\ e \notin {"\"", "\\", "/", "n", "f", "u"} -> BadToken
          [] OTHER -> ReadString(s, i + 1, Append(acc, c))

Pow10(n) == FoldLeft(LAMBDA a, c : 10 * a, 1, [i \in 1..n |-> i])

(* The exponent.  Where its sign or first digit is due, any other          *)
(* character is passed over: at the end of the text for ever.              *)
ReadExponent(s, i, h, sign) ==
    LET first(j) == IF IsDigit(s[j]) THEN j ELSE j + 1
        exp(j, after) == Natural(SubSeq(s, first(j), after - 1))
        read(j, after) == Tok("Number", IF h = -1 \/ s[j] = "-" THEN Beyond
                                        ELSE Float(sign * h * Pow10(exp(j, after))), after)
        from(j) == IF ~IsDigit(At(s, first(j))) THEN BadToken ELSE read(j, Span(s, first(j), IsDigit))
        least(at) == IF at = {} THEN Endless ELSE from(Min(at))
    IN  least({j \in i..Len(s) : s[j] \in {"+", "-"} \/ IsDigit(s[j])})

(* The digits before the point end at j, those after it at k.              *)
ReadNumber(s, i, sign) ==
    LET int(j) == Natural(SubSeq(s, i, j - 1))
        float(k, h) == IF At(s, k) \in {"e", "E"} THEN ReadExponent(s, k + 1, h, sign)
                       ELSE Tok("Number", IF h = -1 THEN Beyond ELSE Float(sign * h), k)
        fraction(j, k) == float(k, Halves(int(j), SubSeq(s, j + 1, k - 1)))
        number(j) ==
            CASE s[i] = "0" /\ j > i + 1 -> BadToken
              [] (s[i] # "0" \/ j = i + 1) /\ At(s, j) = "." -> fraction(j, Span(s, j + 1, IsDigit))
              [] s[i] # "0" /\ At(s, j) \in {"e", "E"} -> ReadExponent(s, j + 1, 2 * int(j), sign)
              [] OTHER -> Tok("Integer", Integer(sign * int(j)), j)
    IN  number(Span(s, i, IsDigit))

Punctuation == {"{", "}", "[", "]", ",", ":"}
TokenAt(s, i) ==
    LET c == At(s, i)
        literal(j, word) == CASE word = Chars("true") -> Tok("True", Bool(TRUE), j)
                              [] word = Chars("false") -> Tok("False", Bool(FALSE), j)
                              [] word = Chars("null") -> Tok("Null", Null, j)
                              [] OTHER -> BadToken
        upto(j) == literal(j, SubSeq(s, i, j - 1))
    IN  CASE c = "end" -> Tok("Eof", Null, i)
          [] c \in Punctuation -> Tok(c, Null, i + 1)
          [] c = "\"" -> ReadString(s, i + 1, << >>)
          [] c = "-" /\ ~IsDigit(At(s, i + 1)) -> BadToken
          [] c = "-" /\ IsDigit(At(s, i + 1)) -> ReadNumber(s, i + 1, -1)
          [] IsDigit(c) -> ReadNumber(s, i, 1)
          [] c \in Letters -> upto(Span(s, i, LAMBDA x : x \in Letters))
          [] OTHER -> BadToken
Token(s, from) == TokenAt(s, Span(s, from, LAMBDA c : c \in {" ", "\n"}))
Tokens(s) == [i \in 1..(Len(s) + 1) |-> Token(s, i)]

(* parse_value and its like give the element and the token after it.       *)
Result(v, tok) == [v |-> v, tok |-> tok]
Failed(r) == r.tok.t \in {"throws", "hangs"}
Failure(tok) == Result(Null, IF tok.t = "hangs" THEN Endless ELSE BadToken)

(* match: the token after this one, if it is the one expected.  ts has the *)
(* token from each place on.                                               *)
Match(ts, r, t) == IF Failed(r) THEN r
                   ELSE IF r.tok.t # t THEN Failure(BadToken)
                   ELSE Result(r.v, ts[r.tok.next])

RECURSIVE ParseValue(_, _), ParseObject(_, _), ParseArray(_, _)

(* A key that is there already keeps its value.  An object without members *)
(* and an array without elements stay null.                                *)
ParseObject(ts, r) ==
    LET o     == IF Type(r.v) = "null" THEN << >> ELSE r.v.object
        name  == r.tok.v.string
        given(x) == IF Failed(x) THEN x
                    ELSE Result(Object(IF name \in DOMAIN o THEN o ELSE (name :> x.v) @@ o), x.tok)
        on(x) == IF x.tok.t # "," THEN x ELSE ParseObject(ts, Match(ts, x, ","))
        member(colon) == IF Failed(colon) THEN colon ELSE on(given(ParseValue(ts, colon.tok)))
    IN  IF Failed(r) \/ r.tok.t \in {"}", "Eof"} THEN r
        ELSE member(Match(ts, Match(ts, r, "String"), ":"))

ParseArray(ts, r) ==
    LET given(x) == IF Failed(x) THEN x ELSE Result(PushBack(r.v, x.v), x.tok)
        on(x) == IF x.tok.t # "," THEN x ELSE ParseArray(ts, Match(ts, x, ","))
    IN  IF Failed(r) \/ r.tok.t \in {"]", "Eof"} THEN r
        ELSE on(given(ParseValue(ts, r.tok)))

ParseValue(ts, tok) ==
    LET read(next) == CASE tok.t = "{" -> Match(ts, ParseObject(ts, Result(Null, next)), "}")
                        [] tok.t = "[" -> Match(ts, ParseArray(ts, Result(Null, next)), "]")
                        [] OTHER -> IF next.t \in {"throws", "hangs"} THEN Failure(next)
                                    ELSE Result(tok.v, next)
    IN  CASE tok.t \in {"throws", "hangs"} -> Failure(tok)
          [] tok.t = "Eof" -> Result(Null, tok)
          [] tok.t \in {"Null", "True", "False", "Integer", "Number", "String", "{", "["} ->
               read(ts[tok.next])
          [] OTHER -> Failure(BadToken)

(* parse_json.                                                             *)
ParseJson(s) == LET whole(r) == IF r.tok.t = "hangs" THEN Hangs
                                ELSE IF r.tok.t # "Eof" THEN Throws ELSE r.v
                IN  whole(ParseValue(Tokens(s), Token(s, 1)))
=============================================================================
