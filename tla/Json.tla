-------------------------------- MODULE Json --------------------------------
(***************************************************************************)
(* zeep::json: element, a tagged union with the operators the expression   *)
(* language is made of, and the text it is written to (element.cpp).  The  *)
(* parser that reads such text is in JsonParser.                           *)
(*                                                                         *)
(* An element is a record of one field, named for its value_type.  Strings *)
(* are sequences of characters, an object is a function from its keys, and *)
(* a float counts halves, so that 5 stands for 2.5, and is below a million *)
(* in size: the model has no others, infinity and NaN among them.  Failing *)
(* operations give a record of the field fails.                            *)
(***************************************************************************)
EXTENDS Chars

Null == [null |-> 0]
Bool(b) == [boolean |-> b]
Integer(n) == [number_int |-> n]
Str(s) == [string |-> s]
Array(a) == [array |-> a]
Object(o) == [object |-> o]

Throws == [fails |-> "throws"]              \* an exception leaves the operation
Unspecified == [fails |-> "unspecified"]    \* depends on a member never set, or traps
Beyond == [fails |-> "beyond"]              \* a value the model has no form for
Hangs == [fails |-> "hangs"]                \* a loop that does not end

Abs(n) == IF n < 0 THEN -n ELSE n
Float(h) == IF Abs(h) < 1999999 THEN [number_float |-> h] ELSE Beyond

Type(v) == CHOOSE t \in DOMAIN v : TRUE
Fails(v) == Type(v) = "fails"
IsNumber(v) == Type(v) \in {"number_int", "number_float"}

(* element::empty and element::size.                                       *)
IsEmpty(v) == CASE Type(v) = "null" -> TRUE
                [] Type(v) = "array" -> v.array = << >>
                [] Type(v) = "object" -> DOMAIN v.object = {}
                [] Type(v) = "string" -> v.string = << >>
                [] OTHER -> FALSE
Size(v) == CASE Type(v) = "null" -> 0
             [] Type(v) = "array" -> Len(v.array)
             [] Type(v) = "object" -> Cardinality(DOMAIN v.object)
             [] OTHER -> 1

(* operator bool and as<bool>, which agree.                                *)
Truth(v) == CASE Type(v) = "boolean" -> v.boolean
              [] Type(v) = "number_int" -> v.number_int # 0
              [] Type(v) = "number_float" -> v.number_float # 0
              [] OTHER -> ~IsEmpty(v)

(* get_number: as<int64_t> cuts a float off, as<double> widens an int.     *)
Cut(h) == IF h < 0 THEN -((-h) \div 2) ELSE h \div 2
AsInt(v) == IF Type(v) = "number_int" THEN v.number_int ELSE Cut(v.number_float)
AsHalves(v) == IF Type(v) = "number_int" THEN 2 * v.number_int ELSE v.number_float

-----------------------------------------------------------------------------
(* operator==: numbers by value, everything else within its type.          *)
RECURSIVE Equal(_, _), Less(_, _), ListLess(_, _)
Equal(a, b) ==
    IF IsNumber(a) /\ IsNumber(b) THEN AsHalves(a) = AsHalves(b)
    ELSE /\ Type(a) = Type(b)
         /\ CASE Type(a) = "array" ->
                    /\ Len(a.array) = Len(b.array)
                    /\ \A i \in DOMAIN a.array : Equal(a.array[i], b.array[i])
              [] Type(a) = "object" ->
                    /\ DOMAIN a.object = DOMAIN b.object
                    /\ \A k \in DOMAIN a.object : Equal(a.object[k], b.object[k])
              [] OTHER -> a = b

(* std::map keeps its keys in order; it compares as its list of pairs.     *)
Keys(o) == SetToSortSeq(DOMAIN o, LexLess)
Pairs(o) == LET pairs(k) == [i \in DOMAIN k |-> Array(<<Str(k[i]), o[k[i]]>>)] IN pairs(Keys(o))

TypeOrder == [null |-> 0, boolean |-> 1, number_int |-> 2, number_float |-> 2,
              object |-> 3, array |-> 4, string |-> 5]

(* Vectors and maps compare as lists: by the first place at which one of   *)
(* the two elements is less.                                               *)
ListLess(s, t) == \E k \in 0..Len(s) : /\ k < Len(t)
                                       /\ \A i \in 1..k : ~Less(s[i], t[i]) /\ ~Less(t[i], s[i])
                                       /\ k < Len(s) => Less(s[k + 1], t[k + 1])

WithinType(a, b) == CASE Type(a) = "array" -> ListLess(a.array, b.array)
                      [] Type(a) = "object" -> ListLess(Pairs(a.object), Pairs(b.object))
                      [] Type(a) = "string" -> LexLess(a.string, b.string)
                      [] Type(a) = "boolean" -> ~a.boolean /\ b.boolean
                      [] IsNumber(a) -> AsHalves(a) < AsHalves(b)
                      [] OTHER -> FALSE

(* operator<.                                                              *)
Less(a, b) == IF IsNumber(a) /\ IsNumber(b) THEN AsHalves(a) < AsHalves(b)
              ELSE IF Type(a) # Type(b) THEN TypeOrder[Type(a)] < TypeOrder[Type(b)]
              ELSE WithinType(a, b)

-----------------------------------------------------------------------------
(* serialize.  Keys are written as they are; a string's quotes, slashes    *)
(* and control characters are escaped.                                     *)
Chars(s) == CASE s = "null" -> <<"n", "u", "l", "l">>
              [] s = "true" -> <<"t", "r", "u", "e">>
              [] s = "false" -> <<"f", "a", "l", "s", "e">>
\* Mutant: a backslash is written as it is.
EscapedQuotesOnly(c) == CASE c \in {"\"", "/"} -> <<"\\", c>>
                          [] c = "\n" -> <<"\\", "n">>
                          [] c = "\f" -> <<"\\", "u", "0", "0", "0", "c">>
                          [] OTHER -> <<c>>
Escaped(c) == CASE c \in {"\"", "\\", "/"} -> <<"\\", c>>
                [] c = "\n" -> <<"\\", "n">>
                [] c = "\f" -> <<"\\", "u", "0", "0", "0", "c">>
                [] OTHER -> <<c>>
Quoted(s) == <<"\"">> \o s \o <<"\"">>
(* A float is written with the six significant digits a stream has by      *)
(* default: half beside six others is rounded away, to the even neighbour. *)
Decimals(h) ==
    LET n    == Abs(h) \div 2
        half == h % 2 # 0
    IN  (IF h < 0 THEN <<"-">> ELSE << >>)
        \o (IF half /\ n < 100000 THEN Decimal(n) \o <<".", "5">>
            ELSE IF half THEN Decimal(n + (n % 2)) ELSE Decimal(n))
Between(s, sep) == FlattenSeq([i \in DOMAIN s |-> IF i = 1 THEN s[i] ELSE sep \o s[i]])

RECURSIVE Serialize(_)
Serialize(v) ==
    CASE Type(v) = "null" -> Chars("null")
      [] Type(v) = "boolean" -> Chars(IF v.boolean THEN "true" ELSE "false")
      [] Type(v) = "number_int" -> Decimal(v.number_int)
      [] Type(v) = "number_float" -> Decimals(v.number_float)
      [] Type(v) = "string" -> Quoted(FlattenSeq([i \in DOMAIN v.string |-> Escaped(v.string[i])]))
      [] Type(v) = "array" ->
           <<"[">> \o Between([i \in DOMAIN v.array |-> Serialize(v.array[i])], <<",">>) \o <<"]">>
      [] Type(v) = "object" ->
           LET members(k) == [i \in DOMAIN k |-> Quoted(k[i]) \o <<":">> \o Serialize(v.object[k[i]])]
           IN  <<"{">> \o Between(members(Keys(v.object)), <<",">>) \o <<"}">>

(* as<std::string>.                                                        *)
AsString(v) == IF Type(v) = "string" THEN v.string ELSE Serialize(v)

(* element::contains.                                                      *)
Has(v, t) == CASE Type(v) = "object" -> AsString(t) \in DOMAIN v.object
                    [] Type(v) = "array" -> \E i \in DOMAIN v.array : Equal(v.array[i], t)
                    [] OTHER -> FALSE

(* operator[](size_t) on an array the caller may change: it grows.  The    *)
(* index -1 passes for one that is in the array; any other negative one    *)
(* is too long for a vector.                                               *)
AtIndex(v, i) == CASE i < -1 -> Throws
                   [] i = -1 -> Unspecified
                   [] i >= 0 /\ i < Len(v.array) -> v.array[i + 1]
                   [] OTHER -> Null
AtKey(v, k) == IF k \in DOMAIN v.object THEN v.object[k] ELSE Null

PushBack(v, x) == CASE Type(v) = "null" -> Array(<<x>>)
                    [] Type(v) = "array" -> Array(Append(v.array, x))
                    [] OTHER -> Throws

-----------------------------------------------------------------------------
(* The arithmetic operators.  Two booleans are read as the integers they   *)
(* share memory with; an integer on the left makes an integer of a float   *)
(* on the right.                                                           *)
Negate(v) == CASE Type(v) = "number_int" -> Integer(-v.number_int)
               [] Type(v) = "number_float" -> Float(-v.number_float)
               [] OTHER -> Throws

Numeric(a, b, I(_, _), F(_, _)) ==
    CASE Type(a) = "number_int" /\ IsNumber(b) -> I(a.number_int, AsInt(b))
      [] Type(a) = "number_float" /\ IsNumber(b) -> F(a.number_float, AsHalves(b))
      [] Type(a) = "boolean" /\ Type(b) = "boolean" -> Unspecified
      [] OTHER -> Throws

Add(a, b) ==
    CASE Type(a) = "null" -> b
      [] Type(a) # "null" /\ Type(b) = "null" -> a
      [] "null" \notin {Type(a), Type(b)} /\ "string" \in {Type(a), Type(b)} ->
           Str(AsString(a) \o AsString(b))
      [] OTHER -> Numeric(a, b, LAMBDA x, y : Integer(x + y), LAMBDA x, y : Float(x + y))

Subtract(a, b) == Numeric(a, b, LAMBDA x, y : Integer(x - y), LAMBDA x, y : Float(x - y))
Multiply(a, b) == Numeric(a, b, LAMBDA x, y : Integer(x * y),
                          LAMBDA x, y : IF (x * y) % 2 = 0 THEN Float((x * y) \div 2) ELSE Beyond)

Sign(n) == IF n < 0 THEN -1 ELSE 1
Divide(a, b) == Numeric(a, b, LAMBDA x, y : IF y = 0 THEN Unspecified
                                            ELSE Integer(Sign(x) * Sign(y) * (Abs(x) \div Abs(y))),
                        LAMBDA x, y : IF y = 0 \/ (2 * Abs(x)) % Abs(y) # 0 THEN Beyond
                                      ELSE Float(Sign(x) * Sign(y) * ((2 * Abs(x)) \div Abs(y))))
Modulo(a, b) == Numeric(a, b, LAMBDA x, y : IF y = 0 THEN Unspecified
                                            ELSE Integer(Sign(x) * (Abs(x) % Abs(y))),
                        LAMBDA x, y : Throws)

-----------------------------------------------------------------------------
(* Reading text: the character at a place, or end.                         *)
At(s, i) == IF i \in DOMAIN s THEN s[i] ELSE "end"

(* The first place from i on whose character does not satisfy P.           *)
Span(s, i, P(_)) == Min({j \in i..(Len(s) + 1) : ~P(At(s, j))})

(* What a float of the given digits before and after the point becomes.    *)
Halves(int, frac) == IF \A i \in 2..Len(frac) : frac[i] = "0"
                     THEN CASE frac = << >> -> 2 * int
                            [] frac # << >> /\ frac[1] = "0" -> 2 * int
                            [] frac # << >> /\ frac[1] = "5" -> 2 * int + 1
                            [] OTHER -> -1
                     ELSE -1
=============================================================================
