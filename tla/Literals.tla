------------------------------ MODULE Literals ------------------------------
(***************************************************************************)
(* How the bytes of a KLEE object become an expression of C++ (Tests.cpp:  *)
(* readBytesAsValue, makeDecimalConstant, primitiveView, stringLiteralView *)
(* and charCodeToLiteral of StringUtils.cpp), and what a compiler makes of *)
(* that expression.                                                        *)
(*                                                                         *)
(* Bytes have CharBit bits where they are put together; integers have      *)
(* Width[t] bits, fewer than on the machine, so that all can be tried.     *)
(* Characters are the numbers of their codes, texts sequences of them.     *)
(* Floating point and enumerations are left out.                           *)
(***************************************************************************)
EXTENDS Integers, SequencesExt

CONSTANTS CharBit, Width

Characters == {"char", "signed char"}
Signed == Characters \cup {"utbot_byte", "short", "int", "long", "long long"}
Unsigned == {"bool", "unsigned char", "unsigned short", "unsigned int", "unsigned long",
             "unsigned long long"}
Primitives == Signed \cup Unsigned

ASSUME LiteralsAssumption ==
    /\ CharBit \in Nat \ {0}
    /\ Width \in [Primitives -> Nat \ {0}]
    /\ \A t \in Characters : Width[t] = 8

Least(t) == IF t \in Signed THEN - 2 ^ (Width[t] - 1) ELSE 0
Greatest(t) == IF t \in Signed THEN 2 ^ (Width[t] - 1) - 1 ELSE 2 ^ Width[t] - 1
ValuesOf(t) == Least(t) .. Greatest(t)

Bit(n, k) == (n \div 2 ^ k) % 2
-----------------------------------------------------------------------------
(* sext(): if the bit is set, so are all behind it. *)
Sext(bytes, signPos) ==
    LET last == signPos \div CharBit
        at == signPos % CharBit
    IN  [j \in DOMAIN bytes |->
            IF Bit(bytes[last], at) = 0 \/ j < last THEN bytes[j]
            ELSE IF j = last THEN (bytes[j] % (2 ^ at)) + 2 ^ CharBit - 2 ^ at
            ELSE 2 ^ CharBit - 1]

(* A value that does not begin and end with a byte of the array: its bytes  *)
(* are put together of two each, and the last one is cut off at the end.    *)
ShiftedBytes(array, size, offset, len) ==
    LET first == offset \div CharBit
        lo == offset % CharBit
        stop == (offset + len + CharBit - 1) \div CharBit
        top == (offset + len) % CharBit
        byte(i) == IF i + 1 = stop /\ top # 0 THEN array[i] % (2 ^ top) ELSE array[i]
        high(i) == IF i < stop THEN byte(i) \div (2 ^ lo) ELSE 0
        low(i) == IF i < stop THEN byte(i) % (2 ^ lo) ELSE 0
    IN  [j \in 0 .. size - 1 |-> high(first + j) + low(first + j + 1) * 2 ^ (CharBit - lo)]

WholeBytes(array, size, offset, len) ==
    [j \in 0 .. size - 1 |-> IF j < len \div CharBit THEN array[offset \div CharBit + j] ELSE 0]

(* readBytesAsValue() for a type of so many bytes: what is read of the array, *)
(* and with which sign.                                                       *)
ReadBytes(array, size, signed, offset, len) ==
    LET bytes == IF offset % CharBit # 0 \/ len % CharBit # 0
                 THEN ShiftedBytes(array, size, offset, len)
                 ELSE WholeBytes(array, size, offset, len)
        read == IF signed THEN Sext(bytes, len - 1) ELSE bytes
        n == MapThenSumSet(LAMBDA j : read[j] * 2 ^ (CharBit * j), DOMAIN read)
        bits == CharBit * size
    IN  IF signed /\ Bit(n, bits - 1) = 1 THEN n - 2 ^ bits ELSE n

(* What should be read: the bits offset, offset + 1, ... of the array. *)
BitsAt(array, signed, offset, len) ==
    LET bit(k) == Bit(array[(offset + k) \div CharBit], (offset + k) % CharBit)
        n == MapThenSumSet(LAMBDA k : bit(k) * 2 ^ k, 0 .. len - 1)
    IN  IF signed /\ bit(len - 1) = 1 THEN n - 2 ^ len ELSE n
-----------------------------------------------------------------------------
Quote == 34
Apostrophe == 39
Backslash == 92

(* PrinterUtils::escapeSequences: the codes, and the letters that stand for them. *)
Escaped == <<10, 9, 11, 8, 13, 12, 7, Backslash, 63, Apostrophe, Quote, 0>>
Letters == <<110, 116, 118, 98, 114, 102, 97, Backslash, 63, Apostrophe, Quote, 48>>

HexDigit(d) == IF d < 10 THEN 48 + d ELSE 87 + d
Byte(c) == c % 256

charCodeToLiteral(c) ==
    IF \E i \in DOMAIN Escaped : Escaped[i] = Byte(c)
    THEN <<Backslash, Letters[CHOOSE i \in DOMAIN Escaped : Escaped[i] = Byte(c)]>>
    ELSE IF Byte(c) \in 32 .. 126 THEN <<Byte(c)>>
    ELSE <<Backslash, 120, HexDigit(Byte(c) \div 16), HexDigit(Byte(c) % 16)>>

isPrintable(c) == charCodeToLiteral(c) = <<Byte(c)>>

(* Mutant of stringLiteralView: the literal is never closed in between. *)
OnePiece(bytes, length) ==
    LET shown == SelectInSeq(bytes, LAMBDA c : c = 0)
        n == IF length # 0 THEN length ELSE IF shown = 0 THEN Len(bytes) ELSE shown - 1
    IN  <<Quote>> \o FlattenSeq([i \in 1 .. n |-> charCodeToLiteral(bytes[i])]) \o <<Quote>>

(* A literal of the bytes up to a length, or up to the first 0.  It is closed *)
(* and opened again behind what is not printable.                             *)
stringLiteralView(bytes, length) ==
    LET zero == SelectInSeq(bytes, LAMBDA c : c = 0)
        n == IF length # 0 THEN length ELSE IF zero = 0 THEN Len(bytes) ELSE zero - 1
        piece(i) == charCodeToLiteral(bytes[i])
                    \o IF isPrintable(bytes[i]) \/ i = Len(bytes) THEN <<>> ELSE <<Quote, Quote>>
    IN  <<Quote>> \o FlattenSeq([i \in 1 .. n |-> piece(i)]) \o <<Quote>>

(***************************************************************************)
(* What a compiler reads.  \x takes all hexadecimal digits that follow it, *)
(* an octal number up to three; adjacent literals are read one by one and  *)
(* then joined.  <<-1>> stands for a literal that is ill-formed.           *)
(***************************************************************************)
IllFormed == <<-1>>
HexDigits == 48 .. 57 \cup 97 .. 102
OctalDigits == 48 .. 55

(* The digits that follow at a position, no more than most. *)
Digits(text, from, digits, most) ==
    LET rest == SubSeq(text, from, Len(text))
        other == SelectInSeq(rest, LAMBDA c : c \notin digits)
        n == IF other = 0 THEN Len(rest) ELSE other - 1
    IN  SubSeq(rest, 1, IF n < most THEN n ELSE most)

ValueOfDigits(ds, base) ==
    FoldLeft(LAMBDA n, c : n * base + (IF c < 58 THEN c - 48 ELSE c - 87), 0, ds)

(* The codes of the text from position i to the mark that ends the literal. *)
RECURSIVE Codes(_, _, _)
Codes(text, i, mark) ==
    LET then(c, next) == <<c>> \o Codes(text, next, mark)
        hex == Digits(text, i + 2, HexDigits, Len(text))
        octal == Digits(text, i + 1, OctalDigits, 3)
        letter == SelectInSeq(Letters, LAMBDA c : c = text[i + 1])
    IN  IF i > Len(text) THEN IllFormed
        ELSE IF text[i] = mark /\ i = Len(text) THEN <<>>
        ELSE IF text[i] = mark /\ mark = Quote /\ text[i + 1] = Quote THEN Codes(text, i + 2, mark)
        ELSE IF text[i] \in {mark, 10} THEN IllFormed
        ELSE IF text[i] # Backslash THEN then(text[i], i + 1)
        ELSE IF i = Len(text) THEN IllFormed
        ELSE IF octal # <<>> THEN then(ValueOfDigits(octal, 8), i + 1 + Len(octal))
        ELSE IF text[i + 1] = 120 /\ hex # <<>> /\ ValueOfDigits(hex, 16) < 256
            THEN then(ValueOfDigits(hex, 16), i + 2 + Len(hex))
        ELSE IF letter # 0 THEN then(Escaped[letter], i + 2)
        ELSE IllFormed

ReadString(text) == Codes(text, 2, Quote)

(* A character literal of one character, as a signed char. *)
ReadCharacter(text) ==
    LET codes == Codes(text, 2, Apostrophe)
    IN  IF Len(codes) # 1 \/ codes = IllFormed THEN IllFormed
        ELSE IF codes[1] > 127 THEN <<codes[1] - 256>> ELSE codes
-----------------------------------------------------------------------------
SuffixOf(t) ==
    CASE t = "long" -> "L"
      [] t = "long long" -> "LL"
      [] t = "unsigned int" -> "U"
      [] t = "unsigned long" -> "UL"
      [] t = "unsigned long long" -> "ULL"
      [] OTHER -> ""

Decimal(v, suffix) == [form |-> "decimal", value |-> v, suffix |-> suffix]

(* The least value is printed as the difference of two others. *)
makeDecimalConstant(v, t) ==
    IF t \in {"long", "long long"} /\ v = Least("long long")
    THEN [form |-> "difference", suffix |-> SuffixOf(t)]
    ELSE Decimal(v, SuffixOf(t))

primitiveView(v, t) ==
    IF t = "bool" THEN [form |-> "word", value |-> v # 0]
    ELSE IF t \in Characters
    THEN [form |-> "character", text |-> <<Apostrophe>> \o charCodeToLiteral(v) \o <<Apostrophe>>]
    ELSE makeDecimalConstant(v, t)

(***************************************************************************)
(* The type and the value a compiler gives to it.  A decimal constant has  *)
(* the first type that holds it; what no signed type holds becomes         *)
(* unsigned, with a warning.                                               *)
(***************************************************************************)
Candidates(suffix) ==
    CASE suffix = "" -> <<"int", "long", "long long">>
      [] suffix = "L" -> <<"long", "long long">>
      [] suffix = "LL" -> <<"long long">>
      [] suffix = "U" -> <<"unsigned int", "unsigned long", "unsigned long long">>
      [] suffix = "UL" -> <<"unsigned long", "unsigned long long">>
      [] suffix = "ULL" -> <<"unsigned long long">>

ConvertTo(t, v) ==
    IF t = "bool" THEN (IF v = 0 THEN 0 ELSE 1)
    ELSE ((v - Least(t)) % (2 ^ Width[t])) + Least(t)

OfType(t, v) == [type |-> t, value |-> v]

ReadDecimal(e) ==
    LET types == Candidates(e.suffix)
        first == SelectInSeq(types, LAMBDA t : (IF e.value < 0 THEN - e.value ELSE e.value) <= Greatest(t))
        t == IF first = 0 THEN "unsigned long long" ELSE types[first]
    IN  OfType(t, ConvertTo(t, e.value))

ReadExpression(e) ==
    CASE e.form = "decimal" -> ReadDecimal(e)
      [] e.form = "difference" -> LET t == Candidates(e.suffix)[1] IN OfType(t, - Greatest(t) - 1)
      [] e.form = "word" -> OfType("bool", IF e.value THEN 1 ELSE 0)
      [] e.form = "character" -> OfType("char", ReadCharacter(e.text)[1])

(* The usual arithmetic conversions, for a comparison. *)
Ranks == <<"int", "unsigned int", "long", "unsigned long", "long long", "unsigned long long">>
RankOf(t) == SelectInSeq(Ranks, LAMBDA u : u = t)
Common(t, u) ==
    LET r == IF RankOf(t) < RankOf(u) THEN RankOf(u) ELSE RankOf(t)
        low == IF RankOf(t) < RankOf(u) THEN t ELSE u
    IN  IF r = 0 THEN "int"
        ELSE IF Ranks[r] \in Signed /\ low \in Unsigned /\ RankOf(low) # 0
                /\ Greatest(Ranks[r]) < Greatest(low)
        THEN Ranks[r + 1] ELSE Ranks[r]

Meets(op, a, b) ==
    CASE op = "==" -> a = b
      [] op = "!=" -> a # b
      [] op = "<=" -> a <= b
      [] op = ">=" -> a >= b
      [] op = "<" -> a < b
      [] op = ">" -> a > b

Compare(op, x, y) ==
    LET t == Common(x.type, y.type) IN Meets(op, ConvertTo(t, x.value), ConvertTo(t, y.value))
-----------------------------------------------------------------------------
(***************************************************************************)
(* What is read of an array are the bits that were asked for, wherever     *)
(* they begin and end and whatever lies around them; the expression that   *)
(* is printed for a value has this value for the compiler, also next to    *)
(* values of its type; and a string literal has the characters of the      *)
(* array, whatever follows an escape.                                      *)
(***************************************************************************)
BytesAreRead(arrays, sizes) ==
    \A array \in arrays, size \in sizes, signed \in BOOLEAN :
        \A len \in 1 .. CharBit * size : \A offset \in 0 .. CharBit * Cardinality(DOMAIN array) - len :
            ReadBytes(array, size, signed, offset, len) = BitsAt(array, signed, offset, len)

NumbersAreRead ==
    \A t \in Primitives : \A v \in ValuesOf(t) :
        LET x == ReadExpression(primitiveView(v, t))
        IN  x.value = v /\ Compare("==", x, OfType(t, v))

StringsAreRead(strings) ==
    \A s \in strings : \A length \in 0 .. Len(s) :
        LET zero == SelectInSeq(s, LAMBDA c : c = 0)
            n == IF length # 0 THEN length ELSE IF zero = 0 THEN Len(s) ELSE zero - 1
        IN  ReadString(stringLiteralView(s, length)) = [i \in 1 .. n |-> Byte(s[i])]
=============================================================================
