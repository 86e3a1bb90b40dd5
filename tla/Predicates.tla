----------------------------- MODULE Predicates -----------------------------
(***************************************************************************)
(* Tests with a prompted result: the server tells the type of a function   *)
(* (GetFunctionReturnType), an IDE asks for a comparison and a value, the  *)
(* harness assumes it, the cases KLEE has found are filtered again by the  *)
(* text of their result (predicateMatch), and a test compares the result   *)
(* with the value.  The same predicate is evaluated three times, by C on   *)
(* values, by the server on texts, and by a macro the other way round.     *)
(*                                                                         *)
(* Results are typed values, or, of functions that return a string, the    *)
(* sequence of its codes.  Floating point is left out.                     *)
(***************************************************************************)
EXTENDS Literals

IsString(t) == t = "char *"
ResultTypes == (Primitives \ {"utbot_byte"}) \cup {"char *"}

(* GetFunctionReturnType and getIntegerValidationType *)
ValidationType(t) ==
    IF IsString(t) THEN [kind |-> "string"]
    ELSE IF t = "bool" THEN [kind |-> "bool"]
    ELSE IF t \in Characters THEN [kind |-> "char"]
    ELSE [kind |-> "integer", size |-> Width[t], unsigned |-> t \in Unsigned]

Clients == {"VSCode", "CLion"}

(* The comparisons an IDE offers; CLion's fourth one is none of C. *)
Offered(client, vt) ==
    IF client = "VSCode"
    THEN IF vt.kind = "string" THEN {"=="} ELSE {"==", "!=", "<=", ">=", "<", ">"}
    ELSE IF vt.kind \in {"string", "bool"} THEN {"=="} ELSE {"==", "<=", "=>", "<", ">"}

(* VS Code calls signed what is unsigned, and loses the last bit of 2^64 - 1, *)
(* the greatest value of the widest type here.                                *)
IntBoundsBySize(size, signed) ==
    LET most == IF size = Width["long long"] THEN 2 ^ size ELSE 2 ^ size - 1
    IN  (IF signed THEN 0 ELSE - 2 ^ size) .. most

BoundsOf(client, vt) ==
    IF client = "VSCode" THEN IntBoundsBySize(vt.size, vt.unsigned)
    ELSE IF vt.unsigned THEN 0 .. 2 ^ vt.size - 1
    ELSE - 2 ^ (vt.size - 1) .. 2 ^ (vt.size - 1) - 1

EscapesOf(client) ==
    {<<Backslash, c>> : c \in {Apostrophe, 63, Backslash, 97, 98, 102, 110, 114, 116, 118}}
    \cup {IF client = "VSCode" THEN <<Backslash, Quote>> ELSE <<Quote>>}

(* The validators of what the user types.  An empty text is no answer to VS Code. *)
Accepts(client, vt, value) ==
    CASE vt.kind = "integer" -> value \in BoundsOf(client, vt)
      [] vt.kind = "char" -> Len(value) = 1 \/ value \in EscapesOf(client)
      [] vt.kind = "string" -> Len(value) <= 32 /\ (client = "VSCode" => value # <<>>)
      [] vt.kind = "bool" -> value \in {0, 1}

Between(mark, text) == <<mark>> \o text \o <<mark>>

wrapUserValue(vt, value) ==
    CASE vt.kind = "integer" -> Decimal(value, "")
      [] vt.kind = "char" -> [form |-> "character", text |-> Between(Apostrophe, value)]
      [] vt.kind = "string" -> [form |-> "string", text |-> Between(Quote, value)]
      [] vt.kind = "bool" -> [form |-> "word", value |-> value = 1]

Operators == {"==", "!=", "<=", ">=", "<", ">"}

(* The harness compiles. *)
WellFormed(t, op, value) ==
    /\ op \in Operators
    /\ t \in Characters => ReadCharacter(Between(Apostrophe, value)) # IllFormed
    /\ IsString(t) => \A i \in DOMAIN value : ReadCharacter(Between(Apostrophe, <<value[i]>>)) # IllFormed

(* KleeAssumeReturnValueVisitor: of a string as many characters as were typed *)
(* are compared.                                                              *)
Assumed(t, op, value, result) ==
    /\ WellFormed(t, op, value)
    /\ IF IsString(t) THEN IsPrefix(value, result)
       ELSE Compare(op, OfType(t, result), ReadExpression(wrapUserValue(ValidationType(t), value)))

(* The view of the result among the objects of KLEE. *)
ResultView(t, value, result) ==
    IF IsString(t) THEN [form |-> "string", text |-> stringLiteralView(SubSeq(result, 1, Len(value)), 0)]
    ELSE primitiveView(result, t)

(* std::string is compared by the codes, from the first on. *)
Before(s, u) ==
    \/ s # u /\ IsPrefix(s, u)
    \/ \E i \in DOMAIN s \cap DOMAIN u : SubSeq(s, 1, i - 1) = SubSeq(u, 1, i - 1) /\ s[i] < u[i]
TextMeets(op, s, u) == Meets(op, IF s = u THEN 0 ELSE IF Before(s, u) THEN -1 ELSE 1, 0)

(* predicateMatch.  A number is what its text begins with, whatever its suffix; *)
(* the difference begins with a parenthesis.                                    *)
predicateMatch(t, op, value, result) ==
    LET view == ResultView(t, value, result)
        typed == wrapUserValue(ValidationType(t), value)
    IN  IF view.form = "difference" THEN "throws"
        ELSE IF (IF view.form \in {"character", "string"} THEN TextMeets(op, view.text, typed.text)
                 ELSE Meets(op, result, value))
        THEN "kept" ELSE "skipped"

(* Mutant of predicateMapping: the operator is not turned round. *)
MappingAsItIs(op) == op

(* EXPECT_*(expected, actual) has its arguments the other way round. *)
predicateMapping(op) ==
    CASE op = ">" -> "<" [] op = "<" -> ">" [] op = ">=" -> "<=" [] op = "<=" -> ">=" [] OTHER -> op

(* The verbose form has the value in a variable of the type of the result, the *)
(* parametrized form as it was typed.  Strings are compared as far as typed.   *)
Passes(t, op, value, result) ==
    IF IsString(t) THEN IsPrefix(ReadString(Between(Quote, value)), result)
    ELSE LET typed == ReadExpression(wrapUserValue(ValidationType(t), value))
             expected == OfType(t, ConvertTo(t, typed.value))
         IN  \A e \in {expected, typed} : Compare(predicateMapping(op), e, OfType(t, result))
-----------------------------------------------------------------------------
(* The meaning of what the user has typed. *)
MeaningOf(t, value) == IF t \in Characters THEN ReadCharacter(Between(Apostrophe, value))[1] ELSE value
Wanted(t, op, value, result) ==
    IF IsString(t) THEN IsPrefix(value, result) ELSE Meets(op, result, MeaningOf(t, value))

(* Not everything an IDE accepts is a value of the type, or well-formed. *)
Sensible(t, op, value) ==
    /\ WellFormed(t, op, value)
    /\ IsString(t) \/ MeaningOf(t, value) \in ValuesOf(t)

(* Texts are compared as values are if each is the only way to write its value, *)
(* and in their order if it is the character itself.  The least value of the    *)
(* widest types is no number to the server, and unsigned to C.                  *)
Comparable(t, op, value, result) ==
    CASE IsString(t) -> \A i \in DOMAIN value : isPrintable(value[i])
      [] t \in Characters -> IF op \in {"==", "!="} THEN value = charCodeToLiteral(MeaningOf(t, value))
                             ELSE isPrintable(result) /\ isPrintable(MeaningOf(t, value))
      [] OTHER -> Least("long long") \notin {value, result}

(***************************************************************************)
(* A result that comes with a test meets the predicate, and both forms of  *)
(* the test pass on it, however the value was typed and whichever type it  *)
(* is compared in; and no result that meets the predicate is excluded by   *)
(* the harness or dropped by the server.                                   *)
(***************************************************************************)
PredicatesAreKept(results, values) ==
    \A t \in ResultTypes, client \in Clients : \A op \in Offered(client, ValidationType(t)) :
        \A value \in values[t] : Accepts(client, ValidationType(t), value) /\ Sensible(t, op, value) =>
            \A result \in results[t] :
                LET kept == Assumed(t, op, value, result) /\ predicateMatch(t, op, value, result) = "kept"
                IN  /\ kept => Wanted(t, op, value, result) /\ Passes(t, op, value, result)
                    /\ Comparable(t, op, value, result) => (kept <=> Wanted(t, op, value, result))
=============================================================================
