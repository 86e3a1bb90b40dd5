------------------------------ MODULE Visitors ------------------------------
(***************************************************************************)
(* The visitors of a type.  Each descends by itself from a variable to the *)
(* elements it writes a line about: the harness assumes that they equal    *)
(* those of a symbolic variable, the test asserts it, and constraints and  *)
(* stubs are written for the members of structures.                        *)
(***************************************************************************)
EXTENDS Types

(* An element of a variable, or of what is returned: the variable is       *)
(* dereferenced, then the path is followed.  The variable it is compared   *)
(* with is followed along the same path.                                   *)
Element(name, stars) == [name |-> name, stars |-> stars, path |-> <<>>]
Dereferenced(e, stars) == [e EXCEPT !.stars = @ + stars]
Indexed(e, sizes) == [e EXCEPT !.path = @ \o [i \in DOMAIN sizes |-> [member |-> "", size |-> sizes[i]]]]
Member(e, f) ==
    IF f.name = "" THEN e ELSE [e EXCEPT !.path = Append(@, [member |-> f.name, size |-> 0])]

(* AbstractValueViewVisitor::visitAny *)
visitedAs(t, depth) ==
    IF isCStringType(t) THEN "string"
    ELSE IF Outer(t) = "array" \/ isPointerToArray(t) \/ (isPointerToPointer(t) /\ depth = 0) THEN "array"
    ELSE IF isArrayOfPointersToFunction(t) THEN "function"
    ELSE getTypeKind(t)

(* What void points to is looked at byte by byte. *)
Bytewise(t) ==
    IF isVoid(baseTypeObj(t)) THEN minimalScalarPointerType(Len(pointerArrayKinds(t))) ELSE t

(* KleeAssumeParamVisitor: what a parameter or a global is after the call. *)
RECURSIVE AssumedElements(_, _, _)
AssumedElements(t, e, depth) ==
    LET kind == visitedAs(t, depth)
        type == Bytewise(t)
        sizes == arraysSizes(type, "PARAMETER")
    IN  CASE kind = "array" /\ ~ (depth = 0 /\ Outer(type) = "pointer") ->
                 (* pointers in an array of a structure are assumed to be NULL *)
                 IF depth > 0 /\ isTypeContainsPointer(type) THEN {}
                 ELSE AssumedElements(baseTypeObj(type), Indexed(e, sizes), depth + Len(sizes))
          [] kind \in {"array", "pointer", "string"} /\ depth = 0 ->
                 AssumedElements(baseTypeObj(type), Dereferenced(e, Len(sizes)), 0)
          [] kind = "struct" -> UNION {AssumedElements(f.type, Member(e, f), depth + 1) : f \in ToSet(Fields(t))}
          [] kind = "primitive" -> {e}
          [] OTHER -> {}

(* VerboseAssertsParamVisitor.  A single object has no pointer to it. *)
RECURSIVE AssertedElements(_, _, _)
AssertedElements(t, e, depth) ==
    LET kind == visitedAs(t, depth)
        type == Bytewise(t)
        sizes == arraysSizes(type, "PARAMETER")
    IN  CASE kind = "array" /\ ~ (depth = 0 /\ Outer(type) = "pointer") ->
                 IF depth > 0 /\ isTypeContainsPointer(type) THEN {}
                 ELSE AssertedElements(baseTypeObj(type), Indexed(e, sizes), depth + Len(sizes))
          [] kind \in {"array", "pointer", "string"} /\ depth = 0 ->
                 AssertedElements(baseTypeObj(type),
                                  Dereferenced(e, IF maybeJustPointer(type) THEN 0 ELSE Len(sizes)), 0)
          [] kind = "struct" -> UNION {AssertedElements(f.type, Member(e, f), depth + 1) : f \in ToSet(Fields(t))}
          [] kind = "primitive" -> {e}
          [] OTHER -> {}

(* KleeAssumeReturnValueVisitor.  What is returned has no pointers left to *)
(* follow but one that is taken for an array; it is visited up to the      *)
(* first pointer in it, without end where a member points to an array.     *)
RECURSIVE AssumedResult(_, _, _)
AssumedResult(t, e, depth) ==
    LET kind == visitedAs(t, depth)
        type == Bytewise(t)
        sizes == arraysSizes(type, "RETURN")
        dims == IF depth > 0 /\ isTypeContainsPointer(type) THEN indexOfFirstPointerInTypeKinds(type) - 1 ELSE Len(sizes)
        array == IF depth = 0 /\ e.stars > 0 THEN [e EXCEPT !.stars = @ - 1] ELSE e
    IN  CASE kind = "array" ->
                 AssumedResult([type EXCEPT !.kinds = SubSeq(@, dims + 1, Len(@))],
                               Indexed(array, SubSeq(sizes, 1, dims)), depth + dims)
          [] kind = "struct" -> UNION {AssumedResult(f.type, Member(e, f), depth + 1) : f \in ToSet(Fields(t))}
          [] kind = "primitive" \/ (kind \in {"pointer", "string"} /\ depth = 0) -> {e}
          [] OTHER -> {}

(* VerboseAssertsReturnValueVisitor: the members of a union are written in *)
(* a comment.                                                              *)
RECURSIVE AssertedResult(_, _, _)
AssertedResult(t, e, depth) ==
    LET kind == visitedAs(t, depth)
        type == Bytewise(t)
        sizes == arraysSizes(type, "RETURN")
    IN  CASE kind = "array" /\ ~ (depth > 0 /\ isTypeContainsPointer(type)) ->
                 AssertedResult(baseTypeObj(type), Indexed(e, sizes), depth + Len(sizes))
          [] kind = "struct" /\ ~ Records[t.base].union ->
                 UNION {AssertedResult(f.type, Member(e, f), depth + 1) : f \in ToSet(Fields(t))}
          [] kind = "primitive" -> {e}
          [] OTHER -> {}

(* ParametrizedAssertsVisitor declares a structure and does not look into it. *)
RECURSIVE AssertedInPlace(_, _, _)
AssertedInPlace(t, e, depth) ==
    LET kind == visitedAs(t, depth)
        type == Bytewise(t)
        sizes == arraysSizes(type, "RETURN")
    IN  CASE depth = 0 /\ kind \in {"array", "pointer", "string"} /\ Outer(type) # "array" ->
                 AssertedInPlace(baseTypeObj(type), e, 0)
          [] kind = "array" /\ ~ (depth > 0 /\ isTypeContainsPointer(type)) ->
                 AssertedInPlace(baseTypeObj(type), Indexed(e, sizes), depth + Len(sizes))
          [] kind = "primitive" -> {e}
          [] OTHER -> {}
-----------------------------------------------------------------------------
isFunctionField(f) == Outer(f.type) = "function" \/ isArrayOfPointersToFunction(f.type)

(* KleeConstraintsPrinter: the members that are given a stub in the harness. *)
RECURSIVE GivenStubs(_, _)
GivenStubs(t, depth) ==
    LET type == IF depth = 0 /\ maybeJustPointer(t) THEN baseTypeObj(t) ELSE t
        kind == getTypeKind(type)
        given(f) == IF isFunctionField(f) THEN {<<type.base, f.name>>}
                    ELSE IF Outer(f.type) = "pointer" THEN {} ELSE GivenStubs(f.type, depth + 1)
    IN  CASE kind \in {"array", "pointer"} /\ ~ (depth > 0 /\ isTypeContainsPointer(type)) ->
                 IF isStructLike(baseTypeObj(type)) THEN GivenStubs(baseTypeObj(type), depth) ELSE {}
          [] kind = "struct" -> UNION {given(f) : f \in ToSet(Fields(type))}
          [] OTHER -> {}

(* FunctionPointerForStubsVisitor visits a structure once and follows all pointers. *)
RecordsOf(ts) == {t.base : t \in {t \in ts : isStructLike(baseTypeObj(t))}}

RECURSIVE VisitedRecords(_)
VisitedRecords(used) ==
    LET fields == UNION {ToSet(Records[r].fields) : r \in used}
        more == used \cup RecordsOf({f.type : f \in {f \in fields : ~ isFunctionField(f)}})
    IN  IF more = used THEN used ELSE VisitedRecords(more)

DeclaredStubs(ts) ==
    {<<r, f.name>> : <<r, f>> \in
        UNION {{r} \X {f \in ToSet(Records[r].fields) : isFunctionField(f)} : r \in VisitedRecords(RecordsOf(ts))}}
=============================================================================
