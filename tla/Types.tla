------------------------------- MODULE Types -------------------------------
(***************************************************************************)
(* What types/Types.cpp says of a type: the extents of pointers and        *)
(* arrays, what a pointer is taken for, what a type is for a printer, and  *)
(* whether it is supported at all.                                         *)
(*                                                                         *)
(* A type has its `kinds` from the outside in, each [is, size] (those of a *)
(* function follow the pointer to it), the `base` type, whether that is    *)
(* `const`, its `ref` ("none", "lvalue", "rvalue") and whether it is taken *)
(* for an array (`maybeArray`).                                            *)
(***************************************************************************)
EXTENDS Naturals, FiniteSets, SequencesExt

(* Structures and unions by the name of the base type: [union, fields], a  *)
(* field is [name, type] and has no name when it is anonymous.             *)
CONSTANT Records

Kind(is) == [is |-> is, size |-> 0]
ArrayOf(n) == [is |-> "array", size |-> n]
Outer(t) == t.kinds[1].is
BaseIsVoid(t) == t.base = "void"

(* Elements per pointer, and the extents of a type. *)
OneDim(usage) == IF usage = "PARAMETER" THEN 10 ELSE 1
MultiDim == 2

pointerArrayKinds(t) ==
    LET inner(n) == \A i \in 1 .. n : t.kinds[i].is \in {"pointer", "array"}
    IN  SubSeq(t.kinds, 1, CHOOSE n \in 0 .. (Len(t.kinds) - 1) :
                               inner(n) /\ (n < Len(t.kinds) - 1 => ~ inner(n + 1)))

arraysSizes(t, usage) ==
    [i \in DOMAIN pointerArrayKinds(t) |->
        IF t.kinds[i].is = "array" THEN t.kinds[i].size
        ELSE IF Len(t.kinds) <= 2 THEN OneDim(usage) ELSE MultiDim]

baseTypeObj(t) ==
    [t EXCEPT !.kinds = SubSeq(@, Len(pointerArrayKinds(t)) + 1, Len(@))]

elementType(t) == [t EXCEPT !.kinds = Tail(@)]

PointerKinds(t) == {i \in DOMAIN pointerArrayKinds(t) : t.kinds[i].is = "pointer"}
isTypeContainsPointer(t) == PointerKinds(t) # {}
indexOfFirstPointerInTypeKinds(t) == CHOOSE i \in PointerKinds(t) : \A j \in PointerKinds(t) : i <= j

maybeJustPointer(t) == Outer(t) = "pointer" /\ ~ t.maybeArray /\ Len(t.kinds) < 3

isArrayOfPointersToFunction(t) == Outer(t) = "pointer" /\ t.kinds[2].is = "function"

isPointerToPointer(t) == {1, 2} \subseteq PointerKinds(t)
isPointerToArray(t) == 1 \in PointerKinds(t) /\ Len(pointerArrayKinds(t)) > 1 /\ t.kinds[2].is = "array"
isTwoDimensionalPointer(t) == isPointerToPointer(t) /\ Len(t.kinds) = 3

isVoid(t) == Outer(t) = "simple" /\ BaseIsVoid(t)
isFilePointer(t) == Outer(t) = "pointer" /\ t.base = "FILE"
isCStringType(t) == Outer(t) = "pointer" /\ Len(t.kinds) = 2 /\ t.base = "char"
isStructLike(t) == Outer(t) = "simple" /\ t.base \in DOMAIN Records
isUnknown(t) == Outer(t) = "simple" /\ t.base = "unknown"

maybeReturnArray(t) ==
    /\ Outer(t) = "pointer" /\ ~ maybeJustPointer(t) /\ ~ isArrayOfPointersToFunction(t)
    /\ Len(t.kinds) < 3 /\ ~ isVoid(baseTypeObj(t))

countReturnPointers(t, decrementIfArray) ==
    Cardinality(PointerKinds(t)) - (IF decrementIfArray /\ maybeReturnArray(t) THEN 1 ELSE 0)

arrayClone(t, usage) == [t EXCEPT !.kinds[1] = ArrayOf(OneDim(usage))]

arrayCloneMultiDim(t) ==
    LET sizes == arraysSizes(t, "PARAMETER")
        array(i) == IF i \in DOMAIN sizes /\ t.kinds[i].is = "pointer" THEN ArrayOf(MultiDim) ELSE t.kinds[i]
    IN  IF maybeJustPointer(t) THEN baseTypeObj(t)
        ELSE IF Len(sizes) = 1 THEN arrayClone(t, "PARAMETER")
        ELSE [t EXCEPT !.kinds = [i \in DOMAIN t.kinds |-> array(i)]]

minimalScalarPointerType(pointers) ==
    [kinds |-> [i \in 1 .. pointers |-> Kind("pointer")] \o <<Kind("simple")>>,
     base |-> "uchar", const |-> FALSE, ref |-> "none", maybeArray |-> FALSE]
minimalScalarType == minimalScalarPointerType(0)

skipTypeInReturn(t) == isVoid(t) \/ Outer(t) = "function" \/ isArrayOfPointersToFunction(t)

getReturnTypeToCheck(t) ==
    IF Outer(t) # "pointer" THEN t
    ELSE IF skipTypeInReturn(baseTypeObj(t)) THEN minimalScalarType ELSE baseTypeObj(t)

getTypeKind(t) ==
    IF Outer(t) # "simple" THEN Outer(t)
    ELSE IF isUnknown(t) THEN "unknown" ELSE IF isStructLike(t) THEN "struct" ELSE "primitive"
-----------------------------------------------------------------------------
Fields(t) == Records[t.base].fields
isIncompleteArrayType(t) == Outer(t) = "array" /\ t.kinds[1].size = 0

hasFlexibleArray(t) ==
    isStructLike(t) /\ Fields(t) # <<>> /\ isIncompleteArrayType(Last(Fields(t)).type)

(* "Dimension of pointer is too big" (of a parameter or a global). *)
tooManyPointers(t, usage) ==
    usage # "RETURN" /\ Cardinality({i \in DOMAIN t.kinds : t.kinds[i].is = "pointer"}) > 2

(* Pointers in a structure are not followed, which ends the recursion. *)
RECURSIVE isSupportedType(_, _)
isSupportedType(t, usage) ==
    /\ ~ isUnknown(t) /\ ~ hasFlexibleArray(t) /\ ~ tooManyPointers(t, usage)
    /\ isStructLike(t) => \A f \in ToSet(Fields(t)) :
                              Outer(f.type) = "pointer" \/ isSupportedType(f.type, usage)
    /\ Outer(t) \in {"array", "pointer"} => isSupportedType(baseTypeObj(t), usage)

(* FeaturesFilter.filterGlobalParameters *)
isSupportedGlobal(t) ==
    /\ isSupportedType(t, "PARAMETER")
    /\ Outer(baseTypeObj(t)) # "function" /\ ~ isVoid(baseTypeObj(t))
    /\ ~ isIncompleteArrayType(t) /\ ~ (Outer(t) = "array" /\ Outer(elementType(t)) = "pointer")
=============================================================================
