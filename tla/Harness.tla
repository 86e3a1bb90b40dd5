------------------------------ MODULE Harness ------------------------------
(***************************************************************************)
(* The three texts that have to agree about one function: the harness KLEE *)
(* runs (KleePrinter), the reading of what KLEE found (Tests.cpp) and the  *)
(* test (TestsPrinter, in both of its forms).  Each decides for itself,    *)
(* from the type of an argument, in which variable and in how many         *)
(* elements it is communicated, and what is compared after the call.       *)
(*                                                                         *)
(* Constructors, predicates on the result, stubs of parameters and the     *)
(* path flag are left out.                                                 *)
(***************************************************************************)
EXTENDS Visitors

(* A method has `params`, `globals` and at most one `object` (sequences of *)
(* [name, type]) and a returnType.                                         *)
CONSTANT Methods

ASSUME MethodsAssumption ==
    \A m \in Methods :
        /\ Len(m.object) <= 1
        /\ \A p \in ToSet(m.params) : Outer(p.type) # "array"
        /\ \A g \in ToSet(m.globals) : g.type.maybeArray

VARIABLES method, stage,
          symbolic,   \* objects made symbolic, [name, sizes]
          assumed,    \* what the harness assumes to be equal, [of, is]
          error,      \* the path: it ends inside the function;
          null, lazy, \* the function returns NULL; parameters with lazy objects
          views,      \* the values of a test case, [name, sizes]
          variables,  \* of the text written last, [name, kinds, base, value]
          arguments,  \* of its call, [name, address, cast, moved]
          compared    \* the assertions of the test, [of, is]

harnessVars == <<method, stage, symbolic, assumed, error, null, lazy, views, variables, arguments, compared>>
-----------------------------------------------------------------------------
(* Tests.h.  A pointer to pointers is built from the array `_p`. *)
In(p) == <<"", p.name>>
Post(p) == <<"post", p.name>>
Expected(p) == <<"expected", p.name>>
Result == [name |-> "result"]
NotNull == [name |-> "not null"]

dataVariableName(p) == IF isTwoDimensionalPointer(p.type) THEN <<"_", p.name>> ELSE In(p)

isChangeable(p) ==
    /\ Outer(p.type) = "pointer" \/ p.type.ref = "lvalue"
    /\ ~ isFilePointer(p.type) /\ ~ p.type.const /\ ~ BaseIsVoid(p.type)
    /\ \A k \in ToSet(p.type.kinds) : k.is # "function"

(* Mutant of AddressOf: pointers taken for arrays are dereferenced too. *)
AddressOfAny(t) == Outer(t) = "pointer" /\ ~ isFilePointer(t) /\ Len(t.kinds) < 3

(* A single object is declared as such, and its address is passed. *)
AddressOf(t) == maybeJustPointer(t) /\ ~ isFilePointer(t)

getFunctionParamDecl(p) ==
    LET toVoid == isTwoDimensionalPointer(p.type) /\ BaseIsVoid(p.type)
        moved == ~ toVoid /\ p.type.ref = "rvalue"
    IN  [name |-> In(p), cast |-> toVoid, moved |-> moved,
         address |-> ~ toVoid /\ ~ moved /\ AddressOf(p.type)]

(* Printer.cpp.  A variable without value is not from the test case. *)
Variable(name, kinds, base, value) == [name |-> name, kinds |-> kinds, base |-> base, value |-> value]
Bytes(t) == IF BaseIsVoid(t) THEN "uchar" ELSE t.base
Extents(sizes) == [i \in DOMAIN sizes |-> ArrayOf(sizes[i])]

strDeclareArrayOfFunctionPointerVar(t) == <<ArrayOf(OneDim("PARAMETER"))>> \o Tail(t.kinds)

gen2DPointer(p) ==
    IF isTwoDimensionalPointer(p.type) THEN {Variable(In(p), p.type.kinds, Bytes(p.type), {})} ELSE {}

FileVariables ==
    {Variable(In(p), p.type.kinds, p.type.base, {}) :
        p \in {p \in ToSet(method.params) : isFilePointer(p.type)}}
-----------------------------------------------------------------------------
(* KleePrinter.cpp *)
genPointerParamDeclaration(t) ==
    LET sizes == IF Len(pointerArrayKinds(t)) > 1 THEN arraysSizes(t, "PARAMETER")
                 ELSE IF maybeJustPointer(t) THEN <<>> ELSE <<OneDim("PARAMETER")>>
    IN  Extents(sizes) \o <<Kind("simple")>>

genParamDeclaration(t) ==
    CASE Outer(t) \in {"function", "array", "simple"} -> t.kinds
      [] isArrayOfPointersToFunction(t) -> strDeclareArrayOfFunctionPointerVar(t)
      [] OTHER -> genPointerParamDeclaration(t)

Sizes(kinds) == [i \in 1 .. (Len(kinds) - 1) |-> kinds[i].size]
Symbolic(name, kinds) == [name |-> name, sizes |-> Sizes(kinds)]

isFunctionPointer(p) == Outer(p.type) = "function" \/ isArrayOfPointersToFunction(p.type)
Inputs == ToSet(method.object) \cup {p \in ToSet(method.params) : ~ isFilePointer(p.type)}
Changed == ToSet(method.object) \cup {p \in Inputs : isChangeable(p)}
Globals == ToSet(method.globals)

(* Only the first element of a global pointer is looked at afterwards. *)
getKleeGlobalPostParam(t) == IF Outer(t) = "pointer" THEN baseTypeObj(t) ELSE t

genReturnDeclaration(t) ==
    IF skipTypeInReturn(t) THEN {}
    ELSE {[name |-> In(Result), sizes |-> IF maybeReturnArray(t) THEN <<OneDim("RETURN")>> ELSE <<>>]}
           \cup (IF Outer(t) = "pointer" THEN {[name |-> In(NotNull), sizes |-> <<>>]} ELSE {})

MadeSymbolic ==
    {Symbolic(In(p), genParamDeclaration(p.type)) : p \in {p \in Inputs : ~ isFunctionPointer(p)}}
    \cup {Symbolic(In(g), genParamDeclaration(g.type)) : g \in Globals}
    \cup {Symbolic(Post(p), genParamDeclaration(p.type)) : p \in Changed}
    \cup {Symbolic(Post(g), genParamDeclaration(getKleeGlobalPostParam(g.type))) : g \in Globals}
    \cup genReturnDeclaration(method.returnType)

HarnessVariables ==
    {Variable(dataVariableName(p), genParamDeclaration(p.type), Bytes(p.type), {}) : p \in Inputs}
    \cup UNION {gen2DPointer(p) : p \in Inputs} \cup FileVariables

Equal(of, is) == [of |-> of, is |-> is]
EqualAll(elements, is) == {Equal(e, is) : e \in elements}
Call == <<"call", "">>

AssumeParam(p) ==
    EqualAll(AssumedElements(arrayCloneMultiDim(p.type), Element(dataVariableName(p), 0), 0), Post(p))

AssumeGlobal(g) == EqualAll(AssumedElements(g.type, Element(In(g), 0), 0), Post(g))

AssumeReturn(t) ==
    IF skipTypeInReturn(t) THEN {}
    ELSE EqualAll(AssumedResult(IF maybeReturnArray(t) THEN arrayClone(t, "RETURN") ELSE baseTypeObj(t),
                                Element(Call, countReturnPointers(t, FALSE)), 0), In(Result))

(* genOpenFiles: KLEE provides the files A, B and C (of a function in C). *)
SymFilesCount == 3
TooManyFiles == Len(SelectSeq(method.params, LAMBDA p : isFilePointer(p.type))) > SymFilesCount
-----------------------------------------------------------------------------
(* FeaturesFilter: what is not supported has no harness. *)
Filtered(m) == [m EXCEPT !.globals = SelectSeq(@, LAMBDA g : isSupportedGlobal(g.type))]
Supported ==
    {Filtered(m) : m \in {m \in Methods :
        /\ isSupportedType(m.returnType, "RETURN")
        /\ \A p \in ToSet(m.params) : isSupportedType(p.type, "PARAMETER")}}

HarnessInit ==
    /\ method \in Supported /\ stage = "fetched"
    /\ symbolic = {} /\ assumed = {} /\ error = FALSE /\ null = FALSE /\ lazy = {} /\ views = {}
    /\ variables = {} /\ arguments = <<>> /\ compared = {}

(* writeTestedFunction *)
WriteTestedFunction ==
    /\ stage = "fetched" /\ ~ TooManyFiles /\ stage' = "written"
    /\ symbolic' = MadeSymbolic
    /\ assumed' = UNION {AssumeParam(p) : p \in Changed} \cup UNION {AssumeGlobal(g) : g \in Globals}
                    \cup AssumeReturn(method.returnType)
    /\ variables' = HarnessVariables
    /\ arguments' = [i \in DOMAIN method.params |-> getFunctionParamDecl(method.params[i])]
    /\ UNCHANGED <<method, error, null, lazy, views, compared>>

(* UnImplementedException: there is no harness for this function. *)
NotWritten ==
    /\ stage = "fetched" /\ TooManyFiles /\ stage' = "unimplemented"
    /\ UNCHANGED <<method, symbolic, assumed, error, null, lazy, views, variables, arguments, compared>>

(* KLEE follows a path.  A path that ends in an error does not come to the     *)
(* assumptions, and nothing is assumed about a result that is NULL.            *)
Explore ==
    /\ stage = "written" /\ stage' = "explored"
    /\ error' \in BOOLEAN
    /\ null' \in IF ~ error' /\ Outer(method.returnType) = "pointer" /\ ~ skipTypeInReturn(method.returnType)
                 THEN BOOLEAN ELSE {FALSE}
    /\ lazy' \in SUBSET {p.name : p \in {p \in Inputs : p.type.base \in DOMAIN Records}}
    /\ assumed' = {a \in assumed : ~ error' /\ (null' => a.is # In(Result))}
    /\ UNCHANGED <<method, symbolic, views, variables, arguments, compared>>
-----------------------------------------------------------------------------
(* parseTestCaseParams: what is looked for, and the type it is read as. *)
ParamView(p) == getReturnTypeToCheck(arrayCloneMultiDim(p.type))

Asked ==
    LET t == method.returnType
        ask(name, type) == [name |-> name, type |-> type]
    IN  {ask(In(p), ParamView(p)) : p \in {p \in Inputs : ~ isFunctionPointer(p)}}
        \cup {ask(Post(p), ParamView(p)) : p \in Changed}
        \cup {ask(In(g), g.type) : g \in Globals}
        \cup {ask(Post(g), getReturnTypeToCheck(g.type)) : g \in Globals}
        \cup (IF skipTypeInReturn(t) THEN {}
              ELSE {ask(In(Result), IF maybeReturnArray(t) THEN t ELSE baseTypeObj(t))})

(* testParameterView: one dimension is as long as the object. *)
ViewSizes(t, object) ==
    IF Outer(t) = "simple" THEN <<>>
    ELSE IF Len(t.kinds) > 2 THEN arraysSizes(t, "PARAMETER") ELSE object.sizes

(* parseTestCases: NULL is not looked for where an array is expected. *)
NullView == null /\ ~ method.returnType.maybeArray

(* getKleeParamOrThrow: without one of its objects a test case is skipped. *)
ParseTestCaseParams ==
    /\ stage = "explored"
    /\ IF \A a \in Asked : \E s \in symbolic : s.name = a.name
       THEN /\ stage' = "parsed"
            /\ views' = {[name |-> a.name,
                          sizes |-> ViewSizes(a.type, CHOOSE s \in symbolic : s.name = a.name)] : a \in Asked}
       ELSE stage' = "skipped" /\ UNCHANGED views
    /\ UNCHANGED <<method, symbolic, assumed, error, null, lazy, variables, arguments, compared>>
-----------------------------------------------------------------------------
(* TestsPrinter.cpp *)
printPointerParameter(p) ==
    LET t == p.type
        sizes == arraysSizes(t, "PARAMETER")
        array(name) == {Variable(name, Extents(sizes) \o <<Kind("simple")>>, Bytes(t), {In(p)})}
    IN  IF isArrayOfPointersToFunction(t)
        THEN {Variable(In(p), strDeclareArrayOfFunctionPointerVar(t), t.base, {})}
        ELSE IF isCStringType(t) THEN array(In(p))
        ELSE IF isFilePointer(t) \/ Outer(t) \in {"simple", "function"} THEN {}
        ELSE IF maybeJustPointer(t) THEN {Variable(In(p), <<Kind("simple")>>, Bytes(t), {In(p)})}
        ELSE array(dataVariableName(p))

verboseParameter(p) ==
    Variable(In(p), p.type.kinds, p.type.base, IF isFunctionPointer(p) THEN {} ELSE {In(p)})

printFunctionParameters(form) ==
    LET named(p) == \/ form = "verbose" /\ Outer(p.type) \in {"simple", "function"}
                    \/ p.type.ref = "lvalue"
                    \/ Outer(p.type) = "simple" /\ p.name \in lazy /\ ~ isChangeable(p)
    IN  UNION {printPointerParameter(p) \cup gen2DPointer(p) : p \in ToSet(method.params)}
        \cup {verboseParameter(p) : p \in {p \in ToSet(method.params) : named(p)}}
        \cup {verboseParameter(p) : p \in ToSet(method.object)}

(* A global is assigned from a buffer; verboseParameters has `_g` for gen2DPointer. *)
InitializeGlobal(g, form) ==
    LET prefix == IF form = "verbose" /\ isTwoDimensionalPointer(g.type) THEN "_" ELSE "buffer"
    IN  Variable(<<prefix, g.name>>, Extents(arraysSizes(g.type, "PARAMETER")) \o <<Kind("simple")>>,
                 g.type.base, {In(g)})

ExpectedVariables ==
    LET t == method.returnType
        type == IF maybeReturnArray(t) THEN arrayClone(t, "RETURN") ELSE getReturnTypeToCheck(t)
        expected(p, type_) == Variable(Expected(p), type_.kinds, type_.base, {Post(p)})
    IN  {expected(p, arrayCloneMultiDim(p.type)) : p \in Changed}
        \cup {expected(g, getReturnTypeToCheck(g.type)) : g \in Globals}
        \cup (IF skipTypeInReturn(t) \/ NullView THEN {}
              ELSE {Variable(Expected(Result), type.kinds, type.base, {In(Result)})})

AssertParam(p) ==
    EqualAll(AssertedElements(arrayCloneMultiDim(p.type), Element(dataVariableName(p), 0), 0), Expected(p))

(* Mutant of AssertGlobal: pointers to pointers are dereferenced once. *)
AssertGlobalOnce(g) ==
    EqualAll({[e EXCEPT !.stars = IF @ > 1 THEN 1 ELSE @] : e \in AssertedElements(g.type, Element(In(g), 0), 0)},
             Expected(g))

AssertGlobal(g) == EqualAll(AssertedElements(g.type, Element(In(g), 0), 0), Expected(g))

(* Of `actual`, which is declared as what the call returns, dereferenced. *)
AssertReturn(t, form) ==
    LET type == IF maybeReturnArray(t) THEN arrayClone(t, "RETURN") ELSE t
        actual == Element(Call, countReturnPointers(t, TRUE))
    IN  IF skipTypeInReturn(t) \/ NullView THEN {}
        ELSE EqualAll(IF form = "parametrized" THEN AssertedInPlace(type, actual, 0)
                      ELSE AssertedResult(IF Outer(type) = "array" THEN type ELSE baseTypeObj(t), actual, 0),
                      Expected(Result))

(* methodParametersListParametrized: a value is written where it is passed. *)
InPlace == [name |-> <<"value", "">>, address |-> FALSE, cast |-> FALSE, moved |-> TRUE]

ArgumentParametrized(p) ==
    LET t == p.type
        toVoid == isTwoDimensionalPointer(t) /\ BaseIsVoid(t)
        variable == [name |-> In(p), cast |-> toVoid, moved |-> FALSE, address |-> ~ toVoid /\ AddressOf(t)]
    IN  IF Outer(t) = "pointer" \/ t.ref = "lvalue" \/ p.name \in lazy THEN variable ELSE InPlace

(* genVerboseTestCase, genParametrizedTestCase: after an error nothing is compared. *)
WriteTestCase(form) ==
    /\ stage = "parsed" /\ stage' = form
    /\ variables' = {InitializeGlobal(g, form) : g \in Globals} \cup FileVariables
                      \cup printFunctionParameters(form) \cup (IF error THEN {} ELSE ExpectedVariables)
    /\ arguments' = [i \in DOMAIN method.params |->
                        IF form = "verbose" THEN getFunctionParamDecl(method.params[i])
                        ELSE ArgumentParametrized(method.params[i])]
    /\ compared' = IF error THEN {}
                   ELSE UNION {AssertParam(p) : p \in Changed} \cup UNION {AssertGlobal(g) : g \in Globals}
                          \cup AssertReturn(method.returnType, form)
    /\ UNCHANGED <<method, symbolic, assumed, error, null, lazy, views>>
-----------------------------------------------------------------------------
Understood ==
    /\ stage # "skipped"
    /\ \A v \in views : \E s \in symbolic : s = v

(* A variable has the extents of the value it is initialised with. *)
VariablesFit ==
    stage \in {"verbose", "parametrized"} =>
        \A v \in variables : \A n \in v.value : [name |-> n, sizes |-> Sizes(v.kinds)] \in views

(* An expression has the type of the parameter; arrays decay. *)
Decayed(kinds) == IF kinds[1].is = "array" THEN <<Kind("pointer")>> \o Tail(kinds) ELSE kinds

Fits(a, p) ==
    \/ a = InPlace /\ Outer(p.type) \in {"simple", "function"} /\ p.type.ref # "lvalue"
    \/ /\ Cardinality({v \in variables : v.name = a.name}) = 1
       /\ \E v \in variables :
            /\ v.name = a.name
            /\ p.type.kinds = IF a.address THEN <<Kind("pointer")>> \o v.kinds ELSE Decayed(v.kinds)
            /\ v.base = p.type.base \/ a.cast \/ (BaseIsVoid(p.type) /\ Len(p.type.kinds) = 2)
       /\ a.moved = (p.type.ref = "rvalue")

ArgumentsFit == \A i \in DOMAIN arguments : Fits(arguments[i], method.params[i])

(* Members that are given a stub, and those a stub is declared for. *)
StubsDeclared ==
    LET given == ToSet(method.params) \cup Globals
        types == {p.type : p \in {p \in given : ~ isFilePointer(p.type)}}
    IN  UNION {GivenStubs(t, 0) : t \in types} \subseteq DeclaredStubs(types \cup {method.returnType})

(***************************************************************************)
(* Harness, reader and test agree on every argument: all that is read from *)
(* a test case was made symbolic by the harness in the same number of      *)
(* elements, so that no case is dropped or read short; every variable of   *)
(* the test has the extents of its value; what is passed to the function   *)
(* in the harness and in both forms of the test is declared once and has   *)
(* the type of the parameter; and a member of a structure that the harness *)
(* makes point to a stub has its stub.                                     *)
(***************************************************************************)
ValuesFit == Understood /\ VariablesFit /\ ArgumentsFit /\ StubsDeclared

(* Of a union that is returned nothing is compared, and the parametrized   *)
(* form does not look into structures.                                     *)
RECURSIVE holdsUnion(_)
holdsUnion(t) ==
    isStructLike(t) /\ (Records[t.base].union \/ \E f \in ToSet(Fields(t)) :
                            ~ isTypeContainsPointer(f.type) /\ holdsUnion(baseTypeObj(f.type)))

ResultUnchecked ==
    LET t == baseTypeObj(method.returnType)
    IN  holdsUnion(t) \/ (stage = "parametrized" /\ isStructLike(t))

(***************************************************************************)
(* A test compares after the call exactly the elements whose final values  *)
(* the harness bound to the symbolic variables that the expected values    *)
(* are taken from, down to the members of structures: nothing is compared  *)
(* with a value the solver was free to choose, and nothing that was        *)
(* recorded goes unchecked.  (A NULL that is returned where an array is    *)
(* expected is not recognised.)                                            *)
(***************************************************************************)
ComparedAsAssumed ==
    stage \in {"verbose", "parametrized"} /\ (null => NullView) =>
        LET checked == UNION {{Equal(c.of, n) : n \in v.value} :
                                  <<c, v>> \in {<<c, v>> \in compared \X variables : v.name = c.is}}
        IN  /\ checked \subseteq assumed
            /\ \A a \in assumed \ checked : a.is = In(Result) /\ ResultUnchecked
=============================================================================
