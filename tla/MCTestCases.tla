---------------------------- MODULE MCTestCases ----------------------------
(***************************************************************************)
(* Functions with every supported shape of arguments, two at a time.       *)
(* Left out are the shapes whose tests do not compile or crash: returned   *)
(* void ** and pointers to arrays, arrays of structures in the             *)
(* parametrized form, structures with a pointer to an array; global        *)
(* pointers to arrays, references to pointers, rvalue references to        *)
(* structures with lazy objects.                                           *)
(***************************************************************************)
EXTENDS TestCases, MCKTest

Simple == Kind("simple")
Pointer == Kind("pointer")
Function == Kind("function")

Value(base) ==
    [kinds |-> <<Simple>>, base |-> base, const |-> FALSE, ref |-> "none", maybeArray |-> FALSE]
Of(kinds, base) == [Value(base) EXCEPT !.kinds = kinds \o @]
Const(t) == [t EXCEPT !.const = TRUE]
Ref(t, ref) == [t EXCEPT !.ref = ref]
Array(t) == [t EXCEPT !.maybeArray = TRUE]

One == <<Pointer>>
Two == <<Pointer, Pointer>>
Callback == [Value("int") EXCEPT !.kinds = <<Function, Simple, Simple>>]
Callbacks == [Value("int") EXCEPT !.kinds = <<Pointer>> \o Callback.kinds]
File == Of(One, "FILE")

Has(name, t) == [name |-> name, type |-> t]
Record(union, fields) == [union |-> union, fields |-> fields]
MCRecords ==
    [struct   |-> Record(FALSE, <<Has("number", Value("int")), Has("next", Of(One, "struct")),
                                  Has("text", Of(One, "char")), Has("call", Callback),
                                  Has("names", Of(<<ArrayOf(2), Pointer>>, "char")),
                                  Has("grid", Of(<<ArrayOf(2), ArrayOf(3)>>, "int")),
                                  Has("points", Of(<<ArrayOf(2)>>, "point")), Has("", Value("either"))>>),
     point    |-> Record(FALSE, <<Has("x", Value("int")), Has("y", Value("int")), Has("hook", Callbacks),
                                  Has("anything", Of(Two, "void"))>>),
     either   |-> Record(TRUE, <<Has("whole", Value("int")), Has("half", Of(<<ArrayOf(2)>>, "int"))>>),
     row      |-> Record(FALSE, <<Has("row", Of(<<Pointer, ArrayOf(3)>>, "int")), Has("length", Value("int"))>>),
     flexible |-> Record(FALSE, <<Has("size", Value("int")), Has("data", Of(<<ArrayOf(0)>>, "int"))>>),
     holder   |-> Record(FALSE, <<Has("inner", Value("flexible"))>>)]

ParamTypes ==
    {Value("int"), Value("struct"), Value("either"), Of(One, "row"), Value("holder"), Value("unknown"),
     Of(<<Pointer, Pointer, Pointer>>, "int"), Of(One, "holder"), Ref(Value("int"), "lvalue"), Ref(Value("struct"), "lvalue"),
     Ref(Const(Value("struct")), "lvalue"), Ref(Value("int"), "rvalue"),
     Of(One, "int"), Array(Of(One, "int")), Const(Of(One, "int")), Of(One, "struct"),
     Array(Of(One, "char")), Array(Const(Of(One, "char"))), Of(One, "void"), Array(Of(One, "void")),
     Of(Two, "int"), Array(Of(Two, "struct")), Const(Of(Two, "char")), Of(Two, "void"),
     Of(<<Pointer, ArrayOf(3)>>, "int"), Callback, Callbacks, File}

GlobalTypes ==
    {Array(t) : t \in {Value("int"), Value("struct"), Of(<<ArrayOf(3)>>, "int"), Of(One, "int"), Of(One, "char"),
                       Of(<<ArrayOf(2), ArrayOf(3)>>, "int"), Of(Two, "int"), Of(<<ArrayOf(2)>>, "point"),
                       Of(<<ArrayOf(2), Pointer>>, "int"), Of(One, "void"), Callbacks}}

ReturnTypes ==
    {Value("int"), Value("struct"), Value("point"), Of(One, "point"), Of(One, "either"), Of(One, "holder"), Value("void"), Of(One, "int"), Array(Of(One, "int")), Const(Of(One, "char")),
     Array(Of(One, "char")), Of(One, "void"), Array(Of(One, "void")), Of(Two, "int"), Array(Of(Two, "int")),
     Callback, Callbacks}

Names == <<"p", "q", "r", "s">>
Named(ts) == [i \in DOMAIN ts |-> [name |-> Names[i], type |-> ts[i]]]
Global(t) == [name |-> "g", type |-> t]
Object1 == <<[name |-> "obj", type |-> Value("struct")]>>
Method(object, params, globals, returnType) ==
    [object |-> object, params |-> Named(params), globals |-> globals, returnType |-> returnType]

MCMethods ==
    {Method(<<>>, <<t, u>>, <<>>, Value("int")) : t \in ParamTypes, u \in ParamTypes}
    \cup {Method(<<>>, <<t>>, <<Global(g)>>, Value("void")) : t \in ParamTypes, g \in GlobalTypes}
    \cup {Method(object, <<Of(One, "int")>>, <<>>, r) : object \in {<<>>, Object1}, r \in ReturnTypes}
    \cup {Method(<<>>, <<File, File, File, File>>, <<>>, Value("int"))}

(* The objects of a path and the shapes of arguments are varied in turn. *)
AMethod == Method(<<>>, <<Value("int"), Of(One, "int")>>, <<>>, Value("int"))
AKTest == [params |-> Param("gap"), objects |-> <<Object(FALSE, Zeros(4), <<>>)>>]

Small == {"char", "signed char", "unsigned char", "utbot_byte"}
MCWidth ==
    [t \in Primitives |->
        IF t = "bool" THEN 1 ELSE IF t \in Small THEN 8 ELSE IF t \in {"short", "unsigned short"} THEN 9
        ELSE IF t \in {"int", "unsigned int"} THEN 10 ELSE 12]

(* Characters that mean something in a literal, and their neighbours. *)
Marks == {7, 10, Quote, Apostrophe, 48, 63, Backslash, 97, 120, 122}
Strings(chars, n) == UNION {[1 .. k -> chars] : k \in 0 .. n}
Edges(t) ==
    UNION {{n - 1, n, n + 1} : n \in {- 2 ^ Width[t], - 2 ^ (Width[t] - 1), 0, 2 ^ (Width[t] - 1), 2 ^ Width[t]}}
(***************************************************************************)
(* Sources.  Types within types, whose members are named; variables that   *)
(* are declared once or twice, and functions that use them.  Left out are   *)
(* the shapes section 4 of the README names: what has no name within a      *)
(* type that is named by a typedef or by a type around it, arrays of what   *)
(* has no name; parameters without a name, named as the function or as an   *)
(* operator; functions without parameters that return more than a value.    *)
(***************************************************************************)
Tag(i, parent, name, typedef, member) ==
    [is |-> "tag", kind |-> "struct", name |-> name, typedef |-> typedef, parent |-> parent,
     member |-> member, array |-> FALSE]
TypeNames == <<"A", "B", "C", "D">>
AliasNames == <<"a_t", "b_t", "c_t", "d_t">>
MemberNames == <<"a", "b", "c", "d">>
TagsAt(i) ==
    {Tag(i, 0, TypeNames[i], "", ""), Tag(i, 0, "", AliasNames[i], ""), Tag(i, 0, TypeNames[i], AliasNames[i], "")}
    \cup {Tag(i, p, TypeNames[i], "", MemberNames[i]) : p \in 1 .. (i - 1)}
    \cup {Tag(i, p, "", "", MemberNames[i]) : p \in 1 .. (i - 1)}
    \cup {Tag(i, p, "", "", "") : p \in 1 .. (i - 1)}
NamedAround(s, i) ==
    LET p == s[i].parent
    IN  p = 0 \/ (IF s[i].name # "" THEN ~ isAnonymous(s[p])
                  ELSE s[i].member = "" \/ NamedByMember(s[p]) \/ (s[p].parent = 0 /\ s[p].name # ""))
TypeSources ==
    {s \in {<<a, b, c, d>> : a \in TagsAt(1), b \in TagsAt(2), c \in TagsAt(3), d \in TagsAt(4)} :
        \A i \in DOMAIN s : NamedAround(s, i)}

Declares(name, storage, defines, constant, type) ==
    [is |-> "variable", name |-> name, storage |-> storage, defines |-> defines, constant |-> constant, type |-> type]
Globals1 ==
    {Declares(n, st, st # "extern", c, t) :
        n \in {"g", "new"}, st \in {"none", "static", "extern"}, c \in BOOLEAN,
        t \in {"plain", "callback", "unnamed", "incomplete"}}
Globals2 ==
    {<<g>> : g \in Globals1}
    \cup {<<g, [g EXCEPT !.storage = st, !.defines = st # "extern"]>> :
              g \in {x \in Globals1 : x.storage # "static"}, st \in {"none", "extern"}}
Defines(name, storage, inline, params, prototype, returns, uses) ==
    [is |-> "function", name |-> name, storage |-> storage, inline |-> inline, params |-> params,
     prototype |-> prototype, returns |-> returns, uses |-> uses]
FunctionSources ==
    {Defines(f, st, i, p, k, r, u) :
        f \in {"f", "class"}, st \in {"none", "static", "extern"}, i \in BOOLEAN,
        p \in {<<>>, <<"x">>, <<"new", "x">>, <<"">>}, k \in BOOLEAN, r \in {"value", "callback", "unnamed enum"},
        u \in {{}, {"g", "new"}}}
Printable(f) ==
    IF isPlainInline(f) THEN "" \in ToSet(f.params) => f.uses = {}
    ELSE isPrinted(f) /\ "" \notin ToSet(f.params)
AnotherFunction == Defines("other", "static", FALSE, <<"x">>, TRUE, "value", {"g"})
MCSources ==
    TypeSources
    \cup {g \o <<AnotherFunction, f>> : g \in Globals2, f \in {h \in FunctionSources : Printable(h)}}

(***************************************************************************)
(* Projects of two sources that have names in common; one of them may be    *)
(* read for a stub.  Left out are the projects section 4 of the README      *)
(* names: types of one name and file with two layouts, or local to a        *)
(* function and not; callbacks in a shared header or in the first structure *)
(* of a source; a variable and a function of the same names in two sources, *)
(* or used by a function that is not fetched or lies in a namespace;        *)
(* numbers of variables that coincide.                                      *)
(***************************************************************************)
Type(kind, name, text, in, defines, local, callbacks) ==
    [is |-> "type", kind |-> kind, name |-> name, text |-> text, in |-> in, defines |-> defines, local |-> local,
     layout |-> in, alignment |-> IF in = "b.c" THEN 32 ELSE 8, callbacks |-> callbacks]
TypesIn(file) ==
    {Type("struct", "S", "struct S", file, TRUE, FALSE, c) : c \in {{}, {"S"}, {"T"}}}
    \cup {Type("struct", "T", "struct T", in, d, FALSE, {}) : in \in {file, "h.h"}, d \in BOOLEAN}
    \cup {Type("enum", "E", "enum E", file, TRUE, FALSE, {}), Type("union", "U", "union U", file, TRUE, FALSE, {}),
          Type("struct", "", "struct at 1", file, TRUE, FALSE, {}), Type("struct", "L", "struct L", file, TRUE, TRUE, {}),
          Type("class", "Test", "class Test", "gtest.h", TRUE, FALSE, {})}
NodesOf(file, n) ==
    {nodes \in UNION {[1 .. k -> TypesIn(file)] : k \in 0 .. n} :
        /\ \A i, j \in DOMAIN nodes : nodes[i].defines /\ nodes[j].defines /\ nodes[i].text = nodes[j].text => i = j
        /\ \A i \in DOMAIN nodes : nodes[i].callbacks # {} => \E j \in 1 .. (i - 1) : nodes[j].kind = "struct"}
From(file, nodes) == [file |-> file, nodes |-> nodes]
Project(tested, others) == [tested |-> tested, others |-> others]

Function2(name, scope, params, returns, globals, template) ==
    [is |-> "function", name |-> name, scope |-> scope, returns |-> returns, globals |-> globals, template |-> template,
     params |-> [i \in DOMAIN params |-> [name |-> <<"p", "new">>[i], type |-> params[i], alignment |-> 0]]]
Unnamed(f) == [f EXCEPT !.params[1].name = ""]
Returns(v) == [is |-> "return", variable |-> v]
Subscript(f, v, index) == [is |-> "subscript", function |-> f, variable |-> v, index |-> index]
UpToTwo(S) == UNION {[1 .. n -> S] : n \in 0 .. 2}
ParamsOfFunctions == UpToTwo({"value", "string", "pointer", "void pointer", "callback", "callbacks"})
StatementsIn(f, params) == (* the variables are the parameters and one more *)
    {Returns(v) : v \in 1 .. 3} \cup {Subscript(f, v, v % 3) : v \in (DOMAIN params) \cup {3}}
OtherSource(more) ==
    From("b.c", <<Type("struct", "S", "struct S", "b.c", TRUE, FALSE, {}),
                  Function2("other", "", <<"void pointer">>, "value", <<"g">>, FALSE)>> \o more)
MoreFunctions ==
    {<<Function2("f", "", <<"pointer">>, "pointer", <<>>, FALSE), Returns(4), Subscript("f", 5, 1)>>,
     <<Function2("f", "ns", <<"value">>, "value", <<>>, FALSE)>>, <<Function2("t", "", <<"value">>, "value", <<>>, TRUE)>>,
     <<Unnamed(Function2("u", "", <<"pointer">>, "value", <<>>, FALSE)), Subscript("u", 5, 1)>>}
Alone(nodes) == {Project(<<From("a.c", x)>>, <<>>) : x \in nodes}
TypesOfTwo ==
    UNION {{Project(<<From("a.c", x), From("b.c", y)>>, <<>>), Project(<<From("a.c", x)>>, <<From("b.c", y)>>)} : x \in NodesOf("a.c", 2), y \in NodesOf("b.c", 1)}
FunctionsOfTwo ==
    {Project(<<From("a.c", <<Function2("f", "", params, returns, globals, FALSE)>>), OtherSource(more)>>, <<>>) :
        params \in ParamsOfFunctions, returns \in {"value", "pointer", "callback"},
        globals \in {<<>>, <<"g", "h">>}, more \in MoreFunctions}
ArraysOfTwo ==
    UNION {{Project(<<From("a.c", <<Function2("f", "", params, returns, <<>>, FALSE)>> \o body), OtherSource(<<>>)>>, <<>>) :
              returns \in {"value", "pointer"}, body \in [1 .. 2 -> StatementsIn("f", params)]} : params \in UpToTwo({"value", "string", "pointer"})}
MCProjects == <<Alone(NodesOf("a.c", 3)), TypesOfTwo, FunctionsOfTwo, ArraysOfTwo>>

(* Tests of KLEE: every short stack; and every mix of two methods. *)
Left(early, parsed, suffix, stack, info) ==
    [early |-> early, parsed |-> parsed, error |-> suffix, stack |-> stack, info |-> info]
Calls(places) == [n \in DOMAIN places |-> [in |-> places[n], line |-> n]]
FileOf(name, methods, forAssert) == [name |-> name, methods |-> methods, forAssert |-> forAssert]
Stacks == {Calls(places) : places \in UNION {[1 .. n -> {"project", "build", "outside"}] : n \in 1 .. 4}}
Tests ==
    {Left(FALSE, TRUE, "", <<>>, FALSE), Left(TRUE, TRUE, "", <<>>, FALSE), Left(FALSE, TRUE, "external", <<>>, FALSE),
     Left(FALSE, FALSE, "ptr", Calls(<<"project">>), TRUE), Left(FALSE, TRUE, "ptr", Calls(<<"project">>), TRUE),
     Left(FALSE, TRUE, "assert", Calls(<<"outside", "project">>), FALSE),
     Left(FALSE, TRUE, "ptr", Calls(<<"build", "outside">>), FALSE)}
TestsOfAMethod == UNION {[1 .. n -> Tests] : n \in 0 .. 2}
MCRequests ==
    {<<FileOf("a.c", <<<<Left(FALSE, TRUE, suffix, stack, info)>>>>, FALSE)>> :
        suffix \in {"assert", "ptr"}, stack \in Stacks, info \in BOOLEAN}
    \cup {<<FileOf("a.c", <<x, y>>, assert)>> : x \in TestsOfAMethod, y \in TestsOfAMethod, assert \in BOOLEAN}
    \cup {<<FileOf("a.c", <<<<x, y>>>>, FALSE), FileOf("b.c", <<<<y>>, <<x>>>>, FALSE)>> : x \in Tests, y \in Tests}

(* Functions of one statement per line, with and without brackets.  Left    *)
(* out is what section 4 of the README names: a do without brackets.         *)
Block(head, body) == <<head \o <<"{">>>> \o body \o <<<<"}">>>>
Simples == {<<<<"simple">>>>, <<<<"return">>>>}
Within(bodies, blocks) ==
    {Block(<<is>>, b) : is \in {"if", "while", "do"}, b \in blocks}
    \cup {<<<<is>>>> \o b : is \in {"if", "while"}, b \in bodies}
    \cup {<<<<"if", "{">>>> \o b \o <<<<"}", "else", "{">>>> \o c \o <<<<"}">>>> : b \in blocks, c \in bodies}
    \cup {<<<<"if">>>> \o b \o <<<<"else">>>> \o c : b \in bodies, c \in bodies}
Depth1 == Simples \cup Within(Simples, Simples \cup {a \o b : a \in Simples, b \in Simples})
MCTexts == {Block(<<>>, s \o <<<<"simple">>>>) : s \in Depth1 \cup Within(Depth1, Depth1)}

(* Classes beside and within each other, as they are matched. *)
Places == (1 .. 3) \X (1 .. 2)
Class == {c \in Places \X Places : AtMost(c[1], c[2]) /\ c[1] # c[2]}
Apart(c, d) == AtMost(c[2], d[1]) /\ c[2] # d[1]
MCClasses ==
    {cs \in UNION {[1 .. n -> Class] : n \in 0 .. 3} :
        \A i, j \in DOMAIN cs : i < j =>
            Apart(cs[i], cs[j]) \/ (AtMost(cs[i][1], cs[j][1]) /\ AtMost(cs[j][2], cs[i][2]) /\ cs[i][1] # cs[j][1] /\ cs[i][2] # cs[j][2])}

MCSamples ==
    [arrays  |-> [0 .. 2 -> 0 .. 7], sizes |-> 1 .. 3, strings |-> Strings(Marks \cup {-1, 0, 1}, 3),
     values  |-> [t \in ResultTypes |->
                    IF t = "bool" THEN {0, 1}
                    ELSE IF t \in Characters THEN {<<c>> : c \in Marks} \cup {<<Backslash, c>> : c \in Marks}
                    ELSE IF IsString(t) THEN Strings({Quote, Apostrophe, 63, Backslash, 97}, 2)
                    ELSE Edges(t)],
     results |-> [t \in ResultTypes |->
                    IF t \in Characters THEN Marks \cup {-1, 0, 1}
                    ELSE IF IsString(t) THEN Strings({Quote, Apostrophe, 63, Backslash, 97}, 3)
                    ELSE Edges(t) \cap ValuesOf(t)],
     sources |-> MCSources, projects |-> MCProjects, requests |-> MCRequests,
     texts   |-> MCTexts, classes |-> MCClasses,
     at      |-> <<AKTest, AMethod>>]

MCInit == TestCasesInit /\ (method = AMethod \/ ktest = AKTest)
MCSpec == MCInit /\ [][TestCasesNext]_testCasesVars
=============================================================================
