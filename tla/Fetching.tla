------------------------------ MODULE Fetching ------------------------------
(***************************************************************************)
(* The fetchers of a request read all its sources into the same tables:    *)
(* Clang walks through each source, and the callbacks of Fetcher note what *)
(* it meets, for the sources that follow as well as for this one.          *)
(*                                                                         *)
(* A source is its `file` and the `nodes` of its tree in the order of the  *)
(* walk, each with what it `is`:                                           *)
(*   "type"       kind, name ("" is none), the `text` that is printed of   *)
(*                it, the file it is declared `in`, whether it `defines`   *)
(*                and is `local` to a function, its layout and alignment,  *)
(*                and the structures to which its members that are         *)
(*                `callbacks` return pointers;                             *)
(*   "function"   its scope and name, `params` (name, type, alignment that *)
(*                is asked for or 0), what it `returns`, the `globals` of  *)
(*                its Usages (Declarations), and whether it is a template; *)
(*   "return"     of a `variable`;                                         *)
(*   "subscript"  of a `variable` of a `function`, its parameter `index`   *)
(*                or 0.                                                    *)
(* A variable is known by a number, which is unique only in its source.    *)
(***************************************************************************)
EXTENDS Declarations

(* Fetcher::Options, and the callbacks in the order of addMatcher. *)
ALL == {"TYPE", "FUNCTION", "GLOBAL_VARIABLE_USAGE", "ARRAY_USAGE", "INCLUDE"}
OfStubs == {"FUNCTION", "INCLUDE", "TYPE"}

MatchersOf(options) ==
    LET of(option, callbacks) == IF option \in options THEN callbacks ELSE <<>>
    IN  of("TYPE", <<"definitions", "structures">>) \o of("FUNCTION", <<"functions">>)
        \o of("GLOBAL_VARIABLE_USAGE", <<"usages">>) \o of("ARRAY_USAGE", <<"subscripts", "returns">>)
-----------------------------------------------------------------------------
(* Types.  Mutant: a type is known by its name alone. *)
IdOfName(type) == <<type.text>>

(* Type::getIdFromCanonicalType.  Of the text and the file it is a hash, and *)
(* no two are taken to collide.                                              *)
getIdFromCanonicalType(type) == <<type.text, type.in>>

canBeReplaced(nameInMap, name) == nameInMap = "" /\ name # ""

isCandidateToReplace(id, map, name) == id \in DOMAIN map => canBeReplaced(map[id].name, name)

addInfo(id, map, info) ==
    IF id \in DOMAIN map /\ ~ canBeReplaced(map[id].name, info.name) THEN map ELSE (id :> info) @@ map

(* getFullname; a type without a name, or within a function, has none at first. *)
NameOf(st, type) ==
    LET id == getIdFromCanonicalType(type)
    IN  IF id \in DOMAIN st.fullname THEN st.fullname[id] ELSE IF type.local THEN "" ELSE type.name

updateMaximumAlignment(st, alignment) == [st EXCEPT !.maximumAlignment = Max({@, alignment})]

isGtest(file) == file = "gtest.h"

TypeInfo(name, type) == [name |-> name, layout |-> type.layout, alignment |-> type.alignment]

(* resolveEnum. *)
AddType(st, type) ==
    LET id == getIdFromCanonicalType(type)
        name == NameOf(st, type)
    IN  updateMaximumAlignment(
            [st EXCEPT !.fullname = (id :> name) @@ @, !.types = addInfo(id, @, TypeInfo(name, type))], type.alignment)

(* resolveStructEx.  No structure of the file has been seen before its first *)
(* one: std::out_of_range.                                                   *)
ResolveStruct(st, file, type) ==
    IF isGtest(type.in) THEN [st EXCEPT !.fullname = (getIdFromCanonicalType(type) :> NameOf(st, type)) @@ @]
    ELSE IF type.callbacks # {} /\ file \notin DOMAIN st.declared THEN [st EXCEPT !.fails = TRUE]
    ELSE AddType([st EXCEPT !.toDeclare[file] =
                    IF type.callbacks = {} THEN @ ELSE @ \cup (type.callbacks \ st.declared[file])], type)

(* anyTypeDeclarationMatcher; the typedef of a type that has no other name is *)
(* its name.                                                                  *)
CheckDefinition(st, file, node) ==
    IF ~ (node.is = "type" /\ node.defines) \/ ~ isCandidateToReplace(getIdFromCanonicalType(node), st.types, node.name)
    THEN st
    ELSE IF node.kind = "enum" THEN AddType(st, node)
    ELSE ResolveStruct(st, file, node)

(* structJustDeclMatcher. *)
CheckStructDecl(st, file, node) ==
    IF node.is = "type" /\ node.kind = "struct"
    THEN [st EXCEPT !.declared =
            (file :> ({node.name} \cup IF file \in DOMAIN @ THEN @[file] ELSE {})) @@ @]
    ELSE st
-----------------------------------------------------------------------------
(* Functions. *)
NoMethod == [name |-> "", params |-> <<>>, functionPointers |-> {}, returns |-> "value", returnsArray |-> FALSE, globals |-> <<>>]

(* AlignmentFetcher::fetch: one, if any. *)
Alignment(param) ==
    IF param.alignment # 0 \/ param.type = "void pointer" THEN {param.alignment} ELSE {}

getQualifiedName(f) == IF f.scope = "" THEN f.name ELSE f.scope \o "::" \o f.name

getFunctionPointerDeclaration(name, isArray) == [name |-> name, isArray |-> isArray]

(* addFunctionPointer: a callback, or an array of them, and what is returned. *)
FunctionPointers(f) ==
    {getFunctionPointerDeclaration(decorate(f.params[i].name), f.params[i].type = "callbacks") :
        i \in {j \in DOMAIN f.params : f.params[j].type \in {"callback", "callbacks"}}}
    \cup (IF f.returns = "callback" THEN {getFunctionPointerDeclaration("return", FALSE)} ELSE {})

(* FunctionDeclsMatchCallback::run.  A keyword of C++ gets another name. *)
Described(f) ==
    [name |-> getQualifiedName(f),
     params |-> [i \in DOMAIN f.params |->
                   [name |-> decorate(f.params[i].name), type |-> f.params[i].type,
                    alignment |-> Alignment(f.params[i]), maybeArray |-> FALSE]],
     functionPointers |-> FunctionPointers(f),
     returns |-> f.returns, returnsArray |-> FALSE, globals |-> <<>>]

(* Neither templates nor functions with a parameter that has no name. *)
IsFetched(f) == ~ f.template /\ \A i \in DOMAIN f.params : f.params[i].name # ""

AddMethod(st, file, node) ==
    IF node.is = "function" => ~ IsFetched(node) THEN st
    ELSE [st EXCEPT !.methods[file] = @ @@ (getQualifiedName(node) :> Described(node))]

(* Mutant of HandleUsage: noted by the name of the variable only. *)
HandleUsageOnce(st, file, function, variable) ==
    LET method == IF function \in DOMAIN st.methods[file] THEN st.methods[file][function] ELSE NoMethod
    IN  IF \E u \in st.usages : u[1] = variable THEN st
        ELSE [st EXCEPT !.usages = @ \cup {<<variable, function>>},
                        !.methods[file] = (function :> [method EXCEPT !.globals = Append(@, variable)]) @@ @]

(* GlobalVariableUsageMatchCallback::handleUsage.  What has been noted is     *)
(* remembered for all sources.                                               *)
HandleUsage(st, file, function, variable) ==
    LET method == IF function \in DOMAIN st.methods[file] THEN st.methods[file][function] ELSE NoMethod
    IN  IF <<variable, function>> \in st.usages THEN st
        ELSE [st EXCEPT !.usages = @ \cup {<<variable, function>>},
                        !.methods[file] = (function :> [method EXCEPT !.globals = Append(@, variable)]) @@ @]

CheckUsages(st, file, node) ==
    IF node.is # "function" THEN st
    ELSE FoldLeft(LAMBDA s, variable : HandleUsage(s, file, node.name, variable), st, node.globals)

isArrayCandidate(type) == type \in {"pointer", "void pointer", "string"}

(* ArraySubscriptFetcherMatchCallback; a method that has no such parameter is *)
(* undefined behaviour.                                                       *)
NoteSubscript(st, file, node) ==
    IF node.is = "subscript" => node.function \notin DOMAIN st.methods[file] THEN st
    ELSE LET method == st.methods[file][node.function]
             noted == [method EXCEPT !.returnsArray =
                          @ \/ (node.variable \in st.returnVariables /\ isArrayCandidate(method.returns))]
         IN  IF node.index \notin {0} \cup DOMAIN method.params THEN [st EXCEPT !.fails = TRUE]
             ELSE [st EXCEPT !.methods[file][node.function] =
                      IF node.index = 0 THEN noted ELSE [noted EXCEPT !.params[node.index].maybeArray = TRUE]]

(* ReturnStmtFetcherMatchCallback. *)
NoteReturn(st, node) ==
    IF node.is = "return" THEN [st EXCEPT !.returnVariables = @ \cup {node.variable}] ELSE st
-----------------------------------------------------------------------------
(* One fetch, from types that others may have fetched already. *)
Run(callback, st, file, node) ==
    CASE callback = "definitions" -> CheckDefinition(st, file, node)
      [] callback = "structures"  -> CheckStructDecl(st, file, node)
      [] callback = "functions"   -> AddMethod(st, file, node)
      [] callback = "usages"      -> CheckUsages(st, file, node)
      [] callback = "subscripts"  -> NoteSubscript(st, file, node)
      [] callback = "returns"     -> NoteReturn(st, node)

(* Every node is shown to one callback after the other. *)
Walk(options, st, source) ==
    LET callbacks == MatchersOf(options)
        n == Len(callbacks)
        walk[i \in 0 .. n * Len(source.nodes)] ==
            IF i = 0 THEN st
            ELSE LET s == walk[i - 1]
                 IN  IF s.fails THEN s
                     ELSE Run(callbacks[1 + ((i - 1) % n)], s, source.file, source.nodes[1 + ((i - 1) \div n)])
    IN  walk[n * Len(source.nodes)]

(* Mutant of postProcess: the alignment is left as it was asked for. *)
AsAskedFor(options, st) == st

(* postProcess. *)
postProcess(options, st) ==
    LET param(p) ==
            [p EXCEPT !.alignment = IF "FUNCTION" \in options /\ @ = {0} THEN {st.maximumAlignment} ELSE @,
                      !.maybeArray = @ \/ ("ARRAY_USAGE" \in options /\ p.type = "string")]
        method(m) == [m EXCEPT !.params = [i \in DOMAIN @ |-> param(@[i])]]
    IN  [st EXCEPT !.methods = [file \in DOMAIN @ |-> [name \in DOMAIN @[file] |-> method(@[file][name])]]]

(* SizeContext::maximumAlignment, and no types. *)
NoTypes == [types |-> <<>>, maximumAlignment |-> 16]

Fetch(options, sources, known) ==
    LET files == {s.file : s \in ToSet(sources)}
        empty == [types |-> known.types, maximumAlignment |-> known.maximumAlignment, fullname |-> <<>>,
                  declared |-> <<>>, toDeclare |-> [f \in files |-> {}], methods |-> [f \in files |-> <<>>],
                  usages |-> {}, returnVariables |-> {}, fails |-> FALSE]
    IN  postProcess(options, FoldLeft(LAMBDA st, source : Walk(options, st, source), empty, sources))

(* Nothing is a NoSuchTypeException. *)
typeFromMap(id, map) == IF id \in DOMAIN map THEN {map[id]} ELSE {}

(* TypesHandler::getStructInfo, getEnumInfo. *)
getInfo(st, type) == typeFromMap(getIdFromCanonicalType(type), st.types)

(* generateSourceDeclarations: the header is made of the source behind what   *)
(* is to be declared.                                                         *)
Structures(nodes) == {i \in DOMAIN nodes : nodes[i].is = "type" /\ nodes[i].kind = "struct"}

generateSourceDeclarations(st, source) ==
    {<<name, 0>> : name \in st.toDeclare[source.file]} \cup {<<source.nodes[i].name, i>> : i \in Structures(source.nodes)}
-----------------------------------------------------------------------------
(* What follows of a request for `tested` sources, and others for stubs. *)

(* A type has the layout, and the name, that its source has given it.  *)
TypesAreOwn(st, source) ==
    \A node \in ToSet(source.nodes) : node.is = "type" /\ node.defines /\ ~ isGtest(node.in) =>
        \E info \in getInfo(st, node) : info.layout = node.layout /\ (~ node.local => info.name = node.name)

(* A structure is declared before a callback that returns a pointer to it. *)
StructuresAreDeclared(st, source) ==
    \A i \in DOMAIN source.nodes : source.nodes[i].is = "type" =>
        \A name \in source.nodes[i].callbacks : \E d \in generateSourceDeclarations(st, source) : d[1] = name /\ d[2] < i

(* A function has the parameters, the callbacks and the variables it is      *)
(* written with; what it treats as an array, or returns as one and has       *)
(* returned before, is one, and nothing else but strings; and what void *    *)
(* points to is aligned as everything that is known.                         *)
Subscripts(source, f) == {n \in ToSet(source.nodes) : n.is = "subscript" /\ n.function = f.name}
ReturnedBefore(source, f) ==
    \E i, j \in DOMAIN source.nodes :
        /\ i < j /\ source.nodes[i].is = "return" /\ source.nodes[j] \in Subscripts(source, f)
        /\ source.nodes[i].variable = source.nodes[j].variable

FunctionsAreOwn(st, source) ==
    \A f \in {n \in ToSet(source.nodes) : n.is = "function" /\ IsFetched(n)} :
        LET name == getQualifiedName(f)
            method == st.methods[source.file][name]
        IN  /\ name \in DOMAIN st.methods[source.file] /\ method.name = name
            /\ ToSet(method.globals) = ToSet(f.globals)
            /\ \A i \in DOMAIN f.params :
                  /\ \A isArray \in BOOLEAN :
                         [name |-> method.params[i].name, isArray |-> isArray] \in method.functionPointers
                         <=> f.params[i].type = IF isArray THEN "callbacks" ELSE "callback"
                  /\ method.params[i].maybeArray <=>
                         f.params[i].type = "string" \/ \E n \in Subscripts(source, f) : n.index = i
                  /\ f.params[i].type = "void pointer" /\ f.params[i].alignment = 0 =>
                         \A id \in DOMAIN st.types : \E a \in method.params[i].alignment : a >= st.types[id].alignment
            /\ method.returnsArray <=> ReturnedBefore(source, f) /\ isArrayCandidate(f.returns)

SourcesAreRead(tested, others) ==
    LET first == Fetch(ALL, tested, NoTypes)
        second == Fetch(OfStubs, others, first)
    IN  /\ ~ first.fails /\ ~ second.fails
        /\ \A source \in ToSet(tested) :
              TypesAreOwn(second, source) /\ StructuresAreDeclared(first, source) /\ FunctionsAreOwn(first, source)
        /\ \A source \in ToSet(others) : TypesAreOwn(second, source) /\ StructuresAreDeclared(second, source)
=============================================================================
