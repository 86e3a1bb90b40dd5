---------------------------- MODULE Declarations ----------------------------
(***************************************************************************)
(* The declarations of a C source, read and written in parts that never    *)
(* see each other: the fetchers note its functions, the variables those    *)
(* use and the names of its types (fetchers/, types/TypesResolver.cpp);    *)
(* SourceToHeaderMatchCallback writes the header of the test, in C++, and  *)
(* the wrapper that is compiled with the source; StubGen says what a stub  *)
(* of the source defines.                                                  *)
(*                                                                         *)
(* A source is a sequence of declarations in the order Clang visits them,  *)
(* each with what it `is`:                                                 *)
(*   "tag"       kind, name, the `typedef` that names it, the `parent` it  *)
(*               is within (0: none) and the `member` there it is the type *)
(*               of, or the type of an `array` of; "" is no name;          *)
(*   "variable"  name, storage, whether it `defines`, constant, type;      *)
(*   "function"  name, storage, inline, `params` (names), whether it has a *)
(*               `prototype`, what it `returns` and the variables it uses. *)
(***************************************************************************)
EXTENDS Naturals, FiniteSets, SequencesExt

Tags(s) == {i \in DOMAIN s : s[i].is = "tag"}
Variables(s) == {i \in DOMAIN s : s[i].is = "variable"}
Functions(s) == {i \in DOMAIN s : s[i].is = "function"}

(* NameDecorator: C++ keywords that C has not; those that are operators    *)
(* cannot be defined as macros.  Two stand for each sort.                  *)
CPP_OPERATORS == {"and", "xor"}
CPP_ONLY_KEYWORDS == CPP_OPERATORS \cup {"class", "new"}
TO_DEFINE == CPP_ONLY_KEYWORDS \ CPP_OPERATORS

decorate(name) == IF name \in CPP_ONLY_KEYWORDS THEN name \o "_" ELSE name
-----------------------------------------------------------------------------
(* The names of types. *)
hasNameForLinkage(tag) == tag.name # "" \/ tag.typedef # ""
isAnonymous(tag) == tag.parent # 0 /\ ~ hasNameForLinkage(tag) /\ tag.member = ""
NamedByMember(tag) == ~ hasNameForLinkage(tag) /\ tag.member # "" /\ ~ tag.array

OwnName(tag) ==
    CASE tag.name # "" -> <<tag.name>>
      [] tag.name = "" /\ tag.typedef # "" -> <<tag.typedef>>
      [] NamedByMember(tag) -> <<tag.member>>
      [] OTHER -> <<>>

replaceColon(name) == [i \in DOMAIN name |-> IF name[i] = "::" THEN "_" ELSE name[i]]

(* Mutant of getFullname: what a member has named is scoped as C++ would. *)
FullnameScoped(s) ==
    LET full[i \in Tags(s)] ==
            LET outer == IF s[i].parent = 0 THEN <<>> ELSE full[s[i].parent]
            IN  IF outer = <<>> THEN OwnName(s[i]) ELSE outer \o <<"::">> \o OwnName(s[i])
    IN  full

(* TypesResolver::getFullname.  A structure is visited before those within it, *)
(* and has then said what its unnamed members are called.                      *)
getFullname(s) ==
    LET full[i \in Tags(s)] ==
            LET outer == IF s[i].parent = 0 THEN <<>> ELSE full[s[i].parent]
                name == IF outer = <<>> THEN OwnName(s[i]) ELSE outer \o <<"::">> \o OwnName(s[i])
            IN  IF NamedByMember(s[i]) THEN replaceColon(name) ELSE name
    IN  full

(* generateUnnamedTypeDecls: from the named structures and unions at the top, *)
(* along unnamed members, `typedef decltype(outer::member) name`.              *)
generateUnnamedTypeDecls(s) ==
    LET declared[i \in Tags(s)] ==
            /\ NamedByMember(s[i]) /\ s[i].parent # 0
            /\ LET outer == s[s[i].parent]
               IN  (outer.parent = 0 /\ outer.name # "") \/ declared[s[i].parent]
    IN  {i \in Tags(s) : declared[i]}

(* What C++ can call a type that is printed with the declaration around it; a *)
(* typedef declares a simple name.                                            *)
Denoted(s) ==
    LET full == getFullname(s)
        names[i \in Tags(s)] ==
            LET outer == IF s[i].parent = 0 THEN {} ELSE names[s[i].parent]
            IN  (IF s[i].name = "" THEN {}
                 ELSE IF s[i].parent = 0 THEN {<<s[i].name>>}
                 ELSE {n \o <<"::", s[i].name>> : n \in outer})
                \cup (IF s[i].typedef = "" THEN {} ELSE {<<s[i].typedef>>})
                \cup (IF /\ i \in generateUnnamedTypeDecls(s) /\ full[s[i].parent] \in outer
                          /\ "::" \notin ToSet(full[i])
                      THEN {full[i]} ELSE {})
    IN  names
-----------------------------------------------------------------------------
(* Variables. *)
Redeclared(s, name) == {i \in Variables(s) : s[i].name = name}
isKnownToBeDefined(s, name) == \E i \in Redeclared(s, name) : s[i].defines
isExternC(s, name) == \A i \in Redeclared(s, name) : s[i].storage # "static"

BLACK_LIST == {"stdin", "stdout", "stderr"}

(* GlobalVariableUsageMatchCallback::checkUsage. *)
Usages(s) ==
    {<<f, i>> \in Functions(s) \X Variables(s) :
        /\ s[i].name \in s[f].uses \ BLACK_LIST
        /\ isKnownToBeDefined(s, s[i].name) \/ isExternC(s, s[i].name)
        /\ ~ s[i].constant /\ s[i].type # "incomplete"}

(* ... and handleUsage: those that the test has to declare by itself. *)
externVariables(s) ==
    {s[u[2]].name : u \in {v \in Usages(s) : s[v[2]].type # "callback" /\ isExternC(s, s[v[2]].name)
                                                /\ ~ isKnownToBeDefined(s, s[v[2]].name)}}

(* filterGlobalParameters. *)
globalParams(s, f) == {s[u[2]].name : u \in {v \in Usages(s) : v[1] = f /\ s[v[2]].type = "plain"}}

(* Mutant of checkVarDecl: a variable is declared as often as in the source. *)
checkVarDeclAgain(s, i) ==
    s[i].type # "unnamed" /\ (s[i].storage = "static" \/ isKnownToBeDefined(s, s[i].name))

(* SourceToHeaderMatchCallback::checkVarDecl.  The first declaration is printed. *)
checkVarDecl(s, i) ==
    /\ s[i].type # "unnamed"
    /\ isKnownToBeDefined(s, s[i].name) \/ ~ isExternC(s, s[i].name)
    /\ \A j \in Redeclared(s, s[i].name) : i <= j
-----------------------------------------------------------------------------
(* Functions. *)
isPlainInline(f) == f.inline /\ f.storage = "none"

(* FunctionDeclsMatchCallback: not with a parameter that has no name.  An    *)
(* entry is also made for a function of which only a variable was noted.     *)
Fetched(s) == {f \in Functions(s) : "" \notin ToSet(s[f].params)}
NotedMethods(s) == Fetched(s) \cup {u[1] : u \in Usages(s)}

(* FeaturesFilter; functions that are static if so configured. *)
Tested(s) == {f \in NotedMethods(s) : ~ isPlainInline(s[f])}

(* mergeSourceFileIntoStub: nobody has fetched the old stub. *)
StubMethods(s) == {s[f].name : f \in {g \in Fetched(s) : s[g].storage # "static"}}

(* SourceToHeaderMatchCallback::checkFunctionDecl. *)
checkFunctionDecl(s, f) == ~ isPlainInline(s[f])

Handled(s) ==
    {i \in Variables(s) : checkVarDecl(s, i)} \cup {f \in Functions(s) : checkFunctionDecl(s, f)}

wrapperName(name) == name \o "_source_c"
getterName(name) == "get_pointer_to_" \o name

(* A text without a type and a name behind its first parenthesis.  Such     *)
(* declarations are printed from their parts: the type, the name, and each   *)
(* parameter, all of which then have to be written before a name.            *)
IsOldStyleDefinition(f) == f.params = <<>> \/ ~ f.prototype \/ f.params[1] = ""
isPrinted(f) == IsOldStyleDefinition(f) => f.returns = "value"

(* printReturn: the parameters are passed on by their names. *)
Forward(to, f) == [to |-> to, arguments |-> SelectSeq(f.params, LAMBDA p : p # ""), of |-> f.params]
Forwards(call) == call.arguments = call.of /\ call.to \notin ToSet(call.of)

(* generateInternal: what the header defines, from which symbol of another file. *)
generateInternal(s, i, externFromStub) ==
    LET name == wrapperName(s[i].name)
    IN  IF s[i].is = "variable" THEN [defines |-> decorate(s[i].name), symbol |-> getterName(name)]
        ELSE [defines |-> decorate(s[i].name), symbol |-> IF externFromStub THEN s[i].name ELSE name]

(* generateWrapper: the symbols of the wrapper. *)
generateWrapper(s, i) ==
    IF s[i].is = "variable" THEN getterName(wrapperName(s[i].name)) ELSE wrapperName(s[i].name)

(* What clang prints of a parameter goes through the macros, but no further. *)
isCpp(name) == name \notin CPP_ONLY_KEYWORDS \ TO_DEFINE

Compiles(s, i) ==
    s[i].is = "function" =>
        /\ isPrinted(s[i]) /\ \A p \in ToSet(s[i].params) : isCpp(p)
        /\ Forwards(Forward(wrapperName(s[i].name), s[i])) /\ Forwards(Forward(s[i].name, s[i]))
-----------------------------------------------------------------------------
(* Header and wrapper compile, and link: each name is defined once. *)
HeaderCompiles(s) ==
    /\ \A i \in Handled(s) : Compiles(s, i)
    /\ \A i, j \in Handled(s) : i # j =>
          /\ generateInternal(s, i, FALSE).defines # generateInternal(s, j, FALSE).defines
          /\ generateWrapper(s, i) # generateWrapper(s, j)
    /\ \A i \in Handled(s) : generateInternal(s, i, FALSE).symbol \in {generateWrapper(s, j) : j \in Handled(s)}

(* A test calls what was fetched, and sets the variables that were noted, by  *)
(* names that the header has or, of variables nobody defines, the test.       *)
FunctionsAreReached(s) ==
    \A f \in Tested(s) :
        LET defined == {generateInternal(s, i, FALSE).defines : i \in Handled(s)}
        IN  /\ f \in Fetched(s) /\ decorate(s[f].name) \in defined
            /\ \A v \in globalParams(s, f) : (decorate(v) \in defined) # (v \in externVariables(s))

(* The stub that takes the place of a source defines what others can call. *)
StubsStandIn(s) ==
    \A f \in Handled(s) \cap Functions(s) :
        s[f].storage # "static" => generateInternal(s, f, TRUE).symbol \in StubMethods(s)

(* The name a value of a type is printed with is the type's in C++, and no   *)
(* other's.  Anonymous members are printed without one.                      *)
TypesAreNamed(s) ==
    LET full == getFullname(s)  names == Denoted(s)
    IN  \A i \in Tags(s) : ~ isAnonymous(s[i]) =>
            {j \in Tags(s) : full[i] \in names[j]} = {i}

DeclarationsAgree(s) == HeaderCompiles(s) /\ FunctionsAreReached(s) /\ StubsStandIn(s) /\ TypesAreNamed(s)
=============================================================================
