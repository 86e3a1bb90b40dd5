------------------------------- MODULE Linking -------------------------------
(***************************************************************************)
(* What a request links, for KLEE and for its tests, from a database that  *)
(* was loaded (Linker, NativeMakefilePrinter, StubSourcesFinder).          *)
(*                                                                         *)
(* Everything is built by make into files that stay for later requests, so *)
(* the names of these files have to tell what is in them.  The content of  *)
(* a file is the set of its objects, each with the body that was compiled: *)
(* that of the source or that of its stub.                                 *)
(***************************************************************************)
EXTENDS BuildDatabase, Commands, Paths

CONSTANTS CxxSources,   \* Paths::isCXXFile: no stubs are made of them
          Stem          \* [t] the path of a target without its extension

ASSUME LinkingAssumption ==
    /\ CxxSources \subseteq Sources
    /\ Targets \subseteq DOMAIN Stem
    /\ \A t, u \in Targets : Stem[t] = Stem[u] => t = u
    /\ {"", "_stub"} \cap Targets = {}

SourceOf(o) == infos[objectFileInfos[o]].source
LinkUnit(s) == infos[first[s]].linkUnit

(* Mutant of excludeFind: the sources of the link unit are not passed over. *)
excludeFindAll(s, t) == {SourceOf(o) : o \in ObjectFiles(t)} \ CxxSources

(* The sources of a target that are replaced by stubs when s is tested. *)
excludeFind(s, t) == {SourceOf(o) : o \in ObjectFiles(t) \ ObjectFiles(LinkUnit(s))} \ CxxSources

(***************************************************************************)
(* linkForTarget: one file is tested, and units with some of their sources *)
(* stubbed are named after its link unit.  linkWholeTarget: several files  *)
(* are tested, stubs are chosen for one of them, and no name is given.     *)
(***************************************************************************)
NoSuffix == ""
FileRequest(s, t, useStubs) ==
    [target |-> t, files |-> {s}, suffix |-> LinkUnit(s),
     stubs |-> IF useStubs THEN excludeFind(s, t) ELSE {}]
FolderRequest(S, s, t, useStubs) ==
    [target |-> t, files |-> S, suffix |-> NoSuffix,
     stubs |-> IF useStubs THEN excludeFind(s, t) ELSE {}]
ProjectRequest(S, t) == [target |-> t, files |-> S, suffix |-> NoSuffix, stubs |-> {}]
-----------------------------------------------------------------------------
(* Objects. *)

(* linkForTarget and linkWholeTarget choose the bitcode file of an object,   *)
(* buildByCDb compiles it, and addLinkTargetRecursively takes the KLEE file  *)
(* for what is tested.                                                       *)
Bitcode(r, o) ==
    LET s == SourceOf(o)
    IN  CASE s \in r.files -> [name |-> <<"klee", s>>, body |-> "source"]
          [] s \in r.stubs \ r.files ->
                [name |-> <<IF r.suffix = NoSuffix THEN "bitcode" ELSE "stub bitcode", s>>, body |-> "stub"]
          [] OTHER -> [name |-> <<"bitcode", s>>, body |-> "source"]

addObjectFile(r, o) ==
    LET s == SourceOf(o)
    IN  IF s \in r.stubs THEN [name |-> <<"stub object", s>>, body |-> "stub"]
                         ELSE [name |-> <<"object", o>>, body |-> "source"]

(* BuildResult::Type and operator|: what the objects of a unit are, those of *)
(* the units it is built from included.                                      *)
ObjectType(r, o) == IF SourceOf(o) \in r.stubs THEN "all" ELSE "no"
Join(types) == IF types = {} THEN "none" ELSE IF Cardinality(types) = 1 THEN CHOOSE x \in types : TRUE ELSE "any"
UnitType(r, u) == Join({ObjectType(r, o) : o \in ObjectFiles(u)})

StubSuffix == "_stub"

(* Mutant of Suffix: a unit with any stubs is named like one of stubs only. *)
SuffixOfStubs(r, type) == IF type = "no" THEN NoSuffix ELSE StubSuffix

(* applySuffix *)
Suffix(r, type) == CASE type = "no" -> NoSuffix [] type = "all" -> StubSuffix [] type = "any" -> r.suffix

(* It throws for a unit without any object. *)
CanBeLinked(r) == \A u \in TargetFiles(r.target) : UnitType(r, u) # "none"
-----------------------------------------------------------------------------
(* Units. *)

Content(u, Object(_)) == {<<o, Object(o).body>> : o \in ObjectFiles(u)}

(* addLinkTargetRecursively of the linker: the rules of the link makefile; a *)
(* library that is the target is linked once more, with the stubs of what it *)
(* lacks.                                                                    *)
Module(r, u) == [name |-> <<"module", Stem[u], Suffix(r, UnitType(r, u))>>,
                 content |-> Content(u, LAMBDA o : Bitcode(r, o))]
RootModule(r) ==
    LET m == Module(r, r.target)
    IN  IF r.target \in Programs THEN m
        ELSE [name |-> <<"root module", m.name[2], m.name[3]>>, content |-> m.content]

(* addLinkTargetRecursively of the two makefiles of a test: an executable is *)
(* made a shared library by one of them and a relocatable object by the      *)
(* other; a static library that is the target becomes a shared one.          *)
Forms(r, u) == CASE u \in Programs -> {"shared", "relocatable"}
                 [] u = r.target -> {"library", "shared"}
                 [] OTHER -> {"library"}
Native(r, u, form) == [name |-> <<form, u, Suffix(r, UnitType(r, u))>>,
                       content |-> Content(u, LAMBDA o : addObjectFile(r, o))]

(* What the test of a file is linked with (sharedOutput of addTestTarget). *)
TestOutput(r) == Native(r, r.target, "shared")

(* Every file some rule makes, with what is in it.  The file that is tested *)
(* alone is compiled once more, without KLEE's wrappers.                    *)
Built(r) ==
    LET objects == ObjectFiles(r.target)
        plain == {s \in r.files : r.suffix # NoSuffix}
        made == {Bitcode(r, o) : o \in objects} \cup {addObjectFile(r, o) : o \in objects}
                \cup {[name |-> <<"bitcode", s>>, body |-> "source"] : s \in plain}
    IN  {[name |-> m.name, content |-> {<<m.name[2], m.body>>}] : m \in made}
        \cup {Module(r, u) : u \in TargetFiles(r.target)} \cup {RootModule(r)}
        \cup UNION {{Native(r, u, form) : form \in Forms(r, u)} : u \in TargetFiles(r.target)}
-----------------------------------------------------------------------------
(* Loaded databases in which a source is compiled once. *)
Loaded == phase = "complete" /\ asked = NoFile
CompiledOnce == ~ NameClash /\ \A s \in Sources : Cardinality(sourceFileInfos[s]) <= 1

Linked(requests) == {r \in requests : CanBeLinked(r)}
Tested == {p \in Sources \X DOMAIN targetInfos : p[1] \in SourcesOf(p[2])}
FileRequests == Linked({FileRequest(p[1], p[2], b) : p \in Tested, b \in BOOLEAN})
ProjectRequests == Linked({ProjectRequest(SourcesOf(t), t) : t \in DOMAIN targetInfos})

(* Folders whose files are all of one link unit. *)
FolderRequests ==
    Linked({FolderRequest({s \in SourcesOf(p[2]) : LinkUnit(s) = LinkUnit(p[1])}, p[1], p[2], b) :
                p \in Tested, b \in BOOLEAN})

(***************************************************************************)
(* The program a test runs is made of the bodies KLEE has found it with,   *)
(* and what is tested is never replaced by its own stub.                   *)
(***************************************************************************)
TestsRunWhatKleeRan ==
    Loaded /\ CompiledOnce =>
        \A r \in FileRequests \cup ProjectRequests \cup FolderRequests :
            /\ TestOutput(r).content = RootModule(r).content
            /\ \A o \in ObjectFiles(r.target) : SourceOf(o) \in r.files =>
                  <<o, "source">> \in TestOutput(r).content

(***************************************************************************)
(* Whatever file a request finds on the disk under a name its makefiles    *)
(* use, it was built by the same rule: files left by requests for other    *)
(* files, other targets, or with stubs turned on or off, can be reused.    *)
(***************************************************************************)
NamesTellContents ==
    Loaded /\ CompiledOnce =>
        LET built == UNION {Built(r) : r \in FileRequests \cup ProjectRequests}
        IN  \A f, g \in built : f.name = g.name => f.content = g.content
=============================================================================
