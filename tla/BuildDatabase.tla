---------------------------- MODULE BuildDatabase ----------------------------
(***************************************************************************)
(* The database of compile and link commands (building/).                  *)
(*                                                                         *)
(* ProjectBuildDatabase reads compile_commands.json, then                  *)
(* link_commands.json, one command at a time, in whatever order the build  *)
(* tool wrote them.  A request then chooses a target, and                  *)
(* TargetBuildDatabase keeps what that target is built from.               *)
(***************************************************************************)
EXTENDS Naturals, Sequences, FiniteSets

CONSTANTS Sources,      \* C and C++ files: Paths::isSourceFile
          OtherSources, \* files of other languages that are compiled too
          Objects, Libraries, Programs,      \* what commands build
          NoFile,       \* the empty path
          Temporary,    \* [s] createTemporaryObjectFile(a program, s)
          Order,        \* [f] place of a file in the order of conflictPriorityMore
          CompileCommands,  \* <<source, output>>: what compile_commands.json may hold
          LinkCommands,     \* <<output, files, libraries named by -l>>
          SkipObjectWithoutSource,           \* the setting of that name
          MaxCompile, MaxLink                \* bounds on the length of the two files

Targets == Libraries \cup Programs
Outputs == Objects \cup Targets

ASSUME BuildAssumption ==
    /\ CompileCommands \subseteq (Sources \cup OtherSources) \X Outputs
    /\ LinkCommands \subseteq Targets \X (SUBSET (Objects \cup Libraries)) \X (SUBSET Libraries)
    /\ Temporary \in [Sources -> Objects]
    /\ Order \in [Outputs -> Nat]
    /\ SkipObjectWithoutSource \in BOOLEAN
    /\ NoFile \notin Sources \cup Outputs \cup {"auto"}
    /\ Objects \cap Targets = {}
    /\ MaxCompile \in Nat /\ MaxLink \in Nat

(* The build has gone through, so that the targets it made were made in some *)
(* order: of any of them there is one that no command of the others links.   *)
ASSUME BuildOrder ==
    \A us \in SUBSET Targets : us # {} =>
        \E t \in us : \A c \in LinkCommands : c[1] \in us => t \notin c[2] \cup c[3]

VARIABLES phase,            \* what the constructor is doing, or how it ended
          length,           \* commands read from the current file
          infos,            \* every ObjectFileInfo made, in the order of making
          objectFileInfos,  \* output file -> index of its info
          sourceFileInfos,  \* [s] the indexes of the infos of s
          first,            \* [s] sourceFileInfos[s][0] after the sort, or 0
          ignoredOutput,    \* outputs of commands of other languages
          targetInfos,      \* output file -> TargetInfo
          asked,            \* the path of the request: a source, "auto", a target
          target,           \* the target chosen, NoFile before it or if refused
          kept              \* [s] TargetBuildDatabase: sourceFileInfos[s][0], or 0

buildVars == <<phase, length, infos, objectFileInfos, sourceFileInfos, first,
               ignoredOutput, targetInfos, asked, target, kept>>

(* Mutant of Without: the entry is not erased. *)
Untouched(f, k) == f

Put(f, k, v) == [x \in DOMAIN f \cup {k} |-> IF x = k THEN v ELSE f[x]]
Without(f, k) == [x \in DOMAIN f \ {k} |-> f[x]]

(* linked: has a command; named: libraries its -l options resolve to; parent: *)
(* parentLinkUnits[0].                                                        *)
TargetInfo == [files : SUBSET Outputs, named : SUBSET Libraries, installed : SUBSET Outputs,
               linked : BOOLEAN, parent : Targets \cup {NoFile}]
NewTarget == [files |-> {}, named |-> {}, installed |-> {}, linked |-> FALSE, parent |-> NoFile]
InfoOf(f) == IF f \in DOMAIN targetInfos THEN targetInfos[f] ELSE NewTarget

ObjectInfo == [source : Sources, output : Outputs, linkUnit : Targets \cup {NoFile}]

BuildTypeOK ==
    /\ phase \in {"compile", "link", "resolve", "complete", "partial"}
    /\ length \in 0..(MaxCompile + MaxLink)
    /\ infos \in Seq(ObjectInfo)
    /\ DOMAIN objectFileInfos \subseteq Outputs
    /\ \A f \in DOMAIN objectFileInfos : objectFileInfos[f] \in DOMAIN infos
    /\ sourceFileInfos \in [Sources -> SUBSET DOMAIN infos]
    /\ first \in [Sources -> {0} \cup DOMAIN infos]
    /\ ignoredOutput \subseteq Outputs
    /\ DOMAIN targetInfos \subseteq Targets
    /\ \A f \in DOMAIN targetInfos : targetInfos[f] \in TargetInfo
    /\ asked \in Sources \cup Targets \cup {"auto", NoFile}
    /\ target \in Targets \cup {NoFile}
    /\ kept \in [Sources -> {0} \cup DOMAIN infos]

BuildInit ==
    /\ phase = "compile" /\ length = 0
    /\ infos = <<>> /\ objectFileInfos = <<>> /\ targetInfos = <<>>
    /\ sourceFileInfos = [s \in Sources |-> {}]
    /\ first = [s \in Sources |-> 0] /\ kept = first
    /\ ignoredOutput = {} /\ asked = NoFile /\ target = NoFile
-----------------------------------------------------------------------------
(* initObjects, one compile command. *)
ReadCompile == phase = "compile" /\ length < MaxCompile /\ length' = length + 1

Ignore(out) ==
    /\ ReadCompile
    /\ ignoredOutput' = ignoredOutput \cup {out}
    /\ UNCHANGED <<phase, infos, objectFileInfos, sourceFileInfos, first, targetInfos, asked, target, kept>>

SkipDuplicate(out) ==
    /\ ReadCompile
    /\ out \in Objects \cap DOMAIN objectFileInfos
    /\ UNCHANGED <<phase, infos, objectFileInfos, sourceFileInfos, first, ignoredOutput,
                   targetInfos, asked, target, kept>>

NextInfo == Len(infos) + 1

CompileObject(s, out) ==
    /\ ReadCompile
    /\ out \notin DOMAIN objectFileInfos \cup DOMAIN targetInfos
    /\ infos' = Append(infos, [source |-> s, output |-> out, linkUnit |-> NoFile])
    /\ objectFileInfos' = Put(objectFileInfos, out, NextInfo)
    /\ sourceFileInfos' = [sourceFileInfos EXCEPT ![s] = @ \cup {NextInfo}]
    /\ UNCHANGED <<phase, first, ignoredOutput, targetInfos, asked, target, kept>>

(* Mutants of Redirected: the output is not replaced by that of a temporary *)
(* object file; the link unit is not recorded.                              *)
RedirectedToSource(info, out) == [source |-> info.source, output |-> info.source, linkUnit |-> out]
RedirectedUnlinked(info, out) ==
    [source |-> info.source, output |-> Temporary[info.source], linkUnit |-> NoFile]

(* createExplicitObjectFileCompilationCommand *)
Redirected(info, out) == [source |-> info.source, output |-> Temporary[info.source], linkUnit |-> out]

(***************************************************************************)
(* A second command with the same output, which is not an object file: it  *)
(* is a program built from several sources.  The first command, if it was  *)
(* taken for an object file, and this one are redirected to temporary      *)
(* object files, and the program becomes a target made of these.           *)
(***************************************************************************)
CompileIntoTarget(s, out) ==
    LET moved == {objectFileInfos[f] : f \in {out} \cap DOMAIN objectFileInfos}
        this == Redirected([source |-> s], out)
        redirected == [i \in DOMAIN infos |->
                         IF i \in moved THEN Redirected(infos[i], out) ELSE infos[i]]
        objects == {Temporary[infos[i].source] : i \in moved} \cup {this.output}
        known == Without(objectFileInfos, out)
    IN  /\ ReadCompile
        /\ out \in (DOMAIN objectFileInfos \cup DOMAIN targetInfos) \ Objects
        /\ infos' = Append(redirected, this)
        /\ objectFileInfos' =
              [f \in DOMAIN known \cup objects |->
                 IF f = this.output THEN NextInfo
                 ELSE IF f \in objects THEN CHOOSE i \in moved : TRUE ELSE known[f]]
        /\ targetInfos' = Put(targetInfos, out,
              [InfoOf(out) EXCEPT !.files = @ \cup objects, !.linked = TRUE])
        /\ sourceFileInfos' = [sourceFileInfos EXCEPT ![s] = @ \cup {NextInfo}]
        /\ UNCHANGED <<phase, first, ignoredOutput, asked, target, kept>>

(* std::sort by conflictPriorityMore: which of two equal infos is first is open. *)
Best(is) == {i \in is : \A j \in is : Order[infos[i].output] <= Order[infos[j].output]}
SortSources ==
    /\ phase = "compile"
    /\ phase' = "link" /\ length' = 0
    /\ first' \in [Sources -> {0} \cup DOMAIN infos]
    /\ \A s \in Sources : IF sourceFileInfos[s] = {} THEN first'[s] = 0
                                                    ELSE first'[s] \in Best(sourceFileInfos[s])
    /\ UNCHANGED <<infos, objectFileInfos, sourceFileInfos, ignoredOutput, targetInfos, asked, target, kept>>
-----------------------------------------------------------------------------
(* initInfo, one link command. *)
ReadLink == phase = "link" /\ length < MaxLink /\ length' = length + 1

Missing(files) == {f \in files \cap Objects : f \notin ignoredOutput \cup DOMAIN objectFileInfos}

(* The files of the command that reach addFile, and their objects' linkUnit. *)
AddFiles(out, files, libs, hasCommand) ==
    LET added == files \ ignoredOutput
    IN  /\ infos' = [i \in DOMAIN infos |->
              IF \E f \in added \cap DOMAIN objectFileInfos \cap Objects : objectFileInfos[f] = i
              THEN [infos[i] EXCEPT !.linkUnit = out] ELSE infos[i]]
        /\ targetInfos' = Put(targetInfos, out,
              [InfoOf(out) EXCEPT !.files = @ \cup added, !.named = @ \cup libs,
                                  !.linked = @ \/ hasCommand])

Link(out, files, libs) ==
    /\ ReadLink
    /\ SkipObjectWithoutSource \/ Missing(files) = {}
    /\ AddFiles(out, files \ Missing(files), libs, TRUE)
    /\ UNCHANGED <<phase, objectFileInfos, sourceFileInfos, first, ignoredOutput, asked, target, kept>>

(***************************************************************************)
(* "compile_commands.json doesn't contain a command for object file":      *)
(* thrown after some files were added and before the command was, and      *)
(* caught by the constructor, which logs it and returns.                   *)
(***************************************************************************)
LinkThrows(out, files) ==
    /\ ReadLink
    /\ ~ SkipObjectWithoutSource /\ Missing(files) # {}
    /\ \E before \in SUBSET (files \ Missing(files)) : AddFiles(out, before, {}, FALSE)
    /\ phase' = "partial"
    /\ UNCHANGED <<objectFileInfos, sourceFileInfos, first, ignoredOutput, asked, target, kept>>

(* filterInstalledFiles, then addLocalSharedLibraries. *)
Resolve ==
    LET known == DOMAIN targetInfos \cup DOMAIN objectFileInfos
        local(t) == t.named \cap DOMAIN targetInfos
    IN  /\ phase = "link"
        /\ phase' = "resolve"
        /\ targetInfos' = [f \in DOMAIN targetInfos |->
              LET t == targetInfos[f]
              IN  [t EXCEPT !.files = (@ \cap known) \cup local(t),
                            !.installed = (t.files \ known) \cup (t.named \ local(t))]]
        /\ UNCHANGED <<length, infos, objectFileInfos, sourceFileInfos, first, ignoredOutput,
                       asked, target, kept>>

Parents(l) == {f \in DOMAIN targetInfos : l \in targetInfos[f].files}
Used == {l \in Libraries : Parents(l) # {}}

(***************************************************************************)
(* fillTargetInfoParents, then createClangCompileCommandsJson.  Hash maps  *)
(* order the parents of a library, and which libraries come before one     *)
(* that has no link command, for which it throws.                          *)
(***************************************************************************)
FillParents ==
    /\ phase = "resolve"
    /\ phase' = IF Used \subseteq DOMAIN targetInfos THEN "complete" ELSE "partial"
    /\ \E done \in SUBSET (Used \cap DOMAIN targetInfos) :
          /\ Used \subseteq DOMAIN targetInfos => done = Used
          /\ \E parent \in [done -> DOMAIN targetInfos] :
                /\ \A l \in done : parent[l] \in Parents(l)
                /\ targetInfos' = [f \in DOMAIN targetInfos |->
                      IF f \in done THEN [targetInfos[f] EXCEPT !.parent = parent[f]]
                                    ELSE targetInfos[f]]
    /\ UNCHANGED <<length, infos, objectFileInfos, sourceFileInfos, first, ignoredOutput, asked, target, kept>>
-----------------------------------------------------------------------------
(* The queries.  "throws" stands for a CompilationDatabaseException. *)

Throws == "throws"

(* What a recursion from t along step comes to: the least set with t that *)
(* is closed under step.                                                  *)
Reached(t, step) ==
    {u \in DOMAIN step : \A us \in SUBSET DOMAIN step :
        t \in us /\ (\A v \in us : step[v] \subseteq us) => u \in us}

(* getRootForSource of a link unit: up to a unit without parents. *)
Above(t) == Reached(t, [u \in DOMAIN targetInfos |-> {targetInfos[u].parent} \ {NoFile}])
Root(t) == LET top == CHOOSE u \in Above(t) : targetInfos[u].parent = NoFile
           IN  IF targetInfos[top].linked THEN top ELSE Throws

getRootForSource(s) ==
    IF first[s] = 0 \/ infos[first[s]].linkUnit = NoFile THEN Throws
    ELSE Root(infos[first[s]].linkUnit)

(* The libraries a unit is built from that are units of the database. *)
Parts(t) == targetInfos[t].files \cap Libraries \cap DOMAIN targetInfos

(* getArchiveTargetFiles *)
TargetFiles(t) == Reached(t, [u \in DOMAIN targetInfos |-> Parts(u)])

(* Both archive queries throw when a library of the unit is no unit itself. *)
Whole(t) == \A u \in TargetFiles(t) : targetInfos[u].files \cap Libraries = Parts(u)

(* getArchiveObjectFiles, getSourceFilesForTarget *)
ObjectFiles(t) == UNION {targetInfos[u].files \cap Objects : u \in TargetFiles(t)}
SourcesOf(t) == {infos[objectFileInfos[o]].source : o \in ObjectFiles(t)}

(* getRootTargets, getTargetsForSourceFile *)
RootTargets == {t \in DOMAIN targetInfos : targetInfos[t].parent = NoFile}
getTargetsForSourceFile(s) == {t \in RootTargets : s \in SourcesOf(t)}

(***************************************************************************)
(* The TargetBuildDatabase constructor: a source stands for its root, no   *)
(* name for the root of the first source of a hash map, and a name for the *)
(* target whose output it is, unless getOutput throws for one of them.     *)
(***************************************************************************)
ForAuto == {getRootForSource(s) : s \in {s \in Sources : first[s] # 0}}
ForName(path) == {IF path \in DOMAIN targetInfos /\ \A t \in DOMAIN targetInfos : targetInfos[t].linked
                  THEN path ELSE Throws}

(* Mutant of ForSource: the source is not passed on. *)
ForNoSource(s) == ForAuto

ForSource(s) == {getRootForSource(s)}

Answers(path) == IF path \in Sources THEN ForSource(path)
                 ELSE IF path # "auto" THEN ForName(path)
                 ELSE IF ForAuto = {} THEN {Throws} ELSE ForAuto

(* Its sourceFileInfos are filled from a hash set: any object comes first. *)
Request(path) ==
    /\ phase \in {"complete", "partial"} /\ asked = NoFile
    /\ asked' = path
    /\ \E t \in Answers(path) :
          IF t = Throws \/ (t # Throws /\ ~ Whole(t))
          THEN UNCHANGED <<target, kept>>
          ELSE /\ target' = t
               /\ kept' \in [Sources -> {0} \cup {objectFileInfos[o] : o \in ObjectFiles(t)}]
               /\ \A s \in Sources : IF kept'[s] = 0 THEN s \notin SourcesOf(t)
                                                      ELSE infos[kept'[s]].source = s
    /\ UNCHANGED <<phase, length, infos, objectFileInfos, sourceFileInfos, first, ignoredOutput, targetInfos>>

BuildNext ==
    \/ \E c \in CompileCommands :
          IF c[1] \in Sources
          THEN SkipDuplicate(c[2]) \/ CompileObject(c[1], c[2]) \/ CompileIntoTarget(c[1], c[2])
          ELSE Ignore(c[2])
    \/ \E c \in LinkCommands : Link(c[1], c[2], c[3]) \/ LinkThrows(c[1], c[2])
    \/ SortSources \/ Resolve \/ FillParents
    \/ \E path \in Sources \cup Targets \cup {"auto"} : Request(path)

BuildSpec == BuildInit /\ [][BuildNext]_buildVars
-----------------------------------------------------------------------------
(* Two commands that build the same object file, a temporary one included:   *)
(* the database keeps both infos under one name.                             *)
NameClash == \E i, j \in DOMAIN infos : i # j /\ infos[i].output = infos[j].output

(***************************************************************************)
(* The tables refer to each other consistently: every object file is found *)
(* under the name its command gives it, moved ones included, and a target  *)
(* is made of object files that are known.  No query of a chosen target    *)
(* meets an object without compile command.                                *)
(***************************************************************************)
ObjectsAreKnown ==
    /\ BuildTypeOK
    /\ \A f \in DOMAIN objectFileInfos : infos[objectFileInfos[f]].output = f
    /\ \A t \in DOMAIN targetInfos : targetInfos[t].files \cap Objects \subseteq DOMAIN objectFileInfos

(* GetFileTargets never answers an empty list for a file some target is    *)
(* built from: no source is linked only below targets that are hidden.     *)
EverySourceHasARoot ==
    \A t \in DOMAIN targetInfos : \A s \in SourcesOf(t) : getTargetsForSourceFile(s) # {}

(* The root found by climbing from a source is one of the targets found by *)
(* descending to it, and it is found whenever the source's preferred object *)
(* is linked at all.                                                       *)
ClimbingAgreesWithDescending ==
    \A s \in Sources :
        LET linked == first[s] # 0 /\ \E t \in DOMAIN targetInfos :
                            infos[first[s]].output \in targetInfos[t].files \cap Objects
        IN  IF linked THEN getRootForSource(s) \in getTargetsForSourceFile(s)
                      ELSE getRootForSource(s) = Throws

(* A request for one file gets a database in which that file can be        *)
(* linked: the file is there, and the link unit of its preferred object is *)
(* one of the kept targets (Linker::linkForTarget looks it up there).      *)
RequestedFileIsLinkable ==
    ~ NameClash /\ asked \in Sources /\ target # NoFile =>
        /\ kept[asked] # 0
        /\ kept[asked] = first[asked] => infos[first[asked]].linkUnit \in TargetFiles(target)

(***************************************************************************)
(* The tables agree; in a database that was loaded to its end, the way up  *)
(* from a source to its root and the way down from the root targets to the *)
(* sources agree, every source that is linked lies on both, and the file a *)
(* request is for can be linked with what its database keeps.              *)
(***************************************************************************)
RootContainsSource ==
    /\ ObjectsAreKnown
    /\ phase = "complete" =>
          /\ EverySourceHasARoot
          /\ ~ NameClash => ClimbingAgreesWithDescending
          /\ RequestedFileIsLinkable
=============================================================================
