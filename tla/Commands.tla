------------------------------ MODULE Commands ------------------------------
(***************************************************************************)
(* Command lines (BaseCommand, CompileCommand, LinkCommand) and what the    *)
(* server makes of them: the compile and link commands of a project become *)
(* those of the bitcode for KLEE and those of the tests.                   *)
(*                                                                         *)
(* A command line is a std::list that is edited while iterators point to   *)
(* its output, its source and its optimization level.  An iterator is the  *)
(* place of its node; 0 stands for one that points nowhere.                *)
(***************************************************************************)
EXTENDS Integers, Sequences, SequencesExt, FiniteSets

CONSTANTS CompileLines,   \* lines with one source, a.c, and at most one level
          LinkLines       \* lines with the target they are of, all of whose files exist

(* An argument: what the code tells apart, and the file or word in it. *)
Arg(kind, name) == [kind |-> kind, name |-> name]
Flag(name) == Arg("flag", name)
Nothing == Arg("nothing", "")        \* an empty string: gone when the line is printed
DashO == Arg("-o", "")
Static == Arg("-static", "")
Level(name) == Arg("-O", name)

FileKinds == {"source", "object", "static", "shared", "program"}
LibraryKinds == {"static", "shared"}

Find(line, kinds) == SelectInSeq(line, LAMBDA a : a.kind \in kinds)
Kinds(line) == {a.kind : a \in Range(line)}
OfKinds(c, kinds) == {a \in Range(c.line) : a.kind \in kinds}

(* What stands at some places of a line, and where it goes when only that is kept. *)
Rank(places, i) == Cardinality({j \in places : j <= i})
Kept(line, places) == [n \in 1 .. Cardinality(places) |-> line[CHOOSE i \in places : Rank(places, i) = n]]
Erased(line, args) == Kept(line, {i \in DOMAIN line : line[i] \notin args})
-----------------------------------------------------------------------------
(* BaseCommand: a line and its iterators. *)

Base(line) == [line |-> line, sourcePath |-> 0, optimizationLevel |-> Find(line, {"-O"}),
               output |-> LET o == Find(line, {"-o"}) IN IF o = 0 THEN 0 ELSE o + 1]

(* std::list::insert: nodes keep what they hold. *)
Insert(c, at, args) ==
    LET Moved(i) == IF i >= at THEN i + Len(args) ELSE i
    IN  [line |-> SubSeq(c.line, 1, at - 1) \o args \o SubSeq(c.line, at, Len(c.line)),
         sourcePath |-> Moved(c.sourcePath), output |-> Moved(c.output),
         optimizationLevel |-> Moved(c.optimizationLevel)]
addFlagsToBegin(c, args) == Insert(c, 2, args)
addFlagToEnd(c, arg) == Insert(c, Len(c.line) + 1, <<arg>>)

(* Mutant of EraseIf: the generic CollectionUtils::erase_if, which moves values. *)
EraseIfByValue(c, args) ==
    LET left == Erased(c.line, args)
        Stays(i) == IF i <= Len(left) THEN i ELSE 0
    IN  [line |-> left, sourcePath |-> Stays(c.sourcePath), output |-> Stays(c.output),
         optimizationLevel |-> Stays(c.optimizationLevel)]

(* CollectionUtils::erase_if of a std::list, which removes nodes. *)
EraseIf(c, args) ==
    LET kept == {i \in DOMAIN c.line : c.line[i] \notin args}
        Moved(i) == IF i \in kept THEN Rank(kept, i) ELSE 0
    IN  [line |-> Kept(c.line, kept), sourcePath |-> Moved(c.sourcePath),
         output |-> Moved(c.output), optimizationLevel |-> Moved(c.optimizationLevel)]

(* CollectionUtils::erase: std::remove moves what the nodes hold towards the *)
(* begin, and the nodes that are left over at the end are removed.           *)
Erase(c, arg) ==
    LET left == Erased(c.line, {arg})
        Stays(i) == IF i <= Len(left) THEN i ELSE 0
    IN  [line |-> left, sourcePath |-> Stays(c.sourcePath), output |-> Stays(c.output),
         optimizationLevel |-> Stays(c.optimizationLevel)]

Set(c, i, arg) == [c EXCEPT !.line = IF i \in DOMAIN @ THEN [@ EXCEPT ![i] = arg] ELSE @]
setOutput(c, file) == Set(c, c.output, file)
setSourcePath(c, file) == Set(c, c.sourcePath, file)
setBuildTool(c, name) == Set(c, 1, Arg("tool", name))
setOptimizationLevel(c, arg) ==
    IF c.optimizationLevel # 0 THEN Set(c, c.optimizationLevel, arg)
    ELSE [addFlagsToBegin(c, <<arg>>) EXCEPT !.optimizationLevel = 2]

AddOutput(c, file) == [addFlagsToBegin(c, <<DashO, file>>) EXCEPT !.output = 3]

(* CompileCommand::initOutput *)
InitOutput(c, object) == IF c.output # 0 THEN c ELSE AddOutput(c, object)

(* The source is the first argument whose file has the name that is given. *)
CompileCommand(line, source, object) ==
    InitOutput([Base(line) EXCEPT !.sourcePath = SelectInSeq(line, LAMBDA a : a.name = source.name)], object)

isArchiveCommand(c) == c.line[1].name \in {"ar", "ld"}
isSharedLibraryCommand(c) == c.line[1].name = "ld" \/ "-shared" \in Kinds(c.line)

(* initOutput of a link command. *)
LinkCommand(line) ==
    LET c == Base(line)
        archive == Find(line, {"static"})
    IN  CASE c.output # 0 -> c
          [] c.output = 0 /\ isArchiveCommand(c) ->
                [Insert(c, archive, <<DashO>>) EXCEPT !.output = archive + 1]
          [] OTHER -> AddOutput(c, Arg("program", "a.out"))
-----------------------------------------------------------------------------
(* Reading the JSON files. *)

(* tryConvertOptionToPath: a name becomes a path if there is such a file. *)
Relative(a) == [a EXCEPT !.name = "./" \o @]
tryConvertOptionToPath(a, built) ==
    IF a.kind \in FileKinds /\ ~ built THEN Relative(a) ELSE a

(* mergeLibraryOptions: "-l" and "name" become one argument. *)
Bare == {Arg("-l", ""), Arg("-L", "")}
Merged(line) ==
    LET joined == [i \in DOMAIN line |-> IF line[i] \in Bare /\ i < Len(line)
                                         THEN [line[i] EXCEPT !.name = line[i + 1].name] ELSE line[i]]
    IN  Kept(joined, {i \in DOMAIN line : ~ (i > 1 /\ line[i - 1] \in Bare)})

(* addLibrariesForCommand: a library of the project takes the place of -l. *)
WithLibraries(c, libraries) ==
    IF isArchiveCommand(c) THEN c
    ELSE [c EXCEPT !.line = [i \in DOMAIN @ |->
              IF @[i].kind = "-l" /\ \E l \in libraries : l.name = @[i].name
              THEN CHOOSE l \in libraries : l.name = @[i].name
              ELSE @[i]]]

ReadCompileLine(line, source, object) ==
    LET c == CompileCommand(line, source, object) IN EraseIf(c, OfKinds(c, {"-Werror"}))
ReadLinkLine(line, built, libraries) ==
    WithLibraries(LinkCommand(Merged([i \in DOMAIN line |->
                      IF i > 1 /\ line[i - 1] = DashO THEN line[i]
                      ELSE tryConvertOptionToPath(line[i], built)])), libraries)
-----------------------------------------------------------------------------
(* Compiling. *)

Nought == Level("0")
UNSUPPORTED_FLAGS_AND_OPTIONS_KLEE == {"-p"}
UNSUPPORTED_FLAGS_AND_OPTIONS_TEST_MAKE == {"-std"}

getCompileCommandForKlee(c, source, bitcode) ==
    LET named == setOutput(setSourcePath(setBuildTool(c, "clang"), source), bitcode)
        plain == setOptimizationLevel(named, Nought)
        clean == EraseIf(plain, OfKinds(plain, UNSUPPORTED_FLAGS_AND_OPTIONS_KLEE))
    IN  addFlagsToBegin(addFlagsToBegin(clean, <<Flag("-emit-llvm"), Flag("-c")>>), <<Flag("-iquote")>>)

(* defaultBuild, getCompileCommandsForKlee and generateStubsMakefile name the *)
(* source and the bitcode once more.                                          *)
Renamed(c, source, bitcode, newSource, newBitcode) ==
    setOutput(setSourcePath(getCompileCommandForKlee(c, source, bitcode), newSource), newBitcode)

addCompileTarget(c, source, target) ==
    LET named == setOutput(setSourcePath(setBuildTool(c, "gcc"), source), target)
        flags == addFlagsToBegin(setOptimizationLevel(named, Nought), <<Flag("-fPIC"), Flag("-g")>>)
    IN  addFlagsToBegin(EraseIf(flags, OfKinds(flags, {"-fPIE"})), <<Flag("-iquote"), Flag("-MT")>>)

compileTest(c, source, object) ==
    LET plain == setOptimizationLevel(setBuildTool(c, "g++"), Nought)
        clean == EraseIf(plain, OfKinds(plain, UNSUPPORTED_FLAGS_AND_OPTIONS_TEST_MAKE \cup {"-I"}))
        flags == addFlagsToBegin(clean, <<Flag("-g"), Flag("-fPIC"), Arg("-I", "googletest")>>)
    IN  setSourcePath(setOutput(EraseIf(flags, OfKinds(flags, {"-fPIE"})), object), source)
-----------------------------------------------------------------------------
(* Linking.  A target has its files, the libraries that are installed, and  *)
(* its output; "made" is what was made of each of its files.                *)

(* What is not a file of the target, then its objects, then its libraries. *)
sortLinkDependencies(line, target) ==
    LET Files(kinds) == Kept(line, {i \in DOMAIN line : line[i] \in target.files /\ line[i].kind \in kinds})
    IN  Erased(line, target.files) \o Files({"object"}) \o Files({"static"}) \o Files({"shared"})

getLinkArgument(a, target, made, output) ==
    CASE a \in target.files -> made[a]
      [] a = target.output -> output
      [] a = DashO -> a
      [] OTHER -> Nothing

LD_GOLD_OPTIONS == <<Arg("tool", "ld.gold"), Flag("-relocatable")>>
getLinkActionsForExecutable(c, target, made, output) ==
    LET sorted == sortLinkDependencies(c.line, target)
        arguments == [i \in DOMAIN sorted |-> getLinkArgument(sorted[i], target, made, output)]
    IN  setOutput(LinkCommand(LD_GOLD_OPTIONS \o arguments), output)

(* Options are dropped, and words that are no options are kept: "rcs". *)
IsWord(a) == a.kind \in FileKinds \cup {"option", "word"}
getArchiveArgument(a, target, made, output) ==
    IF a \in target.files THEN made[a]
    ELSE IF a = target.output THEN output
    ELSE IF a \in target.installed \cup {DashO} \/ IsWord(a) THEN a
    ELSE Nothing

moveOutputOptionToBegin(arguments, output) ==
    LET o == Find(arguments, {"-o"})
        others == SubSeq(arguments, 1, o - 1) \o SubSeq(arguments, o + 2, Len(arguments))
    IN  <<others[1], DashO, output>> \o Tail(others)

(* It changes places with the first of the files. *)
moveKleeTemporaryFileArgumentToBegin(arguments, klee) ==
    LET k == SelectInSeq(arguments, LAMBDA a : a = klee)
    IN  IF k = 0 THEN arguments ELSE [arguments EXCEPT ![4] = klee, ![k] = arguments[4]]

getArchiveCommands(c, target, made, output, klee) ==
    LET given == Tail(c.line)
        arguments == [i \in DOMAIN given |-> getArchiveArgument(given[i], target, made, output)]
        known == target.files \cup target.installed \cup {target.output}
        hasArchiveOption == \E i \in DOMAIN given : given[i] \notin known /\ IsWord(given[i])
        moved == moveOutputOptionToBegin(
                     (IF hasArchiveOption THEN <<>> ELSE <<Arg("option", "r")>>) \o arguments, output)
    IN  setOutput(LinkCommand(<<Arg("tool", "ar")>> \o moveKleeTemporaryFileArgumentToBegin(moved, klee)
                              \o <<Flag("--plugin")>>), output)

(* removeSonameFlag: "-Wl,-soname,name", or "-Wl,-soname" and "-Wl,name". *)
removeSonameFlag(line) ==
    LET soname == Arg("-Wl", "-soname")
        Removed(i) == line[i] \in {soname, Arg("-Wl", "-soname,name")} \/ (i > 1 /\ line[i - 1] = soname)
    IN  [i \in DOMAIN line |-> IF Removed(i) THEN Nothing ELSE line[i]]
transformCompilerFlagsToLinkerFlags(line) ==
    [i \in DOMAIN line |-> IF line[i].kind = "-Wl" THEN Flag(line[i].name) ELSE line[i]]

MadeOf(line, target, made) == [i \in DOMAIN line |-> IF line[i] \in target.files THEN made[line[i]] ELSE line[i]]

(* addLinkTargetRecursively of the makefile of a test. *)
NativeLink(c, target, made, output, isExecutable, transformExeToLib) ==
    LET named == [setOutput(Erase(c, Static), output) EXCEPT !.line = MadeOf(@, target, made)]
        relocatable == isExecutable /\ ~ transformExeToLib
        tool == IF relocatable
                THEN [setBuildTool(named, "ld") EXCEPT !.line = transformCompilerFlagsToLinkerFlags(@)]
                ELSE setBuildTool(named, "gcc")
        unnamed == [tool EXCEPT !.line = removeSonameFlag(@)]
        whole == addFlagsToBegin(unnamed, <<Flag("--whole-archive")>>)
        stubs == IF isSharedLibraryCommand(whole)
                 THEN addFlagToEnd(whole, Arg("object", "$(STUB_OBJECT_FILES)")) ELSE whole
        library == setOptimizationLevel(addFlagToEnd(stubs, Flag("--no-whole-archive")), Nought)
        linked == IF relocatable THEN unnamed ELSE library
    IN  IF isArchiveCommand(named) THEN named
        ELSE addFlagsToBegin(linked, IF ~ isExecutable THEN <<Flag("$(LDFLAGS)")>>
                  ELSE <<IF transformExeToLib THEN Arg("-shared", "") ELSE Flag("-r"), Flag("$(LDFLAGS)")>>)

(* The rest of addTestTarget: the program of the tests of a target that was  *)
(* not archived.                                                             *)
linkTest(c, target, made, filesToLink, executable) ==
    LET named == setOutput(setBuildTool(c, "g++"), executable)
        kept == EraseIf(named, target.files \cup OfKinds(named, {"-shared", "-L", "-l"}))
        erased == [kept EXCEPT !.line = removeSonameFlag(@)]
        libraries == SetToSeq({made[a] : a \in {a \in target.files : a.kind \in LibraryKinds}})
    IN  setOutput(addFlagsToBegin(setOptimizationLevel(erased, Nought),
                                  <<Flag("$(LDFLAGS)")>> \o filesToLink \o libraries), executable)
-----------------------------------------------------------------------------
(* What a line does: the compilers and linkers take the last level and the  *)
(* last output, and every other file as an input.                           *)
AfterDashO(line) == {i + 1 : i \in {i \in DOMAIN line : line[i] = DashO}}
Effect(line) ==
    [inputs |-> {line[i] : i \in {i \in DOMAIN line \ AfterDashO(line) : line[i].kind \in FileKinds}},
     output |-> {line[i] : i \in AfterDashO(line)},
     level |-> LET levels == {i \in DOMAIN line : line[i].kind = "-O"}
               IN  {line[i] : i \in {i \in levels : \A j \in levels : j <= i}},
     soname |-> \E i \in DOMAIN line : line[i].kind = "-Wl" /\ line[i].name # "-z"]

SourceFile == Arg("source", "a.c")
ObjectFile == Arg("object", "a.o")
NewSource == Arg("source", "new a.c")
NewObject == Arg("object", "new a.o")

(* What is taken of the lines.  An argument other than a file has no kind of   *)
(* one; a level is given once, and so is the output.                           *)
WellFormed(line) ==
    /\ line \in Seq([kind : STRING, name : STRING]) /\ line # <<>> /\ line[1].kind = "tool"
    /\ \A i, j \in DOMAIN line : line[i].kind \in {"-o", "-O"} /\ line[j].kind = line[i].kind => i = j
OutputIs(line, output) ==
    \A i \in DOMAIN line : line[i].kind = "-o" => line[i] = DashO /\ i < Len(line) /\ line[i + 1] = output
IsOutput(line, i) == i > 1 /\ line[i - 1] = DashO

(* The source is named once, and no other file but the output is. *)
ASSUME CompileLinesAssumption ==
    \A line \in CompileLines :
        /\ WellFormed(line) /\ OutputIs(line, ObjectFile)
        /\ \E s \in DOMAIN line : /\ line[s] = SourceFile
                                 /\ \A i \in DOMAIN line : line[i].name = SourceFile.name => i = s
        /\ \A i \in DOMAIN line : /\ line[i].kind \in FileKinds => line[i] = SourceFile \/ IsOutput(line, i)
                                 /\ line[i].kind # "-Wl"

(* What is taken of the targets: what is built has a name of its own. *)
WellBuilt(target) ==
    /\ target.files \subseteq [kind : {"object"} \cup LibraryKinds, name : STRING \ {""}] /\ IsFiniteSet(target.files)
    /\ \A a, b \in target.files : a.name = b.name => a = b
    /\ ObjectFile \in target.files
    /\ target.output \in [kind : FileKinds, name : STRING] \ target.files
    /\ \A a \in target.installed : a.kind = "-l"

(* "-l name" and "-L dir" in two arguments: a word stands nowhere else. *)
WordsAreNames(line) ==
    \A i \in DOMAIN line : /\ line[i] \in Bare => i < Len(line)
                           /\ line[i].kind = "word" <=> i > 1 /\ line[i - 1] \in Bare

(* What is taken of the options for the linker: "-z" or the name of a library, *)
(* in one argument or in two.                                                  *)
Soname == Arg("-Wl", "-soname")
NoStray(line) ==
    \A i \in 1 .. Len(line) :
        line[i].kind = "-Wl" =>
            \/ line[i].name \in {"-z", "-soname,name", "-soname"}
            \/ i > 1 /\ line[i - 1] = Soname
Named(line) == \A i \in 1 .. Len(line) : line[i] = Soname => i < Len(line) /\ line[i + 1].kind = "-Wl"

(* A line names the files of its target, its output and no other file. *)
IsIn(a, line) == \E i \in DOMAIN line : line[i] = a
IsNamedIn(a, line) ==
    \/ IsIn(Arg("-l", a.name), line)
    \/ \E i \in DOMAIN line : i > 1 /\ line[i - 1] = Arg("-l", "") /\ line[i].name = a.name
OnlyFilesOf(line, target) ==
    /\ \A i \in DOMAIN line : line[i].kind \in FileKinds => line[i] \in target.files \cup {target.output}
    /\ \A i, j \in DOMAIN line : line[i] = target.output /\ line[j] = target.output => i = j

(* An archive is the first one of its line; a program that has no name is a.out. *)
IsFirstStatic(line, output) ==
    /\ output.kind = "static" /\ IsIn(output, line)
    /\ \A i, j \in DOMAIN line : line[i].kind = "static" /\ line[j] = output => j <= i
IsUnnamed(line, output) == output = Arg("program", "a.out") /\ ~ IsIn(output, line)

ArchiveLine(line, target) ==
    /\ \A a \in target.files : IsIn(a, line)
    /\ "-o" \notin Kinds(line) => IsFirstStatic(line, target.output)
    /\ \A i \in DOMAIN line : line[i].kind # "-static" /\ (line[i].kind = "option" => i = 2)
NativeLine(line, target) ==
    /\ \A a \in target.files : IsIn(a, line) \/ IsNamedIn(a, line)
    /\ "-o" \notin Kinds(line) => IsUnnamed(line, target.output)
    /\ NoStray(line) /\ Named(line) /\ "option" \notin Kinds(line)

ASSUME LinkLinesAssumption ==
    \A l \in LinkLines :
        /\ WellFormed(l.line) /\ WordsAreNames(l.line) /\ WellBuilt(l.target)
        /\ OutputIs(l.line, l.target.output) /\ OnlyFilesOf(l.line, l.target)
        /\ IF l.line[1].name \in {"ar", "ld"} THEN ArchiveLine(l.line, l.target) ELSE NativeLine(l.line, l.target)

Compiles(c) == Effect(c.line) = [inputs |-> {NewSource}, output |-> {NewObject}, level |-> {Nought},
                                 soname |-> FALSE]

NewFile(a) == Arg(a.kind, "new " \o a.name)
NewOutput == Arg("program", "new")
Made(target) == [a \in target.files |-> NewFile(a)]
Stubs == Arg("object", "$(STUB_OBJECT_FILES)")
TestFiles == <<Arg("object", "gtest.o"), Arg("object", "test.o"), Arg("shared", "under test.so")>>

Links(c, inputs) == Effect(c.line).inputs = inputs /\ Effect(c.line).output = {NewOutput}

(***************************************************************************)
(* Wherever the options of a line stand: a compile command compiles the    *)
(* source it is given, and nothing else, to the file it is given and       *)
(* without optimization, for KLEE, for the tests and as a test; a link     *)
(* command links what was made of each file of its target to the new       *)
(* output, KLEE's own file first, and never writes the user's output.  An  *)
(* argument that is removed must not take an iterator with it.             *)
(***************************************************************************)
CompileLinesDoTheirTask ==
    \A line \in CompileLines :
        LET c == ReadCompileLine(line, SourceFile, ObjectFile)
        IN  /\ Compiles(getCompileCommandForKlee(c, NewSource, NewObject))
            /\ Compiles(Renamed(c, SourceFile, ObjectFile, NewSource, NewObject))
            /\ Compiles(addCompileTarget(c, NewSource, NewObject))
            /\ Compiles(compileTest(c, NewSource, NewObject))

(* Erase loses the output, or the level, that stands behind -static: the new  *)
(* one replaces another argument then, or is written to a node that is gone.  *)
StaticComesLast(line) ==
    \A i, j \in DOMAIN line : line[i].kind = "-static" /\ line[j].kind \in {"-o", "-O"} => j < i

NewFiles(target) == {Made(target)[a] : a \in target.files}
NewLibraries(target) == {Made(target)[a] : a \in {a \in target.files : a.kind \in LibraryKinds}}
Plain(line) == Effect(line).level = {Nought} /\ ~ Effect(line).soname

LinkDoesItsTask(c, t, staticComesLast) ==
    LET isExecutable == t.output.kind = "program"
        isArchive == isArchiveCommand(c)
        native == NativeLink(c, t, Made(t), NewOutput, isExecutable, TRUE)
        stubs == IF ~ isArchive /\ isSharedLibraryCommand(c) THEN {Stubs} ELSE {}
        test == linkTest(c, t, Made(t), TestFiles, NewOutput)
        archive == getArchiveCommands(c, t, Made(t), NewOutput, NewFile(ObjectFile))
    IN  /\ staticComesLast => Links(native, NewFiles(t) \cup stubs) /\ (~ isArchive => Plain(native.line))
        /\ isExecutable => Links(getLinkActionsForExecutable(c, t, Made(t), NewOutput), NewFiles(t))
        /\ isExecutable /\ staticComesLast =>
                Links(NativeLink(c, t, Made(t), NewOutput, TRUE, FALSE), NewFiles(t))
        /\ ~ isExecutable => Links(archive, NewFiles(t)) /\ archive.line[5] = NewFile(ObjectFile)
        /\ ~ isArchive => Links(test, Range(TestFiles) \cup NewLibraries(t)) /\ Plain(test.line)

LinkLineDoesItsTask(l) ==
    LinkDoesItsTask(ReadLinkLine(l.line, TRUE, l.target.files), l.target, StaticComesLast(l.line))

LinkLinesDoTheirTask == \A l \in LinkLines : LinkLineDoesItsTask(l)
=============================================================================
