-------------------------------- MODULE Paths --------------------------------
(***************************************************************************)
(* Where the server puts what it makes of a source file (Paths).  Nothing  *)
(* is written down: a later request, the other commands and the IDE find a *)
(* file, or the source of a test or of a stub, by its name alone.          *)
(*                                                                         *)
(* A path is the sequence of its names from the root, and a name is the    *)
(* sequence of the words and marks the code looks for in it.  Paths of     *)
(* fs::path are kept normal, and symbolic links are left out.              *)
(***************************************************************************)
EXTENDS Integers, Sequences, SequencesExt, FiniteSets

CONSTANTS ProjectContexts,  \* records of projectPath, testDirRelPath and buildDirRelPath
          SourceFiles,      \* [context] the sources of its database
          ProgramNames      \* names of programs and libraries

Up == <<"..">>
Marks == {".", "-"}          \* what mangle replaces, next to the slash
Digits == {"1", "2"}
CExtension == <<".", "c">>
CxxExtensions == {<<".", "cpp">>, <<".", "cc">>}
HeaderExtension == <<".", "h">>

(* operator/ *)
Slash(path, more) ==
    FoldLeft(LAMBDA p, name : IF name = Up /\ p # <<>> /\ Last(p) # Up THEN Front(p) ELSE Append(p, name),
             path, more)
longestCommonPrefixPath(a, b) == LongestCommonPrefix({a, b})
RelativeTo(path, base) ==
    LET shared == Len(longestCommonPrefixPath(path, base))
    IN  [i \in 1..(Len(base) - shared) |-> Up] \o SubSeq(path, shared + 1, Len(path))
isSubPathOf(base, sub) == IsPrefix(base, Front(sub))
createNewDirForFile(file, oldBase, newBase) == Slash(newBase, RelativeTo(file, oldBase))
-----------------------------------------------------------------------------
(* Names. *)

Place(name, word) == SelectLastInSeq(name, LAMBDA w : w = word)
ExtensionAt(name) == IF Place(name, ".") > 1 THEN Place(name, ".") ELSE Len(name) + 1
StemOf(path) == SubSeq(Last(path), 1, ExtensionAt(Last(path)) - 1)
Extension(path) == SubSeq(Last(path), ExtensionAt(Last(path)), Len(Last(path)))
WithName(path, name) == Append(Front(path), name)

addExtension(path, extension) == WithName(path, Last(path) \o extension)
replaceExtension(path, extension) == WithName(path, StemOf(path) \o extension)
addPrefix(path, prefix) == WithName(path, <<prefix>> \o Last(path))
addSuffix(path, suffix) == WithName(path, StemOf(path) \o <<suffix>> \o Extension(path))
removeSuffix(path, suffix) ==
    LET stem == StemOf(path)
        at == Place(stem, suffix)
    IN  WithName(path, (IF at = 0 THEN stem ELSE RemoveAt(stem, at)) \o Extension(path))

(* Mutant of addOrigExtensionAsSuffixAndAddNew: the extension is lost. *)
ReplaceOrigExtension(path, new) == replaceExtension(path, new)

addOrigExtensionAsSuffixAndAddNew(path, new) ==
    IF Extension(path) = <<>> THEN replaceExtension(path, new)
    ELSE WithName(path, StemOf(path) \o <<"_dot_">> \o Tail(Extension(path)) \o new)
restoreExtensionFromSuffix(path, default) ==
    LET stem == StemOf(path)
        at == Place(stem, "_dot_")
    IN  WithName(path, IF at = 0 THEN stem \o default ELSE [stem EXCEPT ![at] = "."])

isCFile(path) == Extension(path) = CExtension
isCXXFile(path) == Extension(path) \in CxxExtensions
isSourceFile(path) == isCFile(path) \/ isCXXFile(path)
isHeaderFile(path) == Extension(path) = HeaderExtension

mangle(path) ==
    LET Plain(name) == IF name = Up THEN <<"_", "_">>
                       ELSE [i \in DOMAIN name |-> IF name[i] \in Marks THEN "_" ELSE name[i]]
    IN  FlattenSeq([i \in DOMAIN path |-> IF i = 1 THEN Plain(path[i]) ELSE <<"_">> \o Plain(path[i])])
mangleExtensions(path) ==
    LET name == Last(path)
    IN  WithName(path, [i \in DOMAIN name |-> IF name[i] = "." /\ i > 1 THEN "_" ELSE name[i]])

(* A version is digits and dots at the end. *)
removeSharedLibraryVersion(name) ==
    SubSeq(name, 1, SelectLastInSeq(name, LAMBDA w : w \notin Digits \cup {"."}))
isSharedLibraryFile(name) == IsSuffix(<<".", "so">>, removeSharedLibraryVersion(name))
getSharedLibrary(name) ==
    LET output == removeSharedLibraryVersion(name)
    IN  IF isSharedLibraryFile(output) THEN output ELSE <<"lib">> \o output \o <<".", "so">>
-----------------------------------------------------------------------------
(* Directories of a project. *)

getTestDirAbsPath(c) == Slash(c.projectPath, c.testDirRelPath)
getBuildDirAbsPath(c) == Slash(c.projectPath, c.buildDirRelPath)
getUTBotFiles(c) == Append(getBuildDirAbsPath(c), <<"utbot_files">>)
getUTBotBuildDir(c) == Append(getUTBotFiles(c), <<"utbot_build">>)
getStubsDirPath(c) == Append(getTestDirAbsPath(c), <<"stubs">>)
getWrapperDirPath(c) == Append(getTestDirAbsPath(c), <<"wrapper">>)
getRelativeDirPath(c, s) == RelativeTo(Front(s), c.projectPath)
Mirror(c, s, dir) == Slash(dir, getRelativeDirPath(c, s))
getMakefileDir(c, s) == Mirror(c, s, Append(getTestDirAbsPath(c), <<"makefiles">>))
getRecompiledDir(c) == Append(getUTBotBuildDir(c), <<"recompiled">>)
getTestObjectDir(c) == Append(getUTBotBuildDir(c), <<"test_objects">>)
getKleeOutDir(c) == Append(getUTBotFiles(c), <<"klee_out">>)

(* Tests, their headers, stubs and wrappers, and the way back. *)
sourcePathToTestName(s) == Last(addSuffix(addOrigExtensionAsSuffixAndAddNew(s, <<".", "cpp">>), "_test"))
sourcePathToTestPath(c, s) == Append(Mirror(c, s, getTestDirAbsPath(c)), sourcePathToTestName(s))
getGeneratedHeaderPath(c, s) == replaceExtension(sourcePathToTestPath(c, s), HeaderExtension)
sourcePathToStubPath(c, s) == Append(Mirror(c, s, getStubsDirPath(c)), Last(addSuffix(s, "_stub")))
sourcePathToStubHeaderPath(c, s) == replaceExtension(sourcePathToStubPath(c, s), HeaderExtension)
getWrapperFilePath(c, s) == Append(Mirror(c, s, getWrapperDirPath(c)), Last(addSuffix(s, "_wrapper")))

testPathToSourceName(t) == Last(restoreExtensionFromSuffix(removeSuffix(t, "_test"), CExtension))
testPathToSourcePath(c, t) ==
    Append(Slash(c.projectPath, RelativeTo(Front(t), getTestDirAbsPath(c))), testPathToSourceName(t))
stubPathToSourcePath(c, stub) ==
    removeSuffix(Slash(c.projectPath, RelativeTo(stub, getStubsDirPath(c))), "_stub")
getSourceAndTestPath(c, file) ==
    IF isSubPathOf(getTestDirAbsPath(c), file)
    THEN [source |-> testPathToSourcePath(c, file), test |-> file]
    ELSE [source |-> file, test |-> sourcePathToTestPath(c, file)]

(* The directory of stubs is cleared of those whose source is gone. *)
prepareDirectory(c, files, sources) ==
    {f \in files : IsPrefix(getStubsDirPath(c), f) /\ ~ isHeaderFile(f)
                   /\ stubPathToSourcePath(c, f) \notin sources}

(* Makefiles: the directory does not get the suffix, which is thrown away. *)
getMakefilePathFromSourceFilePath(c, s) ==
    Append(getMakefileDir(c, s), Last(replaceExtension(s, <<".", "mk">>)))
getMakefilePathForShared(makefile) == addSuffix(addPrefix(makefile, "__"), "_shared")
getMakefilePathForObject(makefile) == addSuffix(addPrefix(makefile, "__"), "_obj")

(* What is compiled, for KLEE and for the tests. *)
newDirForFile(c, file) ==
    createNewDirForFile(file, longestCommonPrefixPath(getBuildDirAbsPath(c), c.projectPath), getUTBotBuildDir(c))
getBitcodeForSource(c, s) == addExtension(newDirForFile(c, s), <<".", "bc">>)
getStubBitcodeFilePath(bitcode) == addSuffix(bitcode, "_stub")
kleeFile(c, s) ==
    addSuffix(IF isSubPathOf(c.projectPath, s) THEN createNewDirForFile(s, c.projectPath, getUTBotFiles(c))
              ELSE createNewDirForFile(s, <<>>, Append(getUTBotFiles(c), <<"outside_of_project">>)), "_klee")
getKleeBitcodeFile(c, s) == replaceExtension(kleeFile(c, s), <<".", "bc">>)
kleeOutDirForFilePath(c, s) ==
    Slash(getKleeOutDir(c), RelativeTo(addOrigExtensionAsSuffixAndAddNew(s, <<>>), c.projectPath))
kleeOutDirForEntrypoints(c, s, method) ==
    Append(kleeOutDirForFilePath(c, s),
           <<"klee_out_">> \o (IF method = <<>> THEN Last(addOrigExtensionAsSuffixAndAddNew(s, <<>>)) ELSE method))
getRecompiledFile(c, file) ==
    IF isSourceFile(file) THEN addExtension(createNewDirForFile(file, c.projectPath, getRecompiledDir(c)), <<".", "o">>)
    ELSE createNewDirForFile(file, getBuildDirAbsPath(c), getRecompiledDir(c))
getTestExecutablePath(c, s) == mangleExtensions(getRecompiledFile(c, s))
TestObject(c, s) ==
    addExtension(createNewDirForFile(sourcePathToTestPath(c, s), getTestDirAbsPath(c), getTestObjectDir(c)), <<".", "o">>)

StubObject(c, s) == getRecompiledFile(c, sourcePathToStubPath(c, s))
getDependencyFile(c, file) ==
    addExtension(Slash(Append(getUTBotBuildDir(c), <<"dependencies">>), RelativeTo(file, c.projectPath)), <<".", "d">>)

(* Results and coverage, and what of all files is removed before a run. *)
getGTestResultsJsonPath(c) == getBuildDirAbsPath(c) \o <<<<"utbot">>, <<"gtest-results", ".", "json">>>>
getCoverageDir(c, tool) ==
    getUTBotBuildDir(c) \o <<<<"coverage">>, <<IF tool = "gcov" THEN "gcov" ELSE "lcov">>>>
getCoverageJsonPath(c) == Append(getCoverageDir(c, "llvm-cov"), <<"coverage", ".", "json">>)
getGcdaFiles(c, files) == {f \in files : IsPrefix(getRecompiledDir(c), f) /\ Extension(f) = <<".", "gcda">>}

(* Mutant of cleanCoverage: all that was compiled for the tests goes with it. *)
cleanBuildDir(c, tool, files) == {f \in files : IsPrefix(getUTBotBuildDir(c), f)}

cleanCoverage(c, tool, files) ==
    {f \in files : IsPrefix(getCoverageDir(c, tool), f)}
    \cup (IF tool = "gcov" THEN getGcdaFiles(c, files) ELSE {})

(* Symbols: a function for KLEE, and what a test calls a static function by. *)
entryPointFunction(c, s, method) ==
    LET path == <<"klee_entry__">> \o mangle(Append(getRelativeDirPath(c, s), StemOf(s))) \o <<"_", method>>
    IN  IF isCXXFile(s) THEN <<"_Z", Len(path)>> \o path \o <<"v">> ELSE path
wrapperName(c, s, decl) == <<decl, "_">> \o mangle(RelativeTo(s, c.projectPath))

(* The part of a path in a report of KLEE that is below the project. *)
getInProjectPath(path, src) ==
    LET Step(w, name) ==
            CASE w.left -> w
              [] ~ w.left /\ w.at <= Len(src) /\ name = src[w.at] -> [w EXCEPT !.at = @ + 1, !.found = TRUE]
              [] ~ w.left /\ w.at <= Len(src) /\ name # src[w.at] -> [w EXCEPT !.left = w.found]
              [] OTHER -> [w EXCEPT !.left = TRUE]
        w == FoldLeft(Step, [at |-> 1, found |-> FALSE, left |-> FALSE], path)
    IN  IF w.left THEN <<>> ELSE SubSeq(src, w.at, Len(src))
-----------------------------------------------------------------------------
(* What the names are for. *)

OwnFiles(c, s) ==
    [test |-> sourcePathToTestPath(c, s), header |-> getGeneratedHeaderPath(c, s),
     stub |-> sourcePathToStubPath(c, s), wrapper |-> getWrapperFilePath(c, s),
     bitcode |-> getBitcodeForSource(c, s), stubBitcode |-> getStubBitcodeFilePath(getBitcodeForSource(c, s)),
     klee |-> kleeFile(c, s), kleeOut |-> kleeOutDirForEntrypoints(c, s, <<>>), testObject |-> TestObject(c, s),
     stubObject |-> StubObject(c, s), object |-> getRecompiledFile(c, s), dependency |-> getDependencyFile(c, s),
     stubDependency |-> getDependencyFile(c, sourcePathToStubPath(c, s))]

(* Files whose names do not tell sources apart that differ in the extension. *)
FilesOfTheStem(c, s) ==
    LET makefile == getMakefilePathFromSourceFilePath(c, s)
    IN  [makefile |-> makefile, shared |-> getMakefilePathForShared(makefile),
         object |-> getMakefilePathForObject(makefile),
         stubHeader |-> sourcePathToStubHeaderPath(c, s), kleeBitcode |-> getKleeBitcodeFile(c, s)]

Fields(r) == {r[k] : k \in DOMAIN r}

FilesAreOwn(c) ==
    LET S == SourceFiles[c]
        own == UNION {Fields(OwnFiles(c, s)) : s \in S}
        common == UNION {Fields(FilesOfTheStem(c, s)) : s \in S}
        simple == {s \in S : "." \notin Range(StemOf(s))}
    IN  /\ Cardinality(own) = 13 * Cardinality(S)
        /\ Cardinality(common) = 5 * Cardinality({WithName(s, StemOf(s)) : s \in S})
        /\ Cardinality({getTestExecutablePath(c, s) : s \in simple}) = Cardinality(simple)
        /\ own \cap common = {} /\ (own \cup common) \cap S = {}

(* The way back: sources inside the project are found from their tests. *)
SourcesAreFound(c) ==
    \A s \in SourceFiles[c] :
        LET test == sourcePathToTestPath(c, s)
            wrapper == Front(getWrapperFilePath(c, s))
        IN  /\ testPathToSourcePath(c, test) = s
            /\ stubPathToSourcePath(c, sourcePathToStubPath(c, s)) = s
            /\ Slash(Slash(wrapper, RelativeTo(c.projectPath, wrapper)), RelativeTo(s, c.projectPath)) = s
            /\ getSourceAndTestPath(c, s) = [source |-> s, test |-> test]
            /\ isSubPathOf(c.projectPath, s) =>
                  getSourceAndTestPath(c, test) = getSourceAndTestPath(c, s)

(* Of all the files, the stubs of sources that are gone are removed. *)
OnlyOldStubsAreRemoved(c) ==
    LET files == UNION {Fields(OwnFiles(c, s)) \cup Fields(FilesOfTheStem(c, s)) : s \in SourceFiles[c]}
    IN  \A s \in SourceFiles[c] :
          isSubPathOf(c.projectPath, s) =>
              prepareDirectory(c, files, SourceFiles[c] \ {s}) = {sourcePathToStubPath(c, s)}

(* What the programs of the tests write about a source, by tool. *)
CoverageOf(c, s, tool) ==
    IF tool = "gcov" THEN {replaceExtension(getRecompiledFile(c, s), <<".", "gcda">>)}
    ELSE {getCoverageJsonPath(c), Append(getCoverageDir(c, tool), Last(s) \o <<".", "profraw">>)}

(***************************************************************************)
(* Of all the files, the coverage of the tool is removed, and no results.  *)
(* Objects of sources outside the project are beside those of the project, *)
(* where gcov's files are neither looked for nor removed.                  *)
(***************************************************************************)
OnlyCoverageIsCleaned(c) ==
    LET Coverage(tool, S) == UNION {CoverageOf(c, s, tool) : s \in S}
        inside == {s \in SourceFiles[c] : isSubPathOf(c.projectPath, s)}
        made == UNION {Fields(OwnFiles(c, s)) \cup Fields(FilesOfTheStem(c, s)) : s \in SourceFiles[c]}
        files == SourceFiles[c] \cup made \cup {getGTestResultsJsonPath(c)}
                 \cup Coverage("gcov", SourceFiles[c]) \cup Coverage("llvm-cov", SourceFiles[c])
    IN  \A tool \in {"gcov", "llvm-cov"} :
          cleanCoverage(c, tool, files) = Coverage(tool, IF tool = "gcov" THEN inside ELSE SourceFiles[c])

(* Symbols, of files whose names have no mark that mangle puts. *)
SymbolsAreOwn(c) ==
    LET plain == {s \in SourceFiles[c] : \A i \in DOMAIN s : {"_", "-"} \cap Range(s[i]) = {} /\ "." \notin Range(StemOf(s))}
        C == {s \in plain : isCFile(s)}
        Cxx == {s \in plain : isCXXFile(s)}
        Stems(S) == {WithName(s, StemOf(s)) : s \in S}
    IN  /\ Cardinality({wrapperName(c, s, "f") : s \in plain}) = Cardinality(plain)
        /\ Cardinality({entryPointFunction(c, s, "f") : s \in C}) = Cardinality(C)
        /\ Cardinality({entryPointFunction(c, s, "f") : s \in plain}) = Cardinality(C) + Cardinality(Stems(Cxx))

(* Reports of KLEE, whose paths begin somewhere in that of the project. *)
ReportsAreFound(c) ==
    \A s \in SourceFiles[c], k \in 0..(Len(c.projectPath) - 1) :
        IsPrefix(c.projectPath, s) /\ IsInjective(c.projectPath) =>
            getInProjectPath(c.projectPath, SubSeq(s, k + 1, Len(s))) = RelativeTo(s, c.projectPath)

(* Versions are one library; no other libraries, and no other programs, become one. *)
LibrariesAreOwn ==
    \A f, g \in ProgramNames :
        /\ getSharedLibrary(f) = getSharedLibrary(g)
        /\ isSharedLibraryFile(f) = isSharedLibraryFile(g)
        => removeSharedLibraryVersion(f) = removeSharedLibraryVersion(g)
=============================================================================
