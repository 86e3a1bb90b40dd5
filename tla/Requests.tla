------------------------------- MODULE Requests -------------------------------
(***************************************************************************)
(* What the server is asked for: from what a user types after "utbot" or   *)
(* chooses in CLion, through the message that is built of it, to what the  *)
(* server takes the message for, and the way back of the paths it answers  *)
(* with (Commands, CLIUtils, GrpcUtils; the GrpcRequestBuilders; testgens, *)
(* TestRunner).                                                            *)
(*                                                                         *)
(* A path is written by one side and read by another: it starts at the     *)
(* root, or where its reader starts, and on a remote server the project is *)
(* at another place than in the IDE.                                       *)
(***************************************************************************)
EXTENDS Paths

CONSTANTS LocalProject,        \* where the IDE has the project of a remote server
          WorkingDirectories,  \* those the command line is used in
          FunctionNames        \* names of tested functions

FromRoot(names) == [root |-> TRUE, names |-> names]
Here(names) == [root |-> FALSE, names |-> names]
AbsolutePath(base, path) == Slash(IF path.root THEN <<>> ELSE base, path.names)

(* A field of a message that is not set, and the target a server finds itself. *)
Unset == Here(<<>>)
UTBOT_AUTO_TARGET_PATH == FromRoot(<<<<"utbot">>, <<"auto">>, <<"target">>, <<"path">>>>)

GenerateKinds == {"project", "stubs", "folder", "file", "snippet", "function", "class", "line",
                  "assertion", "predicate"}
LineRequests == {"line", "function", "class", "assertion", "predicate"}
RequestsOfFiles == {"file"} \cup LineRequests

(* GrpcUtils::create*Request: what each kind of message has room for. *)
Message(kind, context, settings, sources, target, path, line) ==
    [kind |-> kind, context |-> context, settings |-> settings,
     sourcePaths |-> IF kind = "snippet" THEN {} ELSE sources,
     targetPath |-> IF kind = "snippet" THEN Unset ELSE target,
     path |-> IF kind \in {"project", "stubs"} THEN Unset ELSE path,
     line |-> IF kind \in LineRequests THEN line ELSE 0]

NoFilter == [path |-> Unset, name |-> <<>>, function |-> <<>>]
-----------------------------------------------------------------------------
(* The command line: [kind, cwd, project, options, context, settings]: the   *)
(* last three have what is given, of what a kind takes, of the project's     *)
(* context and of the settings.                                              *)

TakenBy == [src_paths |-> GenerateKinds \ {"snippet"}, target |-> GenerateKinds \ {"snippet", "stubs"},
            file_path |-> RequestsOfFiles \cup {"snippet"}, folder_path |-> {"folder"},
            line_number |-> LineRequests, predicate |-> {"predicate"}]
Required == {"file_path", "folder_path", "line_number", "predicate"}
Options(kind) == {o \in DOMAIN TakenBy : kind \in TakenBy[o]}
Accepted(l) == DOMAIN l.options \subseteq Options(l.kind) /\ Options(l.kind) \cap Required \subseteq DOMAIN l.options

ProjectContextOptionGroup(given) == given @@ [testDir |-> Here(<<<<"tests">>>>), buildDir |-> Here(<<<<"build">>>>)]
SettingsContextOptionGroup(given) ==
    given @@ [generateForStatic |-> TRUE, verbose |-> FALSE, functionTimeout |-> 30, testTimeout |-> 30,
              noDeterministicSearcher |-> FALSE, noStubs |-> FALSE]

(* Mutant of absolute: it is resolved against the project. *)
UnderProject(l, path) == FromRoot(AbsolutePath(AbsolutePath(l.cwd, l.project), path))

absolute(l, path) == FromRoot(AbsolutePath(l.cwd, path))

createProjectContextByOptions(l) ==
    LET group == ProjectContextOptionGroup(l.context)
    IN  [projectPath |-> absolute(l, l.project), testDirRelPath |-> group.testDir, buildDirRelPath |-> group.buildDir]
createSettingsContextByOptions(l) ==
    LET group == SettingsContextOptionGroup(l.settings)
    IN  [generateForStaticFunctions |-> group.generateForStatic, verbose |-> group.verbose,
         timeoutPerFunction |-> group.functionTimeout, timeoutPerTest |-> group.testTimeout,
         useDeterministicSearcher |-> ~ group.noDeterministicSearcher, useStubs |-> ~ group.noStubs]
getSourcePaths(l, directories) ==
    IF "src_paths" \in DOMAIN l.options THEN {absolute(l, p) : p \in l.options.src_paths}
    ELSE {FromRoot(d) : d \in {d \in directories : IsPrefix(AbsolutePath(l.cwd, l.project), d)}}

(* CLIUtils::parse. *)
generate(l, directories) ==
    Message(l.kind, createProjectContextByOptions(l), createSettingsContextByOptions(l),
            getSourcePaths(l, directories),
            IF "target" \in DOMAIN l.options THEN l.options.target ELSE Unset,
            CASE "file_path" \in DOMAIN l.options -> absolute(l, l.options.file_path)
              [] "folder_path" \in DOMAIN l.options -> absolute(l, l.options.folder_path)
              [] OTHER -> Unset,
            IF "line_number" \in DOMAIN l.options THEN l.options.line_number ELSE 0)

(* The path is sent as it was typed. *)
TakenByRun == [file_path |-> {"file", "function", "test"}, function_name |-> {"function"}, test_name |-> {"test"}]
run(kind, path, function, test) ==
    [path |-> IF kind \in TakenByRun.file_path THEN path ELSE Unset,
     name |-> IF kind \in TakenByRun.test_name THEN test ELSE <<>>,
     function |-> IF kind \in TakenByRun.function_name THEN function ELSE <<>>]

(* Tests for the project, and then all of them are run. *)
all(l, directories) == [tests |-> generate([l EXCEPT !.kind = "project"], directories), results |-> NoFilter]
-----------------------------------------------------------------------------
(* CLion, whose settings st are of one project. *)

isRemoteScenario(st) == st.windows \/ ~ (st.remotePath = Unset /\ st.serverName = "localhost")
LocalPath(st, c) == IF isRemoteScenario(st) THEN LocalProject ELSE c.projectPath

convertToRemote(st, local, path) ==
    FromRoot(IF isRemoteScenario(st) THEN AbsolutePath(st.remotePath.names, Here(RelativeTo(path, local))) ELSE path)
convertFromRemote(st, local, path) ==
    IF isRemoteScenario(st) THEN Slash(local, RelativeTo(path, st.remotePath.names)) ELSE path

stripLeadingSlashes(path) == Here(path.names)
testsDirPath(st, local) == AbsolutePath(local, stripLeadingSlashes(st.testDirRelativePath))

(* A target is listed with a path of the server, shown and stored with a local *)
(* one, and used only if it is still listed.                                   *)
UTBotTarget(st, local, path) ==
    IF FromRoot(path) = UTBOT_AUTO_TARGET_PATH THEN path ELSE convertFromRemote(st, local, path)
targetPath(st, listed) ==
    IF st.targetPath \in listed THEN FromRoot(st.targetPath) ELSE UTBOT_AUTO_TARGET_PATH

ProjectContextBuilder(st, local) ==
    [projectPath |-> convertToRemote(st, local, local),
     testDirRelPath |-> convertToRemote(st, local, testsDirPath(st, local)),
     buildDirRelPath |-> stripLeadingSlashes(st.buildDirRelPath)]

(* The searcher is an argument of the builder that is never sent. *)
SettingsContextBuilder(flags) ==
    [flags EXCEPT !.useDeterministicSearcher = FALSE]

(* Mutant of RequestBuilder: the file is sent as the IDE has it. *)
LocalPathBuilder(kind, st, local, project, path, line) ==
    Message(kind, ProjectContextBuilder(st, local), SettingsContextBuilder(st.settings),
            project.sourcePaths, project.targetPath, FromRoot(path), line)

ProjectRequestBuilder(st, local, sources, target) ==
    [sourcePaths |-> {convertToRemote(st, local, d) : d \in sources},
     targetPath |-> IF target = UTBOT_AUTO_TARGET_PATH THEN target ELSE convertToRemote(st, local, target.names)]
RequestBuilder(kind, st, local, project, path, line) ==
    Message(kind, ProjectContextBuilder(st, local), SettingsContextBuilder(st.settings),
            project.sourcePaths, project.targetPath, convertToRemote(st, local, path), line)
GrpcRequestBuilderFactory(kind, st, local, listed, path, line) ==
    RequestBuilder(kind, st, local, ProjectRequestBuilder(st, local, st.sourceDirs, targetPath(st, listed)), path, line)

(* The marker beside a test runs it, that of the file all of its tests. *)
TestFilterBuilder(st, local, file, test) == [path |-> convertToRemote(st, local, file), name |-> test, function |-> <<>>]

(* What can be chosen where: in a file that is open, or on the tree of files. *)
isDefined(kind, path, editor) ==
    CASE kind \in {"project", "predicate"} -> TRUE
      [] kind = "file" -> isCFile(path) \/ Extension(path) = <<".", "cpp">> \/ isHeaderFile(path)
      [] kind = "folder" -> ~ editor
      [] kind = "class" -> editor /\ (Extension(path) = <<".", "cpp">> \/ isHeaderFile(path))
      [] kind \in {"function", "line", "assertion"} -> editor
      [] kind = "snippet" -> TRUE
      [] OTHER -> FALSE

(* The files of an answer, which a remote server has written on another disk, *)
(* and the source a run of tests leads to.                                    *)
SourceCode(st, local, files) == {convertFromRemote(st, local, f) : f \in files}
createSourceCodeFiles(st, local, files) == IF isRemoteScenario(st) THEN SourceCode(st, local, files) ELSE {}
testFilePathToSourceFilePath(st, local, test) ==
    Append(Slash(local, RelativeTo(Front(test), testsDirPath(st, local))),
           Last(restoreExtensionFromSuffix(removeSuffix(test, "_test"), CExtension)))
-----------------------------------------------------------------------------
(* The server. *)

ProjectContext(m) ==
    LET projectPath == AbsolutePath(<<>>, m.projectPath)
        Below(path) == RelativeTo(AbsolutePath(projectPath, path), projectPath)
    IN  [projectPath |-> projectPath, testDirRelPath |-> Below(m.testDirRelPath),
         buildDirRelPath |-> Below(m.buildDirRelPath)]

(* The commands are read with the client's place of the project replaced by  *)
(* the server's, as text: what a name goes on with is kept.                  *)
replaceAll(path, from, to) ==
    LET n == Len(from)
        At(i) == /\ n > 0 /\ i + n - 1 <= Len(path) /\ SubSeq(path, i, i + n - 2) = Front(from)
                 /\ IsPrefix(Last(from), path[i + n - 1])
        GoesOn(i) == SubSeq(path[i + n - 1], Len(Last(from)) + 1, Len(path[i + n - 1]))
        Step(w, i) == CASE i < w.next -> w
                        [] i >= w.next /\ At(i) ->
                              [next |-> i + n, path |-> w.path \o Front(to) \o <<Last(to) \o GoesOn(i)>>]
                        [] OTHER -> [w EXCEPT !.path = Append(@, path[i])]
    IN  FoldLeft(Step, [next |-> 1, path |-> <<>>], [i \in DOMAIN path |-> i]).path

(* Mutant of substituteRemotePathToCCJson: the directions are swapped. *)
substituteLocalPathToCCJson(c, client, file) == replaceAll(file, c.projectPath, client)

substituteRemotePathToCCJson(c, client, file) == replaceAll(file, client, c.projectPath)

NoTimeout == -1
SettingsContext(m) ==
    LET Timeout(seconds) == IF seconds > 0 THEN seconds ELSE NoTimeout
    IN  [m EXCEPT !.timeoutPerFunction = Timeout(@), !.timeoutPerTest = Timeout(@)]

headerPathToSourcePath(file, existing) ==
    LET found == SelectSeq(<<<<".", "cc">>, <<".", "cpp">>>>,
                           LAMBDA e : isHeaderFile(file) /\ replaceExtension(file, e) \in existing)
    IN  IF found = <<>> THEN file ELSE replaceExtension(file, Head(found))

(* Mutant of filterPathsByDirNames: only what is directly in a directory. *)
filterPathsInDirNames(paths, dirPaths) == {p \in paths : \E d \in dirPaths : Front(p) = AbsolutePath(<<>>, d) /\ isSourceFile(p)}

filterPathsByDirNames(paths, dirPaths) ==
    {p \in paths : \E d \in dirPaths : isSubPathOf(AbsolutePath(<<>>, d), p) /\ isSourceFile(p)}

(* testingMethodsSourcePaths, of a target with these sources. *)
autoDetectSourcePathsIfNotEmpty(r, sources) ==
    IF r.sourcePaths = {} THEN sources ELSE filterPathsByDirNames(sources, r.sourcePaths)
TestedInFolder(r, sources) == {s \in sources : isSubPathOf(AbsolutePath(<<>>, r.path), s)}
TestedByLine(r, existing) ==
    LET file == AbsolutePath(<<>>, r.path)
    IN  {IF r.kind = "class" THEN headerPathToSourcePath(file, existing) ELSE file}
TestedBy(r, sources, existing) ==
    CASE r.kind \in {"project", "stubs"} -> autoDetectSourcePathsIfNotEmpty(r, sources)
      [] r.kind = "folder" -> TestedInFolder(r, sources)
      [] r.kind \in LineRequests -> TestedByLine(r, existing)
      [] OTHER -> {AbsolutePath(<<>>, r.path)}

(* What TargetBuildDatabase is asked for, and by which name it finds a target. *)
TargetFor(r) ==
    LET file == AbsolutePath(<<>>, r.path)
    IN  CASE r.kind = "snippet" -> <<"its own">>
          [] r.kind # "snippet" /\ r.targetPath \notin {Unset, UTBOT_AUTO_TARGET_PATH} -> <<"named", r.targetPath>>
          [] OTHER -> IF r.kind \in RequestsOfFiles /\ isSourceFile(file) THEN <<"root of", file>> ELSE <<"first">>
findTarget(targets, name) ==
    LET IsNameOf(t) == \/ name = FromRoot(t)
                       \/ \E n \in {StemOf(t), Last(t)} : name = Here(<<n>>)
                       \/ StemOf(t) = <<"lib">> \o Last(name.names) /\ name = Here(<<Last(name.names)>>)
        candidates == {t \in targets : IsNameOf(t)}
    IN  IF Cardinality(candidates) = 1 THEN candidates ELSE {}

(***************************************************************************)
(* TestRunner.  The tests of a source are in the program its makefile      *)
(* runs, and a name of a test is that of its function and what is added.   *)
(***************************************************************************)
TestName(function) == function \o <<"_test", "_1">>

getTestsFromMakefile(c, source, test, prefix, generated) ==
    {[file |-> test, of |-> s, name |-> TestName(f)] :
        s \in {s \in generated : getMakefilePathFromSourceFilePath(c, s) = getMakefilePathFromSourceFilePath(c, source)},
        f \in {f \in FunctionNames : IsPrefix(prefix, TestName(f))}}

getTestsToLaunch(c, filter, files, generated) ==
    LET chosen == getSourceAndTestPath(c, AbsolutePath(c.projectPath, filter.path))
        tests == {t \in files : /\ IsPrefix(getTestDirAbsPath(c), t) /\ Extension(t) = <<".", "cpp">>
                                /\ IsSuffix(<<"_test">>, StemOf(t))}
    IN  CASE filter.path = Unset ->
               UNION {getTestsFromMakefile(c, testPathToSourcePath(c, t), t, <<>>, generated) : t \in tests}
          [] filter.path # Unset /\ filter.name # <<>> ->
               {[file |-> chosen.test, of |-> chosen.source, name |-> filter.name]}
          [] OTHER ->
               getTestsFromMakefile(c, chosen.source, chosen.test,
                                    IF filter.function = <<>> THEN <<>> ELSE filter.function \o <<"_test">>, generated)
-----------------------------------------------------------------------------
(* What is chosen, said without messages: files and directories of the       *)
(* server's disk.                                                            *)

Means(r, c, sources, path, directories, target) ==
    /\ ProjectContext(r.context) = c
    /\ CASE r.kind \in {"project", "stubs"} ->
              TestedBy(r, sources, sources) = {s \in sources : directories = {} \/ \E d \in directories : IsPrefix(d, s)}
         [] r.kind = "folder" -> TestedBy(r, sources, sources) = {s \in sources : IsPrefix(path, s)}
         [] r.kind = "class" /\ isHeaderFile(path) ->
              \E s \in sources : TestedBy(r, sources, sources) = {s} /\ isCXXFile(s) /\ replaceExtension(s, HeaderExtension) = path
         [] OTHER -> TestedBy(r, sources, sources) = {path}
    /\ CASE r.kind = "snippet" -> TRUE
         [] r.kind # "snippet" /\ target # <<>> -> TargetFor(r) = <<"named", FromRoot(target)>>
         [] OTHER -> TargetFor(r) = IF r.kind \in RequestsOfFiles /\ isSourceFile(path) THEN <<"root of", path>> ELSE <<"first">>

Headers(sources) == {replaceExtension(s, HeaderExtension) : s \in {s \in sources : isCXXFile(s)}}
DirectoriesOf(c) == {c.projectPath} \cup {Front(s) : s \in SourceFiles[c]}
TargetsOf(c) == {Append(getBuildDirAbsPath(c), n) : n \in ProgramNames}
PathsFor(kind, c) ==
    CASE kind = "folder" -> DirectoriesOf(c)
      [] kind \in {"project", "stubs"} -> {c.projectPath}
      [] kind = "class" -> SourceFiles[c] \cup Headers(SourceFiles[c])
      [] OTHER -> SourceFiles[c]
DirectoriesFor(kind, c) == IF kind \in {"project", "stubs"} THEN DirectoriesOf(c) ELSE {c.projectPath}

(* However a path is typed, and wherever. *)
CommandLinesMean(c) ==
    \A kind \in GenerateKinds, cwd \in WorkingDirectories, fromRoot \in BOOLEAN, given \in SUBSET {"src_paths", "target"},
       target \in {CHOOSE t \in TargetsOf(c) : TRUE} :
      \A path \in PathsFor(kind, c), directory \in DirectoriesFor(kind, c) :
        LET Typed(p) == IF fromRoot THEN FromRoot(p) ELSE Here(RelativeTo(p, cwd))
            each == [src_paths |-> {Typed(directory)}, target |-> FromRoot(target), file_path |-> Typed(path),
                     folder_path |-> Typed(path), line_number |-> 7, predicate |-> <<"int32", "==", "0">>]
            context == [testDir |-> Here(c.testDirRelPath), buildDir |-> Here(c.buildDirRelPath)]
            l == [kind |-> kind, cwd |-> cwd, project |-> Typed(c.projectPath), settings |-> <<>>,
                  options |-> [o \in given \cup (Required \cap Options(kind)) |-> each[o]],
                  context |-> [o \in {o \in DOMAIN context : context[o] # ProjectContextOptionGroup(<<>>)[o]} |-> context[o]]]
            directories == IF "src_paths" \in given THEN {directory} ELSE {c.projectPath}
            chosen == IF "target" \in given THEN target ELSE <<>>
        IN  Accepted(l) =>
              /\ Means(generate(l, DirectoriesOf(c)), c, SourceFiles[c], path, directories, chosen)
              /\ kind = "project" => Means(all(l, DirectoriesOf(c)).tests, c, SourceFiles[c], path, directories, chosen)

(* What is chosen in CLion, of the project here and on a server elsewhere. *)
Scenarios(c) ==
    {[windows |-> FALSE, serverName |-> "localhost", remotePath |-> Unset],
     [windows |-> FALSE, serverName |-> "server", remotePath |-> FromRoot(c.projectPath)],
     [windows |-> TRUE, serverName |-> "localhost", remotePath |-> FromRoot(c.projectPath)]}
StoredSettings(where, c, directories, target) ==
    [windows |-> where.windows, serverName |-> where.serverName, remotePath |-> where.remotePath,
     testDirRelativePath |-> FromRoot(c.testDirRelPath), buildDirRelPath |-> FromRoot(c.buildDirRelPath),
     sourceDirs |-> directories, targetPath |-> target,
     settings |-> [generateForStaticFunctions |-> TRUE, verbose |-> FALSE, timeoutPerFunction |-> 30,
                   timeoutPerTest |-> 0, useDeterministicSearcher |-> FALSE, useStubs |-> TRUE]]

ChoicesMean(c) ==
    \A where \in Scenarios(c), kind \in GenerateKinds, editor \in BOOLEAN, chosen \in BOOLEAN,
       target \in {CHOOSE t \in TargetsOf(c) : TRUE}, gone \in BOOLEAN :
      \A path \in PathsFor(kind, c), directory \in DirectoriesFor(kind, c) :
        LET local == LocalPath(where, c)
            Local(p) == Slash(local, RelativeTo(p, c.projectPath))
            listed == {UTBotTarget(where, local, t) : t \in (TargetsOf(c) \ (IF gone THEN {target} ELSE {}))
                                                             \cup {UTBOT_AUTO_TARGET_PATH.names}}
            st == StoredSettings(where, c, IF chosen THEN {Local(directory)} ELSE {}, Local(target))
        IN  isDefined(kind, Local(path), editor) =>
              Means(GrpcRequestBuilderFactory(kind, st, local, listed, Local(path), 7), c, SourceFiles[c], path,
                    IF chosen THEN {directory} ELSE {}, IF gone THEN <<>> ELSE target)

(***************************************************************************)
(* VS Code sends its place of the project, CLion and the command line none. *)
(* Commands that were written there are of the server's files, and those   *)
(* the server has written stay as they are, unless the client's place is a *)
(* part of the server's.  What is beside the project and named like it      *)
(* moves with it.                                                          *)
(***************************************************************************)
CommandsAreMoved(c) ==
    \A client \in {<<>>, c.projectPath, LocalProject, Tail(c.projectPath)}, s \in SourceFiles[c] :
        LET moved == createNewDirForFile(s, c.projectPath, client)
            beside == Append(Append(Front(client), Last(client) \o <<"-", "lib">>), Last(s))
            isPart == \E i \in 2..Len(c.projectPath) : IsPrefix(client, SubSeq(c.projectPath, i, Len(c.projectPath)))
        IN  /\ client = <<>> \/ ~ isPart => substituteRemotePathToCCJson(c, client, s) = s
            /\ client # <<>> /\ isSubPathOf(c.projectPath, s) => substituteRemotePathToCCJson(c, client, moved) = s
            /\ client # <<>> =>
                  substituteRemotePathToCCJson(c, client, beside)
                    = Append(Append(Front(c.projectPath), Last(c.projectPath) \o <<"-", "lib">>), Last(s))

(* A limit that is not positive is none, what is not given is the default of *)
(* the help, and the two ways agree but for the searcher.                    *)
SettingsMean ==
    \A given \in SUBSET DOMAIN SettingsContextOptionGroup(<<>>), yes \in BOOLEAN, seconds \in {-1, 0, 60} :
        LET l == [settings |-> [o \in given |-> IF o \in {"functionTimeout", "testTimeout"} THEN seconds ELSE yes]]
            Flag(o, default) == IF o \in given THEN yes ELSE default
            Limit(o) == CASE o \notin given -> 30 [] o \in given /\ seconds > 0 -> seconds [] OTHER -> NoTimeout
            typed == createSettingsContextByOptions(l)
            read == SettingsContext(typed)
        IN  /\ read = [generateForStaticFunctions |-> Flag("generateForStatic", TRUE), verbose |-> Flag("verbose", FALSE),
                       timeoutPerFunction |-> Limit("functionTimeout"), timeoutPerTest |-> Limit("testTimeout"),
                       useDeterministicSearcher |-> ~ Flag("noDeterministicSearcher", FALSE),
                       useStubs |-> ~ Flag("noStubs", FALSE)]
            /\ SettingsContext(SettingsContextBuilder(typed)) = [read EXCEPT !.useDeterministicSearcher = FALSE]

(* A full path is of one target, and a file name never of another one. *)
TargetsAreFound(c) ==
    \A t \in TargetsOf(c) : /\ findTarget(TargetsOf(c), FromRoot(t)) = {t}
                            /\ findTarget(TargetsOf(c), Here(<<Last(t)>>)) \subseteq {t}

(***************************************************************************)
(* Of sources that were generated for, what is launched is the tests of    *)
(* what is chosen; those of a function are launched with no others but     *)
(* those of functions whose names go on like the name of a test.  Sources  *)
(* that differ in their extension only share a makefile and are left out.  *)
(***************************************************************************)
RunsMean(c) ==
    \A e \in CxxExtensions \cup {CExtension} :
        LET generated == {s \in SourceFiles[c] : Extension(s) = e /\ isSubPathOf(c.projectPath, s)}
            files == UNION {Fields(OwnFiles(c, s)) : s \in generated}
            Launched(filter) == getTestsToLaunch(c, filter, files, generated)
            Tests(S, F) == {[file |-> sourcePathToTestPath(c, s), of |-> s, name |-> TestName(f)] : s \in S, f \in F}
        IN  /\ Launched(run("project", Unset, <<>>, <<>>)) = Tests(generated, FunctionNames)
            /\ Launched(NoFilter) = Tests(generated, FunctionNames)
            /\ \A where \in Scenarios(c) :
                 LET local == LocalPath(where, c)
                     st == StoredSettings(where, c, {}, <<>>)
                 IN  (IF isRemoteScenario(where) THEN createSourceCodeFiles(st, local, files) ELSE files)
                       = {Slash(local, RelativeTo(f, c.projectPath)) : f \in files}
            /\ \A s \in generated :
                 LET test == sourcePathToTestPath(c, s)
                     paths == {FromRoot(s), FromRoot(test), Here(RelativeTo(test, c.projectPath))}
                 IN  /\ \A path \in paths : Launched(run("file", path, <<>>, <<>>)) = Tests({s}, FunctionNames)
                     /\ \A path \in paths, f \in FunctionNames :
                          LET ofFunction == Launched(run("function", path, f, <<>>))
                          IN  /\ Tests({s}, {f}) \subseteq ofFunction
                              /\ ofFunction \subseteq Tests({s}, {g \in FunctionNames : g = f \/ IsPrefix(f \o <<"_test">>, g)})
                              /\ Launched(run("test", path, <<>>, TestName(f))) = Tests({s}, {f})
                     /\ \A where \in Scenarios(c) :
                          LET local == LocalPath(where, c)
                              st == StoredSettings(where, c, {}, <<>>)
                              received == CHOOSE t \in SourceCode(st, local, {test}) : TRUE
                          IN  /\ Launched(TestFilterBuilder(st, local, received, <<>>)) = Tests({s}, FunctionNames)
                              /\ \A f \in FunctionNames :
                                   Launched(TestFilterBuilder(st, local, received, TestName(f))) = Tests({s}, {f})
                              /\ testFilePathToSourceFilePath(st, local, received)
                                   = Slash(local, RelativeTo(s, c.projectPath))
=============================================================================
