----------------------------- MODULE Generation -----------------------------
(***************************************************************************)
(* The generation of tests, from the functions of the sources to the test  *)
(* files: ProcessBaseTestRequest, KleeGenerator, Linker, KleeRunner and    *)
(* ServerTestsWriter.  Requests for one project follow each other; one may *)
(* be cancelled, fail, or die with its server, and leaves on disk what it  *)
(* had written.                                                            *)
(*                                                                         *)
(* The target of a request is fixed when it is built, and every file of    *)
(* the request is compiled for it: isFilePresentedInCommands stays true,   *)
(* and each file is the first object file of its source.                   *)
(***************************************************************************)
EXTENDS Naturals, FiniteSets

CONSTANTS Files, Methods,
          Functions,    \* [f] the functions of f: two files may have one of the same name
          MaxRequests   \* bound: requests for the project

ASSUME GenerationAssumption ==
    /\ IsFiniteSet(Files) /\ IsFiniteSet(Methods)
    /\ Functions \in [Files -> SUBSET Methods]
    /\ MaxRequests \in Nat

VARIABLES request,    \* number of the request served, or of the last one
          kind, stage, status, cancelled,
          tests,      \* testGen.tests: file -> Tests
          todo,       \* files the current loop has still to visit
          bitcode,    \* [f] Linker::bitcodeFileName
          batch,      \* methods of the current file KLEE has still to run
          file,       \* the current file
          testFiles,  \* on disk: the test file of each source
          kleeOut,    \* on disk: the output of KLEE
          lateWrites  \* history: test files written since the cancellation

genVars == <<request, kind, stage, status, cancelled, tests, todo, bitcode, batch, file,
             testFiles, kleeOut, lateWrites>>

Batched == {"folder", "project"}      \* isBatched
Interactive == Batched \cup {"line", "file"}     \* derived from ProjectTestGen
Kinds == Interactive \cup {"snippet"}

(* commented: functions a comment block names; presented:                   *)
(* isFilePresentedInArtifact; cases: <<m, r>>, test cases of m from request r *)
(* of KLEE.                                                                 *)
Case == Methods \X (1..MaxRequests)
Tests == [methods : SUBSET Methods, commented : SUBSET Methods, correct : SUBSET Methods,
          presented : BOOLEAN, cases : SUBSET Case]
NewTests == [methods |-> {}, commented |-> {}, correct |-> {}, presented |-> TRUE, cases |-> {}]
TestFile == [by : 0..MaxRequests, cases : SUBSET Case, commented : SUBSET Methods]

(* What KLEE leaves for a function: .ktest files, and early (or internal *)
(* error) ones, which are not test cases.                                *)
Output == [file : Files, method : Methods, by : 1..MaxRequests, ktest : BOOLEAN, early : BOOLEAN]

GenTypeOK ==
    /\ request \in 0..MaxRequests /\ kind \in Kinds
    /\ stage \in {"idle", "fetch", "build", "link", "collect", "klee", "run", "write"}
    /\ status \in {"none", "OK", "FAILED", "CANCELLED", "crashed"}
    /\ cancelled \in BOOLEAN
    /\ tests \in [DOMAIN tests -> Tests] /\ DOMAIN tests \subseteq Files
    /\ todo \subseteq DOMAIN tests
    /\ bitcode \in [Files -> {"none", "empty", "linked"}]
    /\ file \in Files /\ batch \subseteq Functions[file]
    /\ testFiles \in [Files -> TestFile]
    /\ kleeOut \subseteq Output
    /\ lateWrites \in Nat

GenInit ==
    /\ request = 0 /\ kind \in Kinds /\ stage = "idle" /\ status = "none" /\ cancelled = FALSE
    /\ tests = [f \in {} |-> NewTests] /\ todo = {} /\ batch = {} /\ file \in Files
    /\ bitcode = [f \in Files |-> "none"]
    /\ testFiles = [f \in Files |-> [by |-> 0, cases |-> {}, commented |-> {}]]
    /\ kleeOut = {} /\ lateWrites = 0

Requested == DOMAIN tests
Disk == <<testFiles, kleeOut, lateWrites>>
-----------------------------------------------------------------------------
(* The constructors: one file, or those of a folder or project. *)
Start(k, fs) ==
    /\ stage = "idle" /\ request < MaxRequests
    /\ k \notin Batched => Cardinality(fs) = 1
    /\ request' = request + 1
    /\ kind' = k /\ stage' = "fetch" /\ status' = "none" /\ cancelled' = FALSE
    /\ tests' = [f \in fs |-> NewTests]
    /\ todo' = {} /\ batch' = {} /\ lateWrites' = 0
    /\ bitcode' = [f \in Files |-> "none"]
    /\ UNCHANGED <<file, testFiles, kleeOut>>

Cancel ==
    /\ stage # "idle" /\ cancelled' = TRUE
    /\ UNCHANGED <<request, kind, stage, status, tests, todo, bitcode, batch, file, Disk>>

EndWith(s) ==
    /\ stage' = "idle" /\ status' = s
    /\ UNCHANGED <<request, kind, cancelled, tests, todo, bitcode, batch, file, lateWrites>>

(* An exception: of a parser, a make, the database, the file system. *)
Fails == stage \notin {"idle"} /\ EndWith("FAILED") /\ UNCHANGED <<testFiles, kleeOut>>

(* The server dies. *)
Crash == stage # "idle" /\ EndWith("crashed") /\ UNCHANGED <<testFiles, kleeOut>>

(* throwIfCancelled: before each file of a loop and before the link. *)
SeesCancellation ==
    /\ cancelled /\ stage \in {"fetch", "build", "link", "klee"}
    /\ EndWith("CANCELLED") /\ UNCHANGED <<testFiles, kleeOut>>

(***************************************************************************)
(* Fetcher, the choice of the function for a line, and FeaturesFilter,     *)
(* which names every function it drops in a comment.                       *)
(***************************************************************************)
Prepare ==
    /\ stage = "fetch" /\ ~ cancelled
    /\ \E asked \in [Requested -> SUBSET Methods], dropped \in [Requested -> SUBSET Methods] :
          /\ \A f \in Requested :
                /\ IF kind = "line" THEN asked[f] \in {{m} : m \in Functions[f]}
                                    ELSE asked[f] = Functions[f]
                /\ dropped[f] \subseteq asked[f]
          /\ tests' = [f \in Requested |->
                [NewTests EXCEPT !.methods = asked[f] \ dropped[f], !.commented = dropped[f]]]
    /\ stage' = "build" /\ todo' = Requested
    /\ UNCHANGED <<request, kind, status, cancelled, bitcode, batch, file, Disk>>

(* "Couldn't find any supported methods": before anything is built. *)
NothingSupported ==
    /\ stage = "build" /\ \A f \in Requested : tests[f].methods = {}
    /\ EndWith("FAILED") /\ UNCHANGED <<testFiles, kleeOut>>

(***************************************************************************)
(* buildKleeFiles, one file.  If the wrappers of all its functions do not  *)
(* compile together, those that compile alone are compiled again; for a    *)
(* line, or if that fails too, the request fails.                          *)
(***************************************************************************)
BuildKleeFile(f) ==
    /\ stage = "build" /\ f \in todo /\ ~ cancelled
    /\ \E g \in Requested : tests[g].methods # {}
    /\ \E correct \in SUBSET tests[f].methods :
          /\ kind = "line" => correct = tests[f].methods
          /\ tests' = [tests EXCEPT ![f] = [@ EXCEPT !.correct = correct]]
    /\ todo' = todo \ {f}
    /\ UNCHANGED <<request, kind, stage, status, cancelled, bitcode, batch, file, Disk>>

(* handleFailedFunctions *)
HandleFailedFunctions ==
    /\ stage = "build" /\ todo = {} /\ \E g \in Requested : tests[g].methods # {}
    /\ stage' = "link"
    /\ tests' = [f \in Requested |->
          [tests[f] EXCEPT !.commented = @ \cup (tests[f].methods \ tests[f].correct)]]
    /\ UNCHANGED <<request, kind, status, cancelled, todo, bitcode, batch, file, Disk>>
-----------------------------------------------------------------------------
(* Mutant of AddToGenerated: the empty path is given in a batch, too. *)
AddEmpty(presented) ==
    [f \in Files |-> IF f \in presented THEN "linked" ELSE IF f \in Requested THEN "empty" ELSE "none"]

(* addToGenerated: a single file without module is given an empty path. *)
AddToGenerated(presented) ==
    [f \in Files |-> IF f \in presented THEN "linked"
                     ELSE IF kind \in Batched \/ f \notin Requested THEN "none" ELSE "empty"]

(* The make of the link fails: nothing is known of what the module holds. *)
LinkFails ==
    /\ stage = "link" /\ ~ cancelled
    /\ bitcode' = AddToGenerated({})
    /\ stage' = "collect"
    /\ UNCHANGED <<request, kind, status, cancelled, tests, todo, batch, file, Disk>>

(* IRParser::parseModule: one function without entry point, and the whole *)
(* file counts as absent.                                                 *)
Link ==
    LET presented == {f \in Requested : tests[f].methods \subseteq tests[f].correct}
    IN  /\ stage = "link" /\ ~ cancelled
        /\ tests' = [f \in Requested |-> [tests[f] EXCEPT !.presented = f \in presented]]
        /\ bitcode' = AddToGenerated(presented)
        /\ stage' = "collect"
        /\ UNCHANGED <<request, kind, status, cancelled, todo, batch, file, Disk>>

(* Mutant of TestMethods: the methods are not grouped by file. *)
Ungrouped(f) == UNION {tests[g].methods \cap tests[g].correct : g \in Requested}

(* getTestMethods, grouped by file as in runKlee. *)
TestMethods(f) == IF bitcode[f] = "none" THEN {} ELSE tests[f].methods \cap tests[f].correct

NothingToRun ==
    /\ stage = "collect" /\ \A f \in Requested : TestMethods(f) = {}
    /\ EndWith("FAILED") /\ UNCHANGED <<testFiles, kleeOut>>

(* Mutant of Cleaned: the output of an earlier request is kept. *)
KeptOutput == kleeOut

(* runKlee removes what an earlier request has left. *)
Cleaned == {}

Collect ==
    /\ stage = "collect" /\ \E f \in Requested : TestMethods(f) # {}
    /\ stage' = "klee" /\ todo' = Requested
    /\ kleeOut' = Cleaned
    /\ UNCHANGED <<request, kind, status, cancelled, tests, bitcode, batch, file, testFiles, lateWrites>>
-----------------------------------------------------------------------------
(* Mutant of MayVisit: the cancellation is not looked at. *)
VisitAnyway(f) == stage = "klee" /\ f \in todo

MayVisit(f) == stage = "klee" /\ f \in todo /\ ~ cancelled

(* Mutant of Skipped: the loop ends. *)
SkippedWithRest(f) == {}

(* prepareTests returns early: no code, and no test file. *)
Skipped(f) == todo \ {f}
Skip(f) ==
    /\ MayVisit(f) /\ ~ tests[f].presented /\ kind \in Batched
    /\ todo' = Skipped(f)
    /\ UNCHANGED <<request, kind, stage, status, cancelled, tests, bitcode, batch, file, Disk>>

NotInArtifact(f) ==
    /\ MayVisit(f) /\ ~ tests[f].presented /\ kind \notin Batched
    /\ EndWith("FAILED") /\ UNCHANGED <<testFiles, kleeOut>>

Visit(f) ==
    /\ MayVisit(f) /\ tests[f].presented
    /\ file' = f /\ batch' = TestMethods(f)
    /\ stage' = IF TestMethods(f) = {} THEN "write" ELSE "run"
    /\ UNCHANGED <<request, kind, status, cancelled, tests, todo, bitcode, Disk>>

(* Mutant of Comments: the function KLEE found nothing for is not named. *)
CommentsOnEarly(out) == {o.method : o \in {p \in out : p.early}}

(* processMethod: what is said of functions with early or no test cases. A *)
(* function without output directory is passed over in silence.            *)
Comments(out) == {o.method : o \in {p \in out : p.early \/ ~ p.ktest}}

(* The output of a run of KLEE for the functions it has reached. *)
Outputs(reached, ktest, early) ==
    {[file |-> file, method |-> m, by |-> request, ktest |-> m \in ktest, early |-> m \in early] :
        m \in reached}

WithCases(t, cases, comments) ==
    [t EXCEPT !.cases = t.cases \cup cases, !.commented = t.commented \cup comments]

(* processMethod: the output of the functions becomes tests and comments. *)
TakeOver(ms, mine) ==
    /\ tests' = [tests EXCEPT ![file] =
          WithCases(@, {<<o.method, o.by>> : o \in {p \in mine : p.ktest}}, Comments(mine))]
    /\ batch' = batch \ ms
    /\ stage' = IF batch = ms THEN "write" ELSE "run"
    /\ UNCHANGED status

(***************************************************************************)
(* KLEE runs all functions of the file, or one of a snippet; it may stop   *)
(* before it has reached some of them.  If the request has not been        *)
(* cancelled meanwhile, what is in the output directories of these         *)
(* functions is taken over.                                                *)
(***************************************************************************)
RunKlee(ms) ==
    /\ stage = "run" /\ ms \subseteq batch
    /\ IF kind \in Interactive THEN ms = batch ELSE Cardinality(ms) = 1
    /\ \E reached \in SUBSET ms : \E ktest, early \in SUBSET reached :
          /\ bitcode[file] = "empty" => reached = {}
          /\ kleeOut' = kleeOut \cup Outputs(reached, ktest, early)
    /\ IF cancelled
       THEN stage' = "idle" /\ status' = "CANCELLED" /\ UNCHANGED <<tests, batch>>
       ELSE TakeOver(ms, {o \in kleeOut' : o.file = file /\ o.method \in ms})
    /\ UNCHANGED <<request, kind, cancelled, todo, bitcode, file, testFiles, lateWrites>>

(* parseKTestsToFinalCode always makes code; writeFileAndSendResponse. *)
Write ==
    /\ stage = "write"
    /\ testFiles' = [testFiles EXCEPT ![file] =
          [by |-> request, cases |-> tests[file].cases, commented |-> tests[file].commented]]
    /\ lateWrites' = IF cancelled THEN lateWrites + 1 ELSE lateWrites
    /\ todo' = todo \ {file} /\ stage' = "klee"
    /\ UNCHANGED <<request, kind, status, cancelled, tests, bitcode, batch, file, kleeOut>>

(* The report, the last message, and the end of runKlee. *)
Finish ==
    /\ stage = "klee" /\ todo = {}
    /\ kleeOut' = {}
    /\ EndWith("OK") /\ UNCHANGED testFiles

GenNext ==
    \/ \E k \in Kinds, fs \in SUBSET Files : Start(k, fs)
    \/ Cancel \/ Fails \/ Crash \/ SeesCancellation
    \/ Prepare \/ NothingSupported \/ HandleFailedFunctions
    \/ LinkFails \/ Link \/ NothingToRun \/ Collect
    \/ \E f \in Files : BuildKleeFile(f) \/ Skip(f) \/ NotInArtifact(f) \/ Visit(f)
    \/ \E ms \in SUBSET Methods : RunKlee(ms)
    \/ Write \/ Finish

GenSpec == GenInit /\ [][GenNext]_genVars
-----------------------------------------------------------------------------
Written(f) == testFiles[f].by = request

(***************************************************************************)
(* The test cases of a test file come from the run of KLEE of the request  *)
(* that wrote it, whatever earlier requests have left in the output        *)
(* directory and whatever KLEE did not come to.                            *)
(***************************************************************************)
TestsAreOfTheirRequest == \A f \in Files : \A c \in testFiles[f].cases : c[2] = testFiles[f].by

(***************************************************************************)
(* A function of a file whose tests were generated has tests, or a comment *)
(* of the file says why it has none, unless KLEE has left no output        *)
(* directory for it.                                                       *)
(***************************************************************************)
FunctionsAreAccountedFor ==
    stage = "write" => \A m \in Functions[file] :
        \/ kind = "line"
        \/ m \in tests[file].commented \/ \E r \in 1..MaxRequests : <<m, r>> \in tests[file].cases
        \/ \A o \in kleeOut : o.file # file \/ o.method # m

(***************************************************************************)
(* A batch goes on past a file that is absent from the module: a request   *)
(* that ends well has written a test file for every file that was linked.  *)
(***************************************************************************)
NoFileIsForgotten == status = "OK" => \A f \in Requested : bitcode[f] = "linked" => Written(f)

(***************************************************************************)
(* No batch runs KLEE on a file it could not link, and overwrites the      *)
(* tests it had with none.                                                 *)
(***************************************************************************)
UnlinkedKeepsItsTests ==
    kind \in Batched => \A f \in Requested : Written(f) => bitcode[f] = "linked"

(* After a cancellation at most the file whose code was ready is written. *)
CancelStopsWriting == lateWrites <= 1
=============================================================================
