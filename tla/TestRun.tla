------------------------------- MODULE TestRun -------------------------------
(***************************************************************************)
(* A CreateTestsCoverageAndResult request from init() to its response      *)
(* (coverage/TestRunner.cpp, CoverageAndResultsGenerator.cpp and the two   *)
(* coverage tools): tests are listed, run one by one and their coverage is *)
(* collected.  Test processes answer through files of the project, which   *)
(* survive the request and the server: gtest-results.json, the profiles    *)
(* (.gcda or .profraw) and the coverage report.                            *)
(*                                                                         *)
(* The requests of one client run one after the other (RequestServer), so  *)
(* there is one at a time.  How a child process ends is that of ForkTask.  *)
(***************************************************************************)
EXTENDS FiniteSets

CONSTANTS Projects, \* the sets of tests, records [file, name], a project may have
          Tools,    \* the coverage tools the compiler of a project may need
          ListFlag  \* stands for the name of a run with --gtest_list_tests

Tests == UNION Projects
Files == {t.file : t \in Tests}
Listing(f) == [file |-> f, name |-> ListFlag]

ASSUME TestRunAssumption ==
    /\ Tools \subseteq {"gcov", "llvm-cov"}
    /\ \A t \in Tests : DOMAIN t = {"file", "name"} /\ t.name # ListFlag

VARIABLES tests,       \* the TEST() cases in the test directory of the project
          tool,        \* getCoverageTool(): given by the compiler of the project
          phase,       \* the point the handler has reached
          request,     \* scope of the test filter, and whether coverage is wanted
          cancelled,   \* ServerContext::IsCancelled()
          files,       \* test files not yet listed
          launched,    \* testsToLaunch
          left,        \* the tests of the loop that have not been started
          current,     \* the test being run, as a set
          results,     \* testResultMap
          errors,      \* `exceptions` is not empty
          status,      \* what generate() returns
          coverage,    \* coverageMap, as the profiles it was computed from
          truth,       \* [t] the verdicts that fit what the process of t really did
          resultFile,  \* content of gtest-results.json
          profiles,    \* the profile files
          merged,      \* main.profdata, or the archives gcov leaves for gunzip
          report       \* coverage.json, or the json files of gcov

requestState == <<request, cancelled, files, launched, left, current, results, errors,
                  status, coverage, truth>>
disk == <<resultFile, profiles, merged, report>>
project == <<tests, tool>>
runVars == <<project, phase, requestState, disk>>

Scopes == {"project", "file", "test"}
NoRequest == [scope |-> "project", coverage |-> FALSE]
Verdicts == {"PASSED", "FAILED", "DEATH", "INTERRUPTED"}
Reports == {"none", "torn", "passed", "failed"}    \* torn: not valid JSON
Endings == {"exit", "crash", "killed"}
Profiles == [of : Tests \cup {Listing(f) : f \in Files}, old : BOOLEAN]
Phases == {"idle", "init", "clean", "list", "cleanAgain", "commands", "loop", "test",
           "after", "collect", "merge", "export", "read", "reply"}

TestRunTypeOK ==
    /\ tests \in Projects /\ tool \in Tools
    /\ phase \in Phases
    /\ request \in [scope : Scopes, coverage : BOOLEAN]
    /\ cancelled \in BOOLEAN /\ errors \in BOOLEAN
    /\ files \subseteq Files
    /\ launched \subseteq Tests /\ left \subseteq launched /\ current \subseteq launched
    /\ results \in [Tests -> Verdicts \cup {"none"}]
    /\ status \in {"OK", "FAILED_PRECONDITION", "CANCELLED", "UNKNOWN"}
    /\ truth \in [Tests -> SUBSET Verdicts]
    /\ resultFile \in Reports
    /\ profiles \subseteq Profiles /\ merged \subseteq Profiles
    /\ report \subseteq Profiles /\ coverage \subseteq Profiles

TestRunInit ==
    /\ tests \in Projects /\ tool \in Tools
    /\ phase = "idle"
    /\ request = NoRequest /\ cancelled = FALSE /\ errors = FALSE /\ status = "OK"
    /\ files = {} /\ launched = {} /\ left = {} /\ current = {} /\ coverage = {}
    /\ results = [t \in Tests |-> "none"]
    /\ truth = [t \in Tests |-> {}]
    /\ resultFile = "none" /\ profiles = {} /\ merged = {} /\ report = {}
-----------------------------------------------------------------------------
ProjectFiles == {t.file : t \in tests}
GoTo(p) == phase' = p

(* A new request with its filter: the project, a file or a test. *)
Start ==
    /\ phase = "idle"
    /\ \E scope \in Scopes, wanted \in BOOLEAN :
         /\ request' = [scope |-> scope, coverage |-> wanted]
         /\ \/ scope = "project" /\ files' = ProjectFiles /\ UNCHANGED launched
            \/ scope = "file" /\ (\E f \in ProjectFiles : files' = {f}) /\ UNCHANGED launched
            \/ scope = "test" /\ (\E t \in tests : launched' = {t}) /\ UNCHANGED files
    /\ GoTo("init")
    /\ UNCHANGED <<project, cancelled, left, current, results, errors, status, coverage, truth,
                   disk>>

Cancel ==
    /\ phase # "idle" /\ ~ cancelled
    /\ cancelled' = TRUE
    /\ UNCHANGED <<project, phase, request, files, launched, left, current, results, errors, status,
                   coverage, truth, disk>>

(* generate() is left with this status. *)
ReplyWith(s) ==
    /\ status' = s
    /\ GoTo("reply")
    /\ UNCHANGED <<project, request, cancelled, files, launched, left, current, results, coverage,
                   truth, disk>>

(***************************************************************************)
(* throwIfCancelled(), called by cleanCoverage, by every round of a loop   *)
(* with progress, at the start of runTests and after every test.  Reading  *)
(* the report of llvm-cov is not in the list: see ReadFails.               *)
(***************************************************************************)
LooksAtCancellation ==
    \/ phase \in {"clean", "cleanAgain", "commands", "after", "merge", "export"}
    \/ phase = "list" /\ request.scope = "project" /\ files # {}
    \/ phase = "loop" /\ left # {}
    \/ phase = "read" /\ tool = "gcov"

ThrowIfCancelled ==
    /\ LooksAtCancellation
    /\ cancelled
    /\ ReplyWith("CANCELLED")
    /\ UNCHANGED errors

Reaches(p) == phase = p /\ ~ (LooksAtCancellation /\ cancelled)

(* init(): the coverage tool is made from compile_commands.json. *)
MakeTool ==
    /\ Reaches("init")
    /\ GoTo(IF request.coverage THEN "clean" ELSE "list")
    /\ UNCHANGED <<project, requestState, disk>>

(* An unsupported compiler is caught, a missing database is not. *)
MakeToolFails ==
    /\ Reaches("init")
    /\ \E s \in {"FAILED_PRECONDITION", "UNKNOWN"} : ReplyWith(s)
    /\ UNCHANGED errors

(* cleanCoverage() removes the profiles and the directory of the reports. *)
CleanCoverage ==
    /\ Reaches("clean")
    /\ profiles' = {} /\ merged' = {} /\ report' = {}
    /\ GoTo("list")
    /\ UNCHANGED <<project, requestState, resultFile>>

(* Mutant of CleanAgain: nothing is cleaned after the tests are listed. *)
KeepListing ==
    /\ Reaches("cleanAgain")
    /\ GoTo("commands")
    /\ UNCHANGED <<project, requestState, disk>>

CleanAgain ==
    /\ Reaches("cleanAgain")
    /\ profiles' = {} /\ merged' = {} /\ report' = {}
    /\ GoTo("commands")
    /\ UNCHANGED <<project, requestState, resultFile>>

(* A process that exits writes its profile: gcov's adds up, llvm-cov's is *)
(* the .profraw named after the test, which replaces one of that name.    *)
WithProfile(run) ==
    {p \in profiles : tool = "gcov" \/ p.of.name # run.name} \cup {[of |-> run, old |-> FALSE]}

(* getTestsFromMakefile(): the program runs once to list its tests.  The  *)
(* filter of a function selects some; a program without main lists none.  *)
ListTests(f) ==
    /\ Reaches("list")
    /\ f \in files
    /\ files' = files \ {f}
    /\ \E some \in SUBSET {t \in tests : t.file = f} : launched' = launched \cup some
    /\ profiles' = IF tool = "gcov" THEN WithProfile(Listing(f)) ELSE profiles
    /\ UNCHANGED <<project, phase, request, cancelled, left, current, results, errors, status,
                   coverage, truth, resultFile, merged, report>>

(* A file of the project without a makefile is skipped with a warning. *)
SkipFile(f) ==
    /\ Reaches("list")
    /\ f \in files /\ request.scope = "project"
    /\ files' = files \ {f}
    /\ UNCHANGED <<project, phase, request, cancelled, launched, left, current, results, errors,
                   status, coverage, truth, disk>>

(* ExecutionProcessException: recorded and skipped in a project, the end  *)
(* of the request for a file.                                             *)
ListFails(f) ==
    /\ Reaches("list")
    /\ f \in files
    /\ errors' = TRUE
    /\ IF request.scope = "project"
       THEN /\ files' = files \ {f}
            /\ UNCHANGED <<project, phase, request, cancelled, launched, left, current, results,
                           status, coverage, truth, disk>>
       ELSE ReplyWith("FAILED_PRECONDITION")

(***************************************************************************)
(* The command failed and its repetition, made for the message, succeeds:  *)
(* logFilePath is empty and value() throws what nobody catches.            *)
(***************************************************************************)
RetrySucceeds(f) ==
    /\ Reaches("list")
    /\ f \in files
    /\ ReplyWith("UNKNOWN")
    /\ UNCHANGED errors

AllListed ==
    /\ Reaches("list")
    /\ files = {}
    /\ GoTo(IF request.coverage THEN "cleanAgain" ELSE "commands")
    /\ UNCHANGED <<project, requestState, disk>>

(* runTests(): getBuildRunCommands() only builds command lines. *)
MakeCommands ==
    /\ Reaches("commands")
    /\ left' = launched
    /\ GoTo("loop")
    /\ UNCHANGED <<project, request, cancelled, files, launched, current, results, errors, status,
                   coverage, truth, disk>>

(* Mutant of StartTest: the result file of the last test is not removed. *)
StartBesideOldFile(t) ==
    /\ Reaches("loop")
    /\ t \in left
    /\ left' = left \ {t}
    /\ current' = {t}
    /\ GoTo("test")
    /\ UNCHANGED <<project, request, cancelled, files, launched, results, errors, status, coverage,
                   truth, disk>>

(* runTest() removes the result file and starts `make run`. *)
StartTest(t) ==
    /\ Reaches("loop")
    /\ t \in left
    /\ left' = left \ {t}
    /\ current' = {t}
    /\ resultFile' = "none"
    /\ GoTo("test")
    /\ UNCHANGED <<project, request, cancelled, files, launched, results, errors, status, coverage,
                   truth, profiles, merged, report>>

(* Mutant of Verdict: nothing is set when the file cannot be parsed. *)
VerdictUnset(interrupted, file) ==
    IF interrupted THEN "INTERRUPTED"
    ELSE [none |-> "DEATH", passed |-> "PASSED", failed |-> "FAILED", torn |-> "UNSET"][file]

(* What runTest() makes of the exit code and the result file. *)
Verdict(interrupted, file) ==
    IF interrupted THEN "INTERRUPTED"
    ELSE [none |-> "DEATH", passed |-> "PASSED", failed |-> "FAILED", torn |-> "FAILED"][file]

(***************************************************************************)
(* The test process ends: r is what it has written of the result file, how *)
(* the way it ended (a failed build crashes without a file).  A process    *)
(* killed by the timeout, the cancellation or the system is not always     *)
(* reported with TIMEOUT_CODE: see InterruptedIsReported of ForkTask.      *)
(***************************************************************************)
TestEnds(r, how) == \E t \in current :
    /\ phase = "test"
    /\ r = "torn" => how # "exit"
    /\ truth' = [truth EXCEPT ![t] = {Verdict(FALSE, r)}
                                     \cup {v \in {"INTERRUPTED"} : how = "killed"}]
    /\ resultFile' = IF r = "none" THEN resultFile ELSE r
    /\ \E interrupted \in IF how = "killed" THEN BOOLEAN ELSE {FALSE} :
         results' = [results EXCEPT ![t] = Verdict(interrupted, resultFile')]
    /\ profiles' = IF how = "exit" /\ (tool = "gcov" \/ request.coverage)
                   THEN WithProfile(t) ELSE profiles
    /\ current' = {}
    /\ GoTo("after")
    /\ UNCHANGED <<project, request, cancelled, files, launched, left, errors, status, coverage,
                   merged, report>>

NextTest ==
    /\ Reaches("after")
    /\ GoTo("loop")
    /\ UNCHANGED <<project, requestState, disk>>

AllRun ==
    /\ Reaches("loop")
    /\ left = {}
    /\ IF request.coverage
       THEN GoTo("collect") /\ UNCHANGED <<project, requestState, disk>>
       ELSE ReplyWith("OK") /\ UNCHANGED errors

(* collectCoverage() leaves the interrupted tests out. *)
Finished == {t \in launched : results[t] # "INTERRUPTED"}
Profraw(t) == {p \in profiles : p.of.name = t.name}

(* What the commands are to merge; gcov takes every file there is. *)
Collected == IF tool = "gcov" THEN profiles ELSE UNION {Profraw(t) : t \in Finished}

(* Mutant of NothingToCollect: goes on without the missing profiles. *)
NothingAtAll == Collected = {}

(* getCoverageCommands() returns none: one missing .profraw is enough. *)
NothingToCollect ==
    \/ Collected = {}
    \/ tool = "llvm-cov" /\ \E t \in Finished : Profraw(t) = {}

NoCoverage ==
    /\ phase = "collect"
    /\ launched = {} \/ NothingToCollect
    /\ ReplyWith("OK")
    /\ UNCHANGED errors

(* llvm-cov needs the binaries: `make bin` fails. *)
NoBinary ==
    /\ phase = "collect"
    /\ tool = "llvm-cov" /\ launched # {} /\ ~ NothingToCollect
    /\ ReplyWith("FAILED_PRECONDITION")
    /\ UNCHANGED errors

StartCollecting ==
    /\ phase = "collect"
    /\ launched # {} /\ ~ NothingToCollect
    /\ GoTo("merge")
    /\ UNCHANGED <<project, requestState, disk>>

(* llvm-profdata merge, or gcov; a failed gcov may leave part of its work. *)
Merge ==
    /\ Reaches("merge")
    /\ \/ merged' = Collected /\ UNCHANGED errors
       \/ /\ errors' = TRUE
          /\ IF tool = "gcov" THEN merged' \in SUBSET Collected ELSE UNCHANGED merged
    /\ GoTo("export")
    /\ UNCHANGED <<project, request, cancelled, files, launched, left, current, results, status,
                   coverage, truth, resultFile, profiles, report>>

(* llvm-cov export, whose output is useless when it fails, or gunzip. *)
Export ==
    /\ Reaches("export")
    /\ \/ report' = merged /\ (merged # {} \/ tool = "gcov") /\ UNCHANGED errors
       \/ /\ errors' = TRUE
          /\ report' \in IF tool = "gcov" THEN SUBSET merged ELSE {{}}
    /\ GoTo("read")
    /\ UNCHANGED <<project, request, cancelled, files, launched, left, current, results, status,
                   coverage, truth, resultFile, profiles, merged>>

(* getCoverageInfo(), getTotals() and the execution statistics. *)
Read ==
    /\ Reaches("read")
    /\ tool = "llvm-cov" => report # {} /\ ~ cancelled
    /\ coverage' = report
    /\ status' = "OK"
    /\ GoTo("reply")
    /\ UNCHANGED <<project, request, cancelled, files, launched, left, current, results, errors,
                   truth, disk>>

(***************************************************************************)
(* llvm-cov's getCoverageInfo() turns every std::exception into a          *)
(* CoverageGenerationException: a bad report, and also a cancellation.     *)
(***************************************************************************)
ReadFails ==
    /\ phase = "read"
    /\ tool = "llvm-cov"
    /\ report = {} \/ cancelled
    /\ ReplyWith("FAILED_PRECONDITION")
    /\ UNCHANGED errors

(* The generator dies with its maps; the files stay for the next request. *)
EndOfRequest(file, written) ==
    /\ GoTo("idle")
    /\ request' = NoRequest /\ cancelled' = FALSE /\ errors' = FALSE /\ status' = "OK"
    /\ files' = {} /\ launched' = {} /\ left' = {} /\ current' = {} /\ coverage' = {}
    /\ results' = [t \in Tests |-> "none"]
    /\ truth' = [t \in Tests |-> {}]
    /\ resultFile' = file
    /\ profiles' = {[p EXCEPT !.old = TRUE] : p \in written}
    /\ merged' = {[p EXCEPT !.old = TRUE] : p \in merged}
    /\ report' = {[p EXCEPT !.old = TRUE] : p \in report}
    /\ UNCHANGED project

(* showErrors() writes the response, unless the request was cancelled. *)
Respond == phase = "reply" /\ EndOfRequest(resultFile, profiles)

(* The server dies.  A test has a process group of its own and goes on: it *)
(* is taken to end before the server is back.                              *)
Crash ==
    /\ phase \notin {"idle", "reply"}
    /\ \/ EndOfRequest(resultFile, profiles)
       \/ \E t \in current, file \in Reports \ {"none"} :
             \/ EndOfRequest(file, profiles)
             \/ (tool = "gcov" \/ request.coverage) /\ EndOfRequest(file, WithProfile(t))

TestRunNext ==
    \/ Start \/ Cancel \/ ThrowIfCancelled \/ MakeTool \/ MakeToolFails
    \/ CleanCoverage \/ CleanAgain
    \/ \E f \in Files : ListTests(f) \/ SkipFile(f) \/ ListFails(f) \/ RetrySucceeds(f)
    \/ AllListed \/ MakeCommands
    \/ \E t \in Tests : StartTest(t)
    \/ \E r \in Reports, how \in Endings : TestEnds(r, how)
    \/ NextTest \/ AllRun
    \/ NoCoverage \/ NoBinary \/ StartCollecting \/ Merge \/ Export \/ Read \/ ReadFails
    \/ Respond \/ Crash

TestRunSpec == TestRunInit /\ [][TestRunNext]_runVars
-----------------------------------------------------------------------------
(***************************************************************************)
(* A verdict is that of the test's own process in this request, although   *)
(* all tests and all requests of the project share one result file.        *)
(***************************************************************************)
ResultIsOwn ==
    \A t \in Tests : results[t] # "none" => results[t] \in truth[t]

(***************************************************************************)
(* The coverage of a response comes from the tests it reports, and neither *)
(* from an earlier request nor from the runs that only list the tests.     *)
(* That of llvm-cov is all or nothing: when there is any, every test that  *)
(* was not interrupted has contributed, provided the launched tests have   *)
(* different names, because a .profraw is named after the test only.       *)
(***************************************************************************)
DistinctNames == \A t, u \in launched : t.name = u.name => t = u

CoverageIsOwn ==
    /\ \A p \in coverage : ~ p.old /\ p.of \in launched
    /\ tool = "llvm-cov" /\ coverage # {} /\ DistinctNames =>
          \A t \in Finished : \E p \in coverage : p.of = t
=============================================================================
