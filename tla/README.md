# A TLA+ model of the UnitTestBot server

UnitTestBot generates unit tests for C and C++ projects. An IDE plugin (VS Code or CLion) sends
gRPC requests to a server; the server parses the project, runs KLEE in child processes, prints
tests, builds and runs them, and streams progress, results and logs back. This directory holds TLA+
modules that model the parts of the server that are hard to get right by testing, the TLC
configurations that check them on small instances, and TLAPS proofs of what holds for every
instance.

Paths below are relative to the repository; `S/` stands for `src/server/src/`.

## 1. The system

### Components, their state and their operations

| Component | State it keeps | Operations | Correct when |
|---|---|---|---|
| Request lock `S/utils/FairMutex.*` | `next`, `curr`, condition variable | `lock`, `try_lock`, `unlock` | one holder, first come first served, nobody forgotten |
| Request dispatch `S/Server.{h,cpp}`, `S/RequestEnvironment.cpp`, `S/utils/ServerUtils.cpp` | map `locks` from client id to lock; `thread_local` client id and `ServerContext` of each gRPC thread | the gRPC handlers, `setThreadOptions`, `getLock`, `acquireLock`, `throwIfCancelled`, the catch clauses | one request per client at a time; every request answered; a request never sees another's identity or cancellation |
| Log channels `S/Server.cpp`, `S/utils/LogUtils.cpp` | `openedChannel`, `openedGTestChannel`, `holdLockFlag`, `linkedWithClient`, loguru's list of callbacks | `Open*Channel`, `Close*Channel`, `Heartbeat`, the watcher thread | one stream per channel; no callback outlives its stream; a closed or forgotten channel can be opened again |
| Child processes `S/tasks/*` | child pid, signal index, output file | `run`, the polling loop, `redirectOutput`, `waitAfterSignal` | the status is the child's, the child does not outlive the run, a stop request ends the run |
| Client registry `S/utils/ServerUtils.cpp`, `S/ThreadSafeContainers.h` | `clients`, `clients.json`, log directories | `RegisterClient`, `loadClientsData` | every registered client survives a restart |
| Project configuration `S/building/UserProjectConfiguration.cpp` | the build directory and its JSON files | check, create, generate, reconfigure | `IS_OK` only when the directory is usable |
| Test generation `S/KleeRunner.cpp`, `S/KleeGenerator.cpp`, `S/testgens`, `S/streams` | the tests of a request, the KLEE output directory | fetch, synchronize stubs, build bitcode, link, run KLEE, print | a test file is written once, and only from results of this request |
| Test runner and coverage `S/coverage` | result map, result file, coverage data | build, run, collect | a result belongs to the test that was run |
| Synchronizer and stubs `S/Synchronizer.cpp`, `S/stubs` | stub and wrapper files with their times | synchronize stubs, wrappers, prepare directory | a stub is never older than its source |
| Build database, linker `S/building` | compile and link commands, targets | find units, choose the root, link bitcode | the closure of a target contains what it needs |
| Front end `S/fetchers`, `S/visitors`, `S/types`, `S/clang-utils` | types and declarations of a project | traverse the AST; decide from a type how its values are communicated | harness, reading and test take a type for the same thing |
| Printers, SARIF | text being printed | print the harness of KLEE, the tests, the stubs | every variable can hold the value it gets; what is asserted is what was assumed |
| Test cases `S/Tests.cpp` | the objects of a test case and what points to them | read what KLEE has found | no value is lost, the pointers of a test are those of its case |
| Command line `S/commands`, `S/utils/CLIUtils.cpp`, `S/utils/GrpcUtils.cpp` | none beyond a request | generate, stubs, run tests, all | the server does what was typed |
| VS Code client `src/vscode-plugin/src` | connection status, `newClient`, streams | heartbeat ticker, provide channels, requests | reconnects, opens its channels once |
| CLion client `src/clion-plugin/src/main/kotlin` | client, coroutine jobs, connection status | heartbeat, reconnect, requests, dispose | as above; jobs end with their client |

### How they interact

A call reaches a thread of gRPC's synchronous server. `setThreadOptions` stores the client id and the
`ServerContext` in `thread_local` variables, where `throwIfCancelled` and the fork tasks read them.
`acquireLock` finds or creates the lock of that client and waits for it. The work then runs in the
same thread; it starts children through `BaseForkTask::run`, which polls both the child and the
cancellation of the request. Everything it logs passes through loguru, which calls back the log
channels: these are other handler threads, kept alive by a spin loop because the stream's writer dies
when the handler returns. Clients call `Heartbeat`; a watcher thread forgets those that stopped.

### What is hard

* Threads: the request lock, the unsynchronised map of locks, the flags of the log channels.
* State that outlives its owner: `thread_local` contexts, callbacks that point to a stack frame.
* Exceptions that leave a handler at many points, with a lock held.
* Cancellation and timeouts that race with the end of a child; signals that fail or hit the wrong group.
* `fork()` in a process with threads.
* Files used for communication: one result file per project, one KLEE log, one `clients.json`.

* Names: what make finds under a name was built by another request; stubs are judged by their times.
* Two pieces of code that have to agree: the program KLEE runs and the program of the tests are put
  together by different code, and so are a test case and the objects it is read back into.

The hazards, each with its line, are listed in `PROJECT.json` together with the properties that would
show them going wrong, or the reason why no property covers them.

## 2. The modules

### Which module models what

| Module | Models | Extends / instantiates |
|---|---|---|
| `FifoLock` | abstract: what the request lock promises, a first-come first-served queue | |
| `FairMutex` | `S/utils/FairMutex.*`, one per client | `FifoLock` (refinement) |
| `RequestServer` | `S/Server.*`, the identification in `S/utils/ServerUtils.cpp`, `S/RequestEnvironment.cpp`, the catch clauses | `FairMutex`: the locks of the server |
| `LogChannels` | the log channel handlers, `Heartbeat`, `S/utils/LogUtils.cpp` | |
| `Session` | the client registry (`registerClient`, `loadClientsData`, `S/ThreadSafeContainers.h`) and the VS Code client (`client.ts`), with a server that crashes and restarts | `LogChannels`: the channels of the server |
| `ForkTask` | `S/tasks/BaseForkTask.*`; `RunKleeTask` and `ShellExecTask` as values of the constant `Tasks` | |
| `TestRun` | `S/coverage/*`: one request for tests and coverage after another on the files of a project | |
| `ResultsView` | what VS Code shows of a run: icons beside tests and lines, edits, hiding, tests generated anew (`testsRunner.ts`, `visualizers`, `responseHandler.ts`, `gen.ts`) | `TestRun`: the answers |
| `Generation` | the stages of `ProcessBaseTestRequest`: filters, `KleeGenerator`, the outcome of `Linker`, `KleeRunner`, `ServerTestsWriter` | |
| `Synchronizer` | `S/Synchronizer.cpp`, `S/stubs`, the wrappers of `SourceWrapperPrinter` | |
| `BuildDatabase` | `S/building/ProjectBuildDatabse.cpp`, `BuildDatabase.cpp`, `TargetBuildDatabase.cpp`: from the two JSON files to a target | |
| `Commands` | command lines: `S/building/BaseCommand.*`, `CompileCommand.*`, `LinkCommand.*`, and what the database, `KleeGenerator`, `Linker` and the makefile printers make of them | |
| `Paths` | `S/Paths.*` and who else makes names of files and symbols: which file belongs to which source | |
| `Requests` | messages: what the command line (`S/commands`, `S/utils/CLIUtils.cpp`, `S/utils/GrpcUtils.cpp`) and CLion's builders put into them, what `S/testgens`, `S/coverage/TestRunner.cpp` and `S/SettingsContext.cpp` take out, the way back of paths to CLion | `Paths` |
| `Linking` | `Linker`, `NativeMakefilePrinter`, `TestMakefilesPrinter`, `StubSourcesFinder`: what goes into what, under which names | `BuildDatabase`, `Commands`, `Paths` |
| `ProjectConfiguration` | `ConfigureProject`, `S/building/UserProjectConfiguration.cpp`, and the dialogs of both IDEs (`projectConfig.ts`, `ProjectConfigurationHandler.kt`) | |
| `ImportedProject` | from the configuration to the database read from its files | `ProjectConfiguration`, `Linking` |
| `KTest` | the objects of a test case in `S/Tests.cpp`: the values of their bytes, the pointers between them | |
| `Types` | what `S/types/Types.cpp` says of a type: pointers, extents, structures and unions, which of them the filters let through | |
| `Visitors` | `S/visitors`: the elements of a value that are assumed by the harness, asserted by a test, or given a stub | `Types` |
| `Harness` | one function in three texts: `S/printers/KleePrinter.cpp`, the arguments in `S/Tests.cpp`, `S/printers/TestsPrinter.cpp` | `Visitors` |
| `Literals` | bytes of KLEE's objects as expressions of C++ (`S/Tests.cpp`, `S/Tests.h`, `S/utils/StringUtils.cpp`), and what a compiler reads there | |
| `Predicates` | tests with a prompted result: the dialogs of both IDEs, what the harness assumes, what the server keeps, what a test compares | `Literals` |
| `Declarations` | the declarations of a C source: what the fetchers note of it, what `S/clang-utils/SourceToHeader*` writes into header and wrapper, what a stub defines, the names of types | |
| `Fetching` | what the callbacks of `S/fetchers` put into the tables that all sources of a request share; `S/types/TypesResolver.cpp` | `Declarations` |
| `Reports` | from KLEE's `.err` files over the marks in the text of the tests to `S/SARIFGenerator.cpp` | |
| `LineFlags` | tests of a line: `S/BordersFinder.*`, `KleePrinter::addTestLineFlag`, the path flag | |
| `TestCases` | `parseTestCases` and `genTests`: the way of one test case | `KTest`, `Harness`, `Predicates`, `Fetching`, `Reports`, `LineFlags` |
| `*Proofs` | theorems about the module they are named after; `SessionProofs` also about `LogChannels`, `TestRunProofs` about `ResultsView`, `ImportedProjectProofs` about `ProjectConfiguration`, `BuildDatabase` and `Linking` | it and `TLAPS` (`TestRunProofs`: `ResultsView`) |
| `MC*` | small constants, symmetry and views for TLC; `FairMutex`, `LogChannels`, `Session` and `Synchronizer` need none and are run with the `.cfg` of their own name | the module they are named after (`MCTestRun`: `ResultsView`; `MCBuildDatabase`: `ImportedProject`; `MCTestCases`: `TestCases` and, for the objects, `MCKTest`) |

Composition. `RequestServer` extends `FairMutex` and its actions contain the actions of the mutex, so
the locks are the real ones and not a stand-in. `Session` extends `LogChannels` the same way: what the
client asks for is served by the actions `Open`, `Close`, `Heartbeat` and `Provide` of the handlers.
`ResultsView` loads what `Respond` of `TestRun` answers. For a project that is open in the IDE all of a run
between its start and its answer is one step with any outcome, since it does not look at the window;
other projects of the same configuration run step by step.
`Linking` extends `BuildDatabase` and asks its questions of every database the commands can lead to.
`TestCases` lets the steps of `KTest` happen where `Harness` has parsed the arguments and not yet
printed them, and skips the printing of a case that `KTest` drops.
`TestRun`, `Generation` and `Synchronizer` take one request at a time, which is `OneTaskPerClient`, and
let a child end in the ways `ForkTask` allows (in particular a killed child that is or is not reported
as interrupted). That the work of a request ends (fairness of `RequestServer`) is `StopEndsRun` of
`ForkTask` for cancelled and timed children.

### State and actions against the code

* `FairMutex`. `next` and `curr` are the members, `ticket` is the local variable `request`, `state`
  says where in a method a thread is. A method runs under the inner `std::mutex` and is one action;
  `lock()` is split where `cv.wait` lets go of it: `LockEnter` takes a ticket and returns or sleeps,
  `Recheck` tests the predicate after a wake-up, `SpuriousWake` is a wake-up without a notification.
  `Unlock` increments `curr` and wakes everybody (`Notified`). Tickets are numbers modulo `TicketMod`,
  2^64 in the program.
* `RequestServer`. A thread takes a call (`Receive`), identifies it (`SetThreadOptions`,
  `RejectUnnamed`), looks up its lock (`FindLock`, `MissLock`, `InsertLock`: the two halves of
  `try_emplace`), takes it (`TryAcquire`; or `FindBusy`, `AnnounceWait`, `BlockOnLock`, `Wake`,
  `Check`), builds the generator inside its try block (`Construct`, `ConstructFails`), works
  (`WorkDone`, `WorkFails` with each family of exceptions mapped by the handler's own clauses),
  destroys the `unique_lock` (`Release`) and returns (`Reply`). The environment of a thread is not
  cleared in between, as in the code. The kinds of requests group handlers with the same structure;
  the comment above `Streaming` lists them.
* `LogChannels`. `provideLoggingCallbacks` line by line: `Open` (load), `Claim` (compare and
  exchange), `AddCallback`, `RaiseFlag`, the spin, `LeaveSpin`, `RemoveCallback` (removes the oldest
  of that name, as loguru does), `EndStream`. `Close`, `Heartbeat` and `Watch` are whole handlers.
* `Session`. A heartbeat of the client is a sequence of places (`stage`): `Insert`, `StartWrite`,
  `EndWrite` are `registerClient` on the server, each half under the mutex of the set, and the file is
  cut off in between; `Named` is the metadata that is set once the registration is answered; `Serve`
  is the handler `Heartbeat`; `Succeed`, `FirstTime`, `FirstTimeFails`, `Fail` are the callbacks of
  the client, cut where it waits for its own listeners. `Ask` sends a Close that is not awaited and an
  Open, served in any order by `ServeClose` and `ServeOpen`. `Crash` takes everything the process
  holds and leaves `clients.json`; `Start` reads it.
* `ForkTask`. The parent is the loop of `waitForFinishedOrCancelled` cut at its system calls
  (`CheckStop`, `GetPgid`, `PkillChild` / `PkillServer` / `PkillFails`, `Poll`, `Collect`); the child
  goes through `setpgid`, `redirectOutput` and its job; the world lets time pass, cancels and stops.
* `TestRun`. `phase` is the place in `generate()`; `files`, `launched`, `left` are the iterations;
  `results` is `testResultMap`. The disk is `resultFile`, `profiles` (`.gcda` or `.profraw`, each with
  the run that wrote it and whether it is from an earlier request), `merged` and `report`. `truth` is
  a history variable: the verdicts that fit what the test's own process did. A report is the set of
  profiles it was computed from; which lines that covers is left out. Tests are processed in any
  order, which includes the order of the directory.
* `ResultsView`. `data` are `testsWithStatuses` and `coverages`, `screen` the decorations that are set,
  `editors` and `hidden` the members of the visualizers. A mark carries the version of the text it was
  computed from, which the program does not know. Handlers of the extension run between two awaits at once:
  `Answered` is the end of `TestsRunner.run`, `HandleTests`, `ShowTests` and `TestsDone` are what becomes of
  an answer with generated tests, `Edit`, `Activate`, `Delete`, `HideAll` the listeners of the editor.
* `Generation`. `stage` is the place in a request, `todo` what the current loop has still to visit,
  `tests` the `Tests` of each file: the functions that are left, those a comment names, those whose
  wrapper compiles (`correct`), `isFilePresentedInArtifact` and the test cases. `BuildKleeFile` is one
  turn of `buildKleeFiles` with its fallback; `Link` and `LinkFails` end in `addToGenerated`; `RunKlee`
  is one run of KLEE and `processMethod` on its directories; `Write` is `writeFileAndSendResponse`.
  The disk is `testFiles` and `kleeOut`; each test case carries the request that made it. A
  cancellation is an event at any moment and is seen where the code calls `throwIfCancelled`.
* `Synchronizer`. A generated file has a version (of the source it was made from), a stamp and a mark
  that the user edited it. `Begin` judges the stubs and removes the extra ones; `Fetch`, `MakeStub`,
  `MakeHeader`, `Write` are the two halves of a stub's making; `Compare`, `Wrap`, `PrintWrapper` are
  those of a wrapper. `excused` is a history variable: what was read before an edit and stamped after
  it, or cut off by a crash, where the code's times cannot tell.
* `BuildDatabase`. One action reads one command, in any order the files may have; `SortSources`,
  `Resolve` (`filterInstalledFiles`, `addLocalSharedLibraries`) and `FillParents` are the passes after
  it. `infos` are the `ObjectFileInfo` objects, which two maps point to. The queries are operators:
  `Root`, `TargetFiles`, `RootTargets`; the recursions of the code are `Reached`, the least set that has the
  start and all a step leads to. `Request` is the constructor of `TargetBuildDatabase`.
* `Commands`. Operators only. A line is a sequence of arguments, each a kind (what the code looks at) and
  a name, with the places its three iterators point to; inserting, erasing nodes and erasing values move
  these as the code does. `CompileLinesAssumption` and `LinkLinesAssumption` say which lines are meant (section 3). `Effect` is what a compiler makes of a line: inputs, output, last level.
* `Paths`. Operators only, with the names of the functions. A path is a sequence of names and a name a
  sequence of the words and marks the code looks for (`.`, `-`, `_dot_`, `_test`), so that `addSuffix`,
  `mangle` or `RelativeTo` are operations on sequences. `OwnFiles` are the files of a source that tell it
  from all others, `FilesOfTheStem` those named without its extension. `cleanCoverage` says which files are gone.
* `Requests`. Operators only. A path is a record: from the root or from where its reader stands. `generate`, `run` and `all`
  make messages of a command line, `RequestBuilder` and `TestFilterBuilder` of what is chosen in CLion; `TestedBy`,
  `TargetFor` and `getTestsToLaunch` are what the server takes them for. `Means` says the same without messages.
* `Linking`. Operators only. A request is a record (`FileRequest`, `FolderRequest`, `ProjectRequest`);
  `Built` is every file some rule of its makefiles makes, a name with a content: the objects in it,
  each with the body of its source or of its stub.
* `ProjectConfiguration`. `dialog` is what the IDE shows, `handler` where the server is with its request,
  `answers` the stream between them: VS Code's promise is resolved by its first answer, CLion handles the
  last. `disk` has the build directory and its two files, each whole, partial or absent; one action per
  command of the build, which may fail at any point or be killed; `RunProjectConfigurationCommands` is the
  end of the handler and its catch clause. `current` is a history variable: nobody has changed the
  directory since the answer. `ImportedProject` lets the database be opened whenever no handler is at work.
* `KTest`. One action for the parameters (`Parameters`), one for each object at the head of the queue
  (`Visit`: `assignTypeUnnamedVar`), one for each object's pointers (`Assign`: `assignAllLazyPointers`).
  What `structView` prints of a structure or a union is `ValueOf`, a recursive operator.
* `Harness`. `stage` is the place of a function: `WriteTestedFunction` writes its harness (`symbolic`
  are the objects made symbolic with the elements of each, `assumed` what is assumed to be equal after
  the call), or `NotWritten` where it throws; `Explore` is a path of KLEE: it ends inside the function
  or returns, NULL or not, with lazy objects or without; `ParseTestCaseParams` takes one view from the
  case for each object it expects; `WriteTestCase(form)` prints the verbose or the parametrized test:
  its `variables`, the `arguments` of its call and what is `compared`.
* `Types`, `Visitors`. Operators only. A type is the list of its pointers, arrays and functions from
  the outside in, with a base; a base may be a structure or a union with members of such types. The
  elements of a value are what a visitor reaches: paths of members, indices and dereferences.
* `Literals`, `Predicates`. Operators only, with the names of the functions. A text is a sequence of codes, a
  number is printed as a value with a suffix; `Codes` and `ReadDecimal` are the compiler's reading of both.
  They do not depend on the state, so one state looks at them (`AtSamples`); the same goes for the next four.
* `Declarations`. Operators only. A source is the sequence of its declarations in the order Clang visits
  them. `getFullname` gives types their names, `Denoted` is what C++ can call them in the header;
  `Fetched`, `NotedMethods`, `externVariables` and `globalParams` are what the fetchers and visitors of usages find;
  `checkVarDecl` and `checkFunctionDecl` choose what `generateInternal` and `generateWrapper` write.
* `Fetching`. Operators only. A source is the nodes of its tree in the order of the walk; `Walk` shows each to the
  callbacks in the order of `addMatcher` (`MatchersOf`), and these fill one record, whose fields have the names of the
  members of `Fetcher`: `CheckDefinition` and `CheckStructDecl` the types, by the id that text and file make,
  `AddMethod`, `HandleUsage`, `NoteSubscript` and `NoteReturn` the methods. `Fetch` starts from the types that are known,
  for the sources of stubs from those of the request, and ends with `postProcess`.
* `Reports`. Operators only. A test that KLEE left is a record; `codeText` and `finalText` are the text with
  the marks `printFinalCodeAndAlterJson` takes out; `ReadDescriptors` reads descriptors line by line, with the
  variables of `sarifAddTestsToResults`.
* `LineFlags`. Operators only. A text is a sequence of lines of tokens; `Statement` and `Ways` are the grammar and the
  meaning of C (external), `findInner` is the descent of `BordersFinder::run`, `addTestLineFlag` the writing of the text.
* `TestCases`. Operators of the modules, put together in the order of the code.

### Runs

| Run | Question | Bounds | Why they are enough |
|---|---|---|---|
| `fair_mutex` | exclusion, order, no lost wake-up, liveness, refinement of `FifoLock` | 3 threads, 2 mutexes, 4 tickets | a holder, the next in line and one behind it; the counters wrap many times; two mutexes show that they do not mix |
| `request_kinds` | safety of all handlers | 2 threads, 1 client with and without a name, all kinds of requests and exceptions | the properties relate two requests of one client, or successive requests of one thread; the theorems remove the bound |
| `request_answers` | every request answered; the locks are used as `FairMutex` allows | 2 threads, 2 mutexes, overlapping insertions | liveness is checked without symmetry or view, so only the simplest kind of request is let in; the path through the lock is the same for all |
| `request_overlap` | violation: see section 4 | 2 threads, 2 mutexes | |
| `log_channels` | streams and callbacks, with and without the watcher | 2 handlers; one client that keeps sending heartbeats and one that may fall silent | one provides, the other competes or comes later; the theorems remove the bound |
| `session` | registration, reconnection, asking for the log again | 2 handlers, 1 client, 2 overlapping heartbeats, 2 crashes or lost answers, one round of Close and Open on its way before the next | an answer can overtake one other, a crash can hit a registration and its repetition |
| `fork_tasks` | one run of a child, KLEE, a test or an export | the three tasks with their own signal lists | the loop keeps no counter but the index into the list of signals |
| `test_run` | verdicts and coverage | a project with two tests in one file, one with two files that have a test of the same name, and one open in the IDE, with one source and one change of each text; gcov and llvm-cov; any number of requests | a stale file needs an earlier run and a later one; two tests are enough to take one for the other; a mark is old after one change |
| `generation` | whose tests are written where | 2 files with 2 and 1 functions, 2 requests of any kind | a stale output needs an earlier request and a later one; a batch needs a file that fails and one that follows; the theorems remove the bound |
| `synchronizer` | which stubs and wrappers are made again | 1 file, 3 ticks, 3 versions, 3 requests | files do not influence each other but through a request's failure, which the theorems cover; a request, an edit in its tick and two requests that judge the result |
| `build_database` | roots, targets, what is linked, names of files and the way back from them; what command lines become; what the IDE calls configured | 3 sources and one in assembler, 2 libraries, 2 programs; up to 3 of 8 compile commands and 4 of 8 link commands in any order; compile lines with up to 2 of 7 switches, link lines of a program, a program without a name, a shared and a static library with up to one, or with `-static` and a level, in every order; 135 sources in 5 directories, one outside the project, with names that look like those of artifacts, under 2 layouts of the project; 9 names of programs and libraries; requests of every kind for every source and directory, typed in the project, above it or in its build directory, or chosen in CLion with a server here, elsewhere or under Windows, with and without the options, a target that is listed or gone, and three names of functions, one of which goes on like the name of a test; 4 places of the project on the client; 2 dialogs at a time, 2 changes by the user | a program of several sources, two objects of one source, a library in a library, the order before and after |
| `test_cases` | values and pointers of a test; harness, reading and test agree on every argument | 6 layouts with every content of their cells; every graph of up to 4 objects; 28 types of parameters alone and in pairs, 11 of globals, 17 of results with and without an object, among them structures and unions with pointers, arrays, private and function members; values, shapes and types vary in turn; arrays of 3 bytes of 3 bits read at every offset and length; every integer of 8 to 12 bits; strings of up to 3 of 13 characters; the values at the edges of each type with each operator of each IDE; 4 types within each other, and up to 2 declarations of a variable with 2 functions; a source of up to 3 declarations of types, two of 2 and 1, both to be tested or one for stubs; functions of up to 2 parameters of 6 types beside another source, with bodies of 2 statements; stacks of up to 4 calls, 2 methods of up to 2 tests, 2 files; 3418 functions of two nested branches or loops; up to 3 classes on 3 lines | nested unions and structures with padding; lists, cycles, shared objects, pointers into objects; each case the code distinguishes, and each of its neighbours in the list of arguments; a bit-field that begins and ends within bytes; digits and letters behind each kind of escape; a member within a member within a structure, a variable declared again, a function of every linkage; a type that is declared, defined and named by a typedef, in one source before and after those of another; two uses of one array, and a return before or after; stacks that leave the project and come back; every nesting of two statements |

`CHECK_DEADLOCK FALSE` appears for systems that really stop: a run of a child (`fork_tasks`), bounded
sequences of requests (`generation`, `synchronizer`), one database (`build_database`), one test case
(`test_cases`), and `session`, where a client whose initial heartbeat was never settled sends nothing more.

`ThreadSymmetry` is used in `request_kinds` only, which has no temporal property; no action or property
names a thread. The view `FromOpening` of `MCBuildDatabase` drops the dialogs once the database is being
read, which reads none of their variables. The view `LiveState` of `MCRequestServer`
leaves out a variable of a thread at points where every path assigns it before reading it (`lockRef`
before the lookup, `ticket` and `target` outside the mutex), and counts tickets from `curr`, since
actions only compare a ticket with `curr` and `next`. Two states with the same view have the same
successors up to the view and agree on every invariant of that run.

The type invariants are not in the runs: `MutexTypeOK`, `RequestTypeOK`, `LogTypeOK`, `ForkTypeOK` and
`GenTypeOK` are theorems; `TestRunTypeOK`, `SessionTypeOK` and `SyncTypeOK` are parts of the inductive
invariants that are proved; `BuildTypeOK` is a part of `ObjectsAreKnown`, itself a part
of `RootContainsSource`. `NoOrphanTicket` is a theorem and in no run either.

### Fairness

* `FairMutex`: weak fairness of `Recheck` and of `Unlock` for every thread: the operating system
  schedules a runnable thread, and a critical section ends. None for calling `lock`, none for
  spurious wake-ups.
* `RequestServer`: weak fairness of the steps of every handler, which covers the same two facts: its
  loops range over finite lists and its children end. Waking is not assumed: it is what `Unlock` does.
  None for requests or cancellations.
* `LogChannels`: weak fairness of the steps of a handler. The watcher and the heartbeats are not fair.
* `Session`: the ticker of the client ticks and its callbacks run, calls are served or refused, and
  handlers run. Nobody owes a start of the server, the removal of a broken file, or a first call.
* `ForkTask`: the parent and the delivery of SIGKILL are weakly fair, `pkill` is strongly fair (it may
  fail, not for ever). The child is never assumed to end by itself, and a child that inherited a
  locked log mutex does not.
* The other modules state safety only.

### What the passing runs show

* `FairMutex` excludes, serves in the order of arrival (also against `try_lock`), never loses a
  wake-up and loses nothing when the tickets wrap.
* Provided two insertions into the map of locks do not overlap, one client's requests run one by one;
  with overlap it fails (section 4). On every path out of a handler the lock is free (proved only) and the request
  is answered; a request does not see the identity or the cancellation of an earlier one on the thread.
* While a client sends heartbeats, a channel has one stream, no callback outlives its handler, and a
  Close ends a spinning stream. When the watcher intervenes no channel stays marked as open without a
  handler and no callback is left over; the other two do not hold then (section 4).
* A registration that was answered lasts: the ids of `clients.json` and of the running server contain
  the client after any crash, unless the file was cut off and had to be removed. A client that shows
  its connection as alive has asked this run of the server for its log. A server that stays up is
  found again, provided the initial heartbeat of the client was ever settled.
* A run of a child reports the child's own status or -1, never leaves a child that has not been sent
  SIGKILL, and ends once it is told to. `ReportsTheChild` and `ChildDoesNotOutlive` include a child
  that is stopped, hangs in its handler, or ends while it is being shut down.
* A verdict is that of the test's own process although the result file is shared by all tests and
  requests: removing it before each run is enough, also after a crash of the server. The coverage of a
  response comes from the tests it reports; this needs the second `cleanCoverage`, and the first one
  is not enough. llvm-cov's coverage is all or nothing: one test that dies leaves the whole request
  without coverage, since only interrupted tests are left out when the profiles are collected.
* A mark VS Code shows beside a text and does not call old is of the text as it is, however marks were
  hidden and shown again and tests generated anew. Exempt are changes the extension does not look at:
  while nothing of the text is marked on the screen, and while a run is in flight (section 4).
* The test cases of a test file come from the request that wrote it, although KLEE's output of a
  request that failed stays on disk. A function without tests is named in a comment, except one KLEE
  has left no directory for. A batch goes on past a file that cannot be linked and does not replace
  that file's tests. After a cancellation at most one file is written, the one whose code was ready.
* A stub or wrapper that is kept was made of the source as it is, but for two exceptions: an edit
  between reading the source and the stamp, and a file cut off after its first line. Bodies a user has
  written into a stub survive until the source changes or leaves the project.
* However the two JSON files are ordered, the tables of the database agree, the root found by climbing
  from a source is one of the targets found by descending to it, and a target chosen for a file can
  link it. The program of the tests is made of the bodies KLEE's module has, stub or source alike,
  and no request for a file or a project finds a different content under a name it uses.
* A project an IDE calls configured has both files of a build that went through, until somebody changes
  them, however many builds failed before, were cancelled, or run for another dialog; a database is never
  read from half a build. Exempt is VS Code's answer to Reconfigure (section 4).
* Wherever its options stand, a compile line becomes one that compiles the source it is given and nothing
  else to the file it is given, unoptimized, for KLEE and for the tests; a link line becomes one that links
  what was made of each file of its target, and never writes the user's output. Exempt are lines with an
  output or a level behind `-static` (section 4).
* Every source has tests, stubs, wrappers, bitcode and objects of its own, also when other sources are
  called `a_test.c` or `a_dot_c.c`; from the path of a test or of a stub the source is found again; of
  all the files only the stub of a source that is gone is cleared away; symbols that are made of paths
  differ, reports of KLEE are found, and versions of a library are one library, other libraries are not.
  The conditions (`simple`, `plain`, `IsInjective`) exempt names section 4 lists under "Names".
* What `cleanCoverage` removes is what the collection of coverage reads and nothing of a source (`OnlyCoverageIsCleaned`,
  a part of `NamesAreOwn`), for the sources of the project.
* However a path is typed and from wherever, and wherever the server has the project, a request is about the sources,
  the target and the tests that were chosen, and its limits are those that were given; what CLion is answered are the
  files of its own disk; commands that were written on the client are of the server's files, and those that
  need not be moved stay as they are (`RequestsMeanWhatIsChosen`). Section 4 lists what no message says.
* No member of a structure and no byte of a union KLEE has found is lost when the values are printed,
  whatever is in the padding, and the pointers of the test's objects are those of the test case: lists,
  cycles, shared objects, pointers into objects.
* The harness, the reader of KLEE's objects and the test agree about every argument: each object that
  is made symbolic is found again with as many elements (`EveryValueFits`), the variable of a test can
  hold them and fits the parameter it is passed for, and what a test compares after the call is what
  the harness has assumed, no more and no less (`AssertedAsAssumed`). Exempt are the types section 4
  lists under "Test cases".
* The bits of a test case arrive in the program a compiler makes of the test: bit-fields wherever they begin,
  the least integers, characters and strings whatever follows an escape (`TestCaseIsReproduced`).
* A case that is kept for a prompted result meets the predicate, and both forms of its test pass, also where
  the least or greatest value is compared in another type than its own; no result that meets the predicate is
  lost (`AssertedAsAssumed`). Exempt is what the dialogs accept although it is no value of the type or does not
  compile, and for the last part what is compared as text (section 4).
* What a test names is declared once in its header, reaches a symbol the wrapper or the stub defines, and
  a type is printed under a name C++ has for it and for no other type (`DeclarationsAgree`, a part of
  `EveryValueFits`; the others are `ValuesFit` of `Harness` and `SourcesAreRead`). Exempt are the shapes section 4 lists under "Declarations".
* What is known of a type, a function and its parameters is what its own source says, whatever sources are fetched
  before, after, or for stubs: layout and name, arrays, callbacks, global variables; and a structure that a
  callback returns a pointer to is declared before it (`SourcesAreRead` of `Fetching`, a part of `EveryValueFits`).
  Exempt are the shapes section 4 lists under "Fetching".
* Each error KLEE has found with a call in the project is reported once, with the last such call as its place
  and a flow that starts at the line of its own test, wherever tests are left out or suites begin
  (`ErrorsAreReported`, a part of `TestCaseIsReproduced`).
* A source in which the flag of a line was written compiles and does what it did, and the paths whose tests are
  kept are exactly those that come to the line, if a simple statement or a return stands there; of nested classes the
  innermost is found (`LinesAreReached`, `InnermostClass`, parts of `AssertedAsAssumed`). Section 4 lists the other lines.

## 3. Proofs

The modules `*Proofs` are checked by TLAPS for every value of the constants that the named assumptions
allow: any finite set of threads, any number of tickets greater than the number of threads
(`TicketAssumption`: a `std::size_t` can number more requests than there are threads), any sets of
handlers, clients, heartbeats, files, functions and tests, any signal lists, any project and any set of commands, any command lines, and any bound. Apart from
the typing of the constants there are three more premises: `OneTaskPerClientHolds` assumes `~ Overlap`, since
with overlapping insertions it is false; what is said of a database assumes `BuildOrder`, and what is said of
command lines `CompileLinesAssumption` and `LinkLinesAssumption` (below).

Each argument has the same shape: an inductive invariant made of named parts, one step per action, and
the property as one of its parts or a consequence of some.

**FairMutex** (in `RequestServerProofs`). None of the four invariants is inductive alone. `IInv` adds that tickets of queued
threads are pending and distinct, and that a holder's ticket is the one served. The step that needs
an argument is `LockEnter`: a new ticket must not complete the circle, or `next` would meet `curr` and
the queue would look empty. Lemma `Room` shows that it fits: pending tickets are owned by distinct
threads, the calling thread owns none, so fewer than `Cardinality(Threads)` are pending, and
`TicketMod` is larger. From `IInv`: `TypeCorrect`, `MutualExclusionHolds`, `NoOrphanTicketHolds`,
`NoLostWakeupHolds`. `TicketMutexIsFifo` is the refinement: the queue of a mutex are the owners of its
pending tickets from the one served on (`queueOf`), those served are the holders (`granted`), and `IInv` gives
each pending ticket one owner. Taking a ticket is `Join` at the end, with a free lock served at once or not yet;
an unlock takes the first one out (`Leave`); a wake-up serves the first (`Serve`) or shows nothing outside.

**RequestServer.** Lemma `MutexStep` shows that each action of the server is an action of `FairMutex` or
leaves its variables unchanged (`ServerUsesFairMutex`), so `IInv` holds in the server without being
proved again. `RInv` adds what the server contributes: only kinds that lock are in a queue, a queued
thread is at the matching point of its handler, the lock of a running handler is an entry of its
client in the table (`LockIsClients`), an entry has one mutex while insertions do not overlap
(`OneInserter`, `OneLockPerClient`), a waiting stream was announced, and from its identification on a
handler reads its own environment. Two running requests of one client then use one mutex and
`MutualExclusion` gives `OneTaskPerClientHolds`. The others follow from parts of `RInv`. `RequestsAreFifo`
is `TicketMutexIsFifo` applied to `ServerUsesFairMutex`: nothing of the queue is proved twice.

**LogChannels** (in `SessionProofs`). On a channel of a client that keeps talking, the flag `opened` belongs to the handler
that has changed it to true, since only the watcher could take it away (`Owned`, with
`OutdatedIsSilent`: the watcher finds only clients that may fall silent). So there is one provider,
one callback of that name, and the one loguru removes is the handler's own (`OwnCallbacks`). On the
other channels only the number of callbacks is right (`Counted`), which is what
`LogNoDanglingCallback` says of them.

**Session.** `OneWriter` makes `RegistryIsDurable` inductive: one heartbeat at a time is writing
`clients.json`, exactly then the file is cut off, and what it is to hold is the set the server has.
`StreamsAskedAgain` follows from `ToBeAsked`: a server that knows the client from a heartbeat and was
not asked for its log has told it that it is not linked, and that answer, or a failure, is still to be
looked at, or the client does not show its connection as alive.

**ForkTask.** The index of the next signal tells what the child has received: at the end of the list
SIGKILL was sent, and a child that is not alive stays so (`KilledAtLast`). A signal has a reason that is
never forgotten, as a stopped child does not run again (`Provoked`, `StopIsLast`). `LeftLoop` is what
is known of child and result when the loop is left, which gives `ReportsTheChild` and
`ChildDoesNotOutlive`.

**TestRun.** The result file is absent while a test runs (`Fresh`), so what is read after it is the
test's own. A request that wants coverage starts its tests without profiles, and from then on every
profile is one of a test it has launched (`Clean`). With llvm-cov a collection that starts has the
profiles of all tests, and what is read later is that collection or nothing (`Full`).

**ResultsView** (in `TestRunProofs`). A mark is of an old text only if the changes since are written down as
unseen or as made by a generation. That has to be said of the stored marks, of those on the screen, and of the
texts a run in flight was asked for (`StoredAccounted`, `ShownAccounted`, `AskedAccounted`). What clears the
set `made` is the end of a generation, and then nothing stored for its file may be older than the new tests:
`MadeBeforeAsked` and `MadeIsRead` give that, since the run that stored it was asked for after they were written.
The steps of the run itself come in by `ProjectIsFixed` and `AsideInv`: they touch nothing the window shows.

**Generation.** KLEE's output and the cases made of it are of this request once `runKlee` has removed
the old ones (`OfRequest`); nothing is written before the link, whose outcome agrees with what the
files say of themselves (`NotYetWritten`, `Linking`); a file leaves the loop when it was written, or
was not linked (`Settled`); a function leaves a batch with tests or a comment (`Accounted`); one late
file, after which the cancellation is seen (`Late`).

**Synchronizer.** `Kept` is `WhatIsKeptIsCurrent` in the middle of a request; `InWork` says the same of
what was read and has no time or is not printed yet; `Judged` ties what is going to be made again to
the times found when the request began; `Stages` and `Wrapped` place both in the request.

**ProjectConfiguration** (in `ImportedProjectProofs`, as the next two). One handler at a time changes the directory
(`OneAtWork`). A file is half built only between a command and the conclusion of its handler, which removes it when
the command has failed (`DiskIsConsistent`, `LeftToRun`). A last answer that says `IS_OK` stays true until somebody changes the
directory (`LastIsTrue`). What an IDE shows is the last answer: CLion always handles that one, VS Code does because a handler
with no directory to make again sends only one (`OneAnswer`, `ShowsTheLast`). `RightMode` separates the
answers that only say a directory was made.

**BuildDatabase.** `BuildInv` says which table refers to what: an object is found under its name
(`IndexesAgree`), its link unit is a target that contains it and comes from a command (`UnitsAgree`, `FromCommands`),
and a parent of a unit is a target that was linked with it (`ParentsAgree`). The queries recurse along
parents and parts, and the prover has no induction over data; so what a recursion reaches is defined as the
least closed set, whose two halves (`ReachedFacts`) serve as induction wherever a set is shown to be closed.
`ClimbingEnds` is the main lemma: by `BuildOrder` one of the units above a unit is linked into none of
the others, so it has no parent; and the unit lies below everything above it, so that descending from there meets
the source. What a request keeps is `AnswerIsKept`.

**Linking.** All follows from `BuildInv` in a loaded database. `OnlyObject`: where a source is compiled once, the
objects of two units with one source are one object, and the link unit of the source contains it. So KLEE's
bitcode and the test's object of it are stubs in the same cases (`Bodies`), and units are equal part by part
(`UnitContents`), which is `KleeRanWhatTestsRun`. For `ContentsAreTold` a suffix has to say which objects are stubs
whatever request has used it: the suffix of a file's request is the link unit of that file, and
`SaidStub` reads off that unit alone what is stubbed (`SuffixTells`). Names of other kinds tell their source (`ObjectTells`).

**Commands** (in `CommandsProofs`). Nothing changes here but the line under the server's hands, and the argument
is one about edits. A command is `Sound` when its iterators are at what they are for: the output behind the only
`-o`, the level at the only `-O` or nowhere, the tool first. `Does` adds which files it reads and writes and at
which level. Each edit is shown once to lead from one `Does` to another. Replacing an argument keeps the places
(`Replaces`); erasing nodes or inserting some moves every argument that stays together with its iterator
(`Carries`: which places are kept, and where they go). `Erase`, which moves values and not nodes, is right only
when nothing the iterators need stands behind what goes (`StaticComesLast`, lemma `EraseStatic`), which is the
line between the theorem and the entry in section 4. A command of the server is then a chain of such edits: for
compile lines `CompileLinesAreRight`, by `Translates`.

For link lines `LinkLinesAreRight` needs three things more. Reading: words are joined with the option before
them (`MergedBy`), a line without `-o` gets one (`Opened`), a library of the project takes the place of `-l`
(`ReadOf`), and what is read `Does` the files of the target. Names: no `-soname` is left, in one argument or two
(`NoStray`, `Named`, `MarksOf`). And the commands for `ld.gold` and `ar` are not edited but written anew,
argument by argument, sorted or moved; `HoldsFiles` says of a list of arguments that it has the output once and
exactly the files of the target besides, which sorting (`SortedHolds`), renewing (`RenewedDoes`), moving the
output (`MovedBegun`) and exchanging KLEE's file with the first (`KleeFirst`) keep. `CommandsAreRight` is the
property of the run: it follows from the two theorems, which are about every opened database alike.

What is assumed of the lines: the tool comes first; a level and an output are given at most once; a compile line
names its source once and no other file but its output; a link line names the files of its target, as files or
by `-l`, its output and no other file; a word stands behind `-l` or `-L` only; what is passed on by `-Wl,` is
`-z` or a name of a library; an archive is the first static library of its line, and takes its options as second
argument; files of a target differ in their names and have one, and what `-l` finds outside the project is no
file of the target. These are the lines compilers and CMake write for C and C++; with two levels, other options
for the linker or other words the code does other things (section 4), or the model leaves them out. Lines of any
length and any order of their arguments are allowed otherwise, with any options.

Assumptions on the constants of `ProjectConfiguration`, `BuildDatabase` and `Linking`: the commands link targets of the build with objects and
libraries of it; no file is object and target at once (the code tells them by their extension); the value for "no
file" is none; the stem of a target is its own, and no target is called `""` or `_stub`, which are not absolute
paths (`LinkingAssumption`); and `BuildOrder`: no library is linked, directly or through others, into
itself. The commands were recorded from a build that went through, and with a cycle the recursions of the code
would not end.

Only model-checked are

* the liveness properties `LockReturns`, `EveryRequestAnswered`, `CloseEndsStream`, `StopEndsRun` and `Reconnects`:
  ENABLED and fairness are out of the prover's reach;
* `NamesAreOwn` and `RequestsMeanWhatIsChosen`: `Paths` and `Requests` go over a path with folds, and what
  those compute for every path would need induction over it (`Commands`, which did too, is now stated by where each argument goes);
* `TestCaseIsReproduced`, `EveryValueFits` and `AssertedAsAssumed`: `KTest`, `Types`, `Literals` and what is built on
  them have `RECURSIVE` operators, which the prover does not take. `Harness`, `Declarations`, `Fetching`,
  `Reports` and `LineFlags` stay with them; in these the question is one of enumeration anyway.

The other way round, `WaitIsAnnounced` (a request with a stream of progress never waits for its lock
unannounced) and `NoLockLeak` (no request leaves its handler with a lock) are theorems and in no run.

## 4. Where code and documentation disagree

`request_overlap`: `locks` is a `phmap::node_hash_map` without synchronisation under the name
`ConcurrentMap` (`Server.h:205`). Two first requests of one client can insert at the same time, get
a mutex each and run together. The model takes the mildest outcome of that race, two live entries; a
corrupted table is possible too.

The rest was seen while reading or while checking models and has no run of its own. Where it matters
for a property, the model follows the code and the property is stated for what holds.

Server and log channels:

* The watcher, said to release unused writers (`Server.cpp:66`), marks the channels closed but leaves
  `holdLockFlag` raised (`LogUtils.cpp:54`): the handler of a vanished client spins for ever. A later
  Open is let in under the same callback name, and callbacks are removed by name, oldest first
  (`Server.cpp:478`), so the handler that leaves first may remove the other's.
* `checkPort` can never report a port as taken: `connect > MAX_CONNECT` does not hold for any
  result (`ServerUtils.cpp:97`).
* A `clients.json` that was cut off stops the server from starting: the exception of the parser is not
  caught.
* When a build directory may not be removed the error is reported, but the configuration goes on and
  its last report may be `IS_OK` (`UserProjectConfiguration.cpp:182`).
* VS Code takes the first answer of `ConfigureProject` for the last (`client.ts:803` resolves on every answer
  without progress): after Reconfigure it calls the project configured when its build directory has been
  created, before anything is built, and reports no failure; with a directory outside the project it calls
  failed what CLion calls configured. `gen.run` sends its request whatever its check has come to.
* The constructor of `ProjectBuildDatabase` tests whether its files exist after `fs::canonical` has
  thrown for missing ones, so the message for that case is never seen (`ProjectBuildDatabse.cpp:38`).

Children, tests and coverage:

* `cancelled` of `BaseForkTask` starts as false and is only ever anded (`BaseForkTask.cpp:208`), so
  `TIMEOUT_CODE` is never assigned; a child not reaped at the first poll after SIGKILL is reported with
  -1 (`BaseForkTask.cpp:175`) although `BaseForkTask.h:33` and `Server_Tests.cpp:1884` expect a test
  that times out to be interrupted. A test is recognised because the raw wait status of SIGKILL is 9.
* `getpgid(pid)` may run before the child's `setpgid` (`BaseForkTask.cpp:183`, against
  `BaseForkTask.h:128`); `pkill -g` then signals the group of the server.
* `BaseForkTask.h:130` says that a missing timeout makes a process not cancellable; the loop cancels
  it all the same (`BaseForkTask.cpp:170`). `// Trying next level of shutdown`
  (`BaseForkTask.cpp:189`) tries the same level again.
* When listing fails and its repetition succeeds, `logFilePath.value()` (`TestRunner.cpp:58`) throws
  `std::bad_optional_access`, which nobody catches. The `catch` of `ExecutionProcessException` in
  `runTests` (`TestRunner.cpp:167`) guards calls that do not throw it.
* llvm-cov's `getCoverageInfo` turns a cancellation into FAILED_PRECONDITION (`LlvmCoverageTool.cpp:204`).
* A `.profraw` is named after the test only (`Paths.cpp:296`); tests of one name in two files replace
  each other's profile.

Generation, stubs and linking:

* A function whose KLEE output directory does not exist is neither tested nor named in a comment. A
  request for a single file whose link fails goes on with an empty bitcode path and answers OK with an
  empty test file (`Linker.cpp:114`, 257, 310). The fallback that drops files from a link cannot bring
  their functions back: `IRParser` takes a file as a whole. `isFilePresentedInCommands` is always true.
* Bodies a user has written into a stub are lost when it is made again, although
  `docs/contributor-guides/advanced/stubs-inside.md` describes merging them and
  `mergeSourceFileIntoStub` exists: nobody has fetched the old stub. Whether headers have changed is
  not looked at, for stubs and for the bitcode rules alike (they depend on the `.c` file only).
* For an absent source the stamps of stubs (nanoseconds) are compared with `time(nullptr)` (seconds).
* Folder requests with stubs: the stubs are chosen for one file of the folder
  (`StubGen.cpp:21`), so a tested file of another link unit gets its stub in the test binary although
  KLEE ran its source, against `stubs-inside.md:17`. They also name their units without a suffix, so a
  unit with some stubs has the name of the one without (against `incrementality.md:20`).
  `FolderRequests` in `TestsRunWhatKleeRan` are folders of one unit, and `NamesTellContents` covers
  file and project requests.
* `lib.a` and `lib.so` in one directory share the bitcode `lib.bc` (excluded by `LinkingAssumption`);
  a library of assembler objects only makes `applySuffix` throw (`CanBeLinked`); a source that is
  compiled twice in one target shares the bitcode and stub names (`CompiledOnce`).
* `isFirstObjectFileForSource` is described by the order of the commands; the first info is that of
  the highest priority. A database that was loaded in part is used all the same, since the constructor
  only logs the exception that the test `precompiled_obj` (`Server_Tests.cpp:1576`) expects.

* `CollectionUtils::erase` (`CollectionUtils.h:32`) moves the values of a list between its nodes, so the
  iterators of a command keep their nodes and lose their arguments. `erase("-static")` followed by
  `setOutput` (`NativeMakefilePrinter.cpp:527`) therefore replaces the argument behind the output, the first
  object, say, and leaves the user's own output when `-static` stands before it. `setOptimizationLevel` does the same to what
  stands behind the level, when that comes after `-static` (`StaticComesLast` excludes both). `erase_if`
  removes nodes and is right. In the link line of the test `-static` stays although it links a shared library.
* Words of a link line become paths only if there is such a file when the database is read
  (`ProjectBuildDatabse.cpp:11`), the files of a target always: after `make clean` the objects are dropped
  from KLEE's link.
* `setOptimizationLevel` changes the first level of a line, and compilers take the last; `-I dir` as two
  arguments leaves `dir` among the inputs of a test; `-ofile` is not an output; of `-Xlinker -soname -Xlinker
  name` the wrong argument is removed; `isArchiveCommand` finds `ar` in `arm-linux-gcc`. Lines have none of these.

Names:

* `getMakefilePathFromSourceFilePath` throws the result of `addSuffix` away (`Paths.cpp:404`): `a.c` and
  `a.cpp` of one directory share their makefiles, and they share the header of their stubs and KLEE's
  bitcode (`BuildDatabase.cpp:421`) as well. One request's makefile replaces the other's.
* Entry points and wrappers are named after the path with `.`, `-` and `/` replaced by `_`
  (`Paths.cpp:89`): `x/y.c`, `x_y.c` and `x-y.c` share theirs, and so do `y.cpp` and `y.cc`. Test
  executables of `a.b.c` and `a_b.c` are one file.
* The tests of a project's directory `stubs` are in `tests/stubs`: `prepareDirectory` removes them as
  stubs without a source. Sources in the test directory are taken for tests. Sources outside the project
  have their tests and stubs outside the test directory: these are not recognised as tests, and the stubs
  are never cleared.
* `removeSharedLibraryVersion` strips digits of programs too: `prog1` and `prog2` become one
  `libprog.so`, and so do a program `x` and a library `libx.so` of one directory
  (`NativeMakefilePrinter.cpp:626`).
* A source outside the project has its object, and so its `.gcda`, outside of `recompiled`: gcov's coverage of it is
  neither cleaned nor read. A directory `coverage/gcov` of a project has its bitcode under what `cleanCoverage` removes.
* `getInProjectPath` (`SARIFGenerator.cpp:24`) does not find files of a project in whose path a name
  occurs twice.

Requests:

* Only VS Code sends `clientProjectPath`: a database that was written on the client of a remote server is not moved for
  CLion. `replaceAll` is textual: a directory beside the project whose name begins with the project's moves as well,
  and commands written by the server are spoilt if the client's path is a part of the server's.
* CLion's `SettingsContextBuilder` takes `useDeterministicSearcher` and does not send it, its `testDirRelPath` is an
  absolute path and its report directory a constant. Without directories of sources CLion sends none, which stands
  for all sources of the target, while the command line sends all directories of the project. Requests for a folder or
  a file carry directories too, and nobody reads them. CLion's `isHeaderFile` takes `.c` for a header.
* `run --file-path` is sent as typed and resolved against the project, paths of `generate` against the working
  directory. `all` is said to generate stubs first (`Commands.cpp:32`), which it does not; its `--no-coverage` is an option
  with a value (`Commands.cpp:531`), elsewhere a flag; when the tests fail it logs the message of the generation
  (`CLIUtils.cpp:252`). The command line takes no lock and registers no client.
* `--function-name f` also launches the tests of a function `f_test`: names of tests are compared by prefix.
  `headerPathToSourcePath` tries `.cc` before `.cpp`, so of two such sources a class of the header is one of the first.

Test cases:

* `Tests.cpp:410`: a union chooses an anonymous member without asking whether that could be
  initialised, and its bytes are lost. A bit-field of an enumeration is read with the size of its type, and
  what lies behind a bit-field is judged with it (`Tests.cpp:297`). The last member
  of a union is taken for the one a pointer leads to. In an array of structures the offset of a pointer
  is not reduced to one element. Lazy objects reached only from the result are not declared. Objects
  reached only by a pointer into their middle, or of another size, are not followed. A pointer to an
  array or an enum drops the whole test case without a word.
* A global `int **g` is copied into without having been allocated by the parametrized form, which lacks
  what the verbose form prints for it (`TestsPrinter.cpp`, `parametrizedInitializeGlobalVariables`); a
  global pointer to an array by both forms.
* A NULL that is returned where the pointer is taken for an array is not looked at (`Tests.cpp:876`): the
  test dereferences it. For other pointers it is recognised only because KLEE's solver leaves the
  variable that says so at 0.
* `int *&p` is treated as a pointer, and `&p` does not bind to it. An rvalue reference that comes with
  lazy objects gets an lvalue in the parametrized form.
* A changeable parameter `p` beside one of the name `p_post` gives two variables of one name. The throw
  of `genOpenFiles` leaves the entry point open; that the functions are then printed one by one saves
  the others. Files are opened in the tests of C sources only (`Tests.cpp:982`).
* Structures: the parametrized form compares nothing of a returned structure
  (`ParametrizedAssertsVisitor::visitStruct` declares it only), and what it prints for an array of
  structures does not compile. The members of a returned union are written as comments. A returned
  structure with a member `int (*p)[3]` makes `KleeAssumeReturnValueVisitor::visitArray` recurse without
  end. Stubs for function pointers in the object of a method are assigned by the harness and declared for
  parameters, globals and results only. Accessors to private members are declared for structures passed
  by value, while the harness reads those of structures behind a pointer and of globals as well.
* Prompted results. "Those should never abort as we do not accept such data on client side"
  (`Tests.cpp:517`) is not so. CLion offers `=>` (`GenerateForPredicateAction.kt`), which no compiler
  takes. The least `long` is printed as a difference, which `stoll` cannot read; its exception, like that of
  `stof` for a `double` beyond the range of `float`, is not caught by `parseTestCases`. VS Code calls signed
  what is unsigned and doubles the range of what is signed (`predicates.ts:75`): `< 40000` for a `short` gives a
  test with `short expected = 40000`, which fails. The least `long` as it is typed is unsigned to C, and
  cases are lost. A single quote or backslash is accepted for a character and does not compile.
  Characters are compared as texts: `"` or `?` is never equal to `\"` or `\?`, and the order of escapes and
  of negative characters is that of their texts. Of a string only as much is compared as was typed.
  VS Code takes the empty string for no answer, and neither IDE accepts `0.5`.
* An enumerator that does not exist is printed with `%d` of a `std::string` (`Tests.cpp:136`). A `double` is
  printed with seven digits (`primitiveValueToString`).
* A function that returns a pointer to an array gets `int actual = *f()`, one that returns `void **` a
  comparison of what `unsigned char *` points to: neither compiles.

Declarations:

* An unnamed structure within one that only a typedef names, within a named one that is itself nested, or in an
  anonymous member gets a name of the resolver (`T_c`, `A_B_c`, `A__d`) that the header does not declare; an array
  of unnamed structures is called `A::`.
* A function without parameters, with old style parameters, or whose first parameter has no name is printed from its
  parts (`getOldStyleDeclarationAsString`), which is ill-formed if it returns a pointer to a function or an
  unnamed enumeration.
* A function with an unnamed parameter is not fetched, yet header and wrapper pass on what has names, which are too
  few arguments. `tests.methods[usage.functionName]` (`GlobalVariableUsageMatchCallback.cpp:65`) makes an entry with
  an empty type for it if it uses a global variable, and the filter calls `isSimple()` on that.
* A parameter with the name of its function hides what the wrapper calls. A parameter or member called `xor` or
  `and` is not renamed. `typedef decltype(A::b) A_b` may meet a type `A_b`.
* An external variable of a pointer to a function is declared nowhere. The main header chosen for a C++ source is
  overwritten with the source itself in `generateTestHeader` (`SourceToHeaderRewriter.cpp:89`).

Fetching:

* A type is known by its text and its file: of two definitions of one name in one file (a header that is read under
  different macros, structures local to two functions) the first that is fetched gives the layout for both
  (`TypesResolver.cpp:45`). A structure local to a function has no name, and takes it from one of the same name at
  file level if there is one.
* `(*parent->structsDeclared).at(sourceFilePath)` (`TypesResolver.cpp:152`) throws `std::out_of_range` if the first
  structure of a source has a callback that returns a pointer to a structure: the callback for definitions runs
  before the one that notes what has been declared. A structure of a header is resolved once, so that only the header
  of the first source declares what its callbacks return.
* `usages` has the unqualified names of a variable and a function and is kept from source to source
  (`GlobalVariableUsageMatchCallback.cpp:52`): if a second source has both names, its function loses the variable.
* Usages and subscripts look for a function under its unqualified name, methods are kept under the qualified one: a
  function of a namespace gets an entry of its own for its global variables, which has no parameters, and a subscript
  of such an entry, or of an overload with more parameters, is past the end of `params`
  (`ArraySubscriptFetcherMatchCallback.cpp:50`). Overloads share an entry, the first one's. Subscripts in methods
  of classes are not noted.
* `returnVariables` has numbers that are unique only in one source and is never cleared: a function whose variable has
  the number of one returned in an earlier source is taken to return an array.
* A global variable of type `void *` keeps alignment 0: `postProcess` looks at `params` only.
* What `ReturnTypesFetcher` finds is passed down to `processStubParamValue` and read by nobody.

Lines:

* If the line is the head of an `if` or a loop within another, the bracket that is opened before the head is
  closed behind it (`KleePrinter.cpp:306`, `BordersFinder.cpp:58`): what was its body is run in any case. At
  the top, the flag is set inside the branch, or becomes the branch if that has no brackets.
* Lines with `}` or `} else {`, statements of several lines, bodies of an unbraced `do`, and `break` or `continue` outside
  of what the finder knows (in a `switch`) give a text that does not compile or a flag that is not reached. A
  path that crashes does not come to the assumption about the flag, so its value is any.
* The matchers of classes and constructors are not restricted to the main file and `run` compares no files: a class or a
  constructor of a header is taken for one of the source if the line numbers fit.

Clients:

* VS Code: `initHeartbeat` waits for the listeners of the first connection before it calls
  `setInterval` (`client.ts:187`): if one of them fails, the client never sends a heartbeat again. A
  Close is sent and not awaited before the Open, so a client may end established, linked and without a
  stream. One heartbeat may close and open the channels up to three times.
* VS Code: `hideAll` empties the set of editors whose changes are looked at and forgets the coverage,
  but keeps the verdicts (`testResultsVisualizer.ts`): a test that is edited while its icon is hidden gets
  the old icon back with the next run. Marks of a run have no version of the text either, so a text that is
  edited during the run gets them. A run that fails after its response was written is not reported: the
  promise is kept by the data. The answer with generated tests is handled without being awaited.
* CLion: the client does not register again when the server restarts between two successful
  heartbeats, and does not open its channels again after a short interruption (it looks at
  `newClient || !linked` only). `isDisposed` (`Client.kt:49`) is never set.

## 5. What is not modelled

* The subcommand `server` of the command line and how arguments are parsed. The wording of tests, stubs, makefiles and messages. Clang's traversal of a source: the
  declarations and statements it visits are an input here.
* The CLion client but for its requests and its dialogs of configuration and of prompted results. The requests VS Code builds.
* `ProjectConfiguration`: two IDEs on one project, changes by the user while a request is at work, and a
  server that dies during a build.
* The content of logs, of the progress stream and of the statistics. Data races as such: `request_overlap`
  is the one whose outcome can be named; the insertion into a `std::map` in `Server.cpp:445` is not.
* Real time: a timeout may come at any moment of the polling loop.
* `TestRun`: two clients with one project, and tests that outlive a crashed server.
* `LogChannels`: verbosity, the sinks that two clients share, flow control of a stream. `Session`:
  listeners that are registered again by `setUpClient`, the channel of GTest (which is served by the
  same code), `selectLoggingLevel`, `checkPort`.
* `ResultsView`: the remote scenario, line numbers and code lenses, the preference that leaves the icons out,
  two editors of one text, runs that overlap.
* `Generation`: what KLEE finds, requests with a single target, `buildTests`. `Synchronizer`: wrappers of
  C++ sources, which are never written.
* `Linking`: folder requests over several units, two libraries of one stem, a source compiled twice
  in one program, and names that clash (all excluded by name, see section 4).
* `Requests`: sources that differ in their extension only (they share a makefile, see "Names"). `Paths`: symbolic links, paths that are not normal, and the directories of logs and of GTest.
* `KTest`: bit-fields, arrays of structures as parameters, pointers in unions, stubs, objects only
  reached by a pointer into their middle. `Literals`: floating point, enumerations and wide
  characters. `Harness`: constructors, stubs, the path flag, what is in stdin and in files, and the types listed in section 4.
* `Declarations`: classes of C++, templates, the text of a declaration. `Fetching`: constructors, what is included,
  fetches of names or return types only, two texts of one hash. `Reports`: the wording of a result, tests of
  constructors (whose call is not marked), two files about errors for one test. `LineFlags`: requests for an assertion,
  `switch`, statements of several lines.

Hazards without a property have their reason in `PROJECT.json`.

## 6. What is left

`ManagedClient` of CLion as a second client of `Session`; the
file sinks shared by clients; `buildTests`; sources that are compiled twice in `Linking`.
