------------------------------ MODULE Reports ------------------------------
(***************************************************************************)
(* The report of the errors that KLEE has found: what it wrote about an     *)
(* error becomes a descriptor of the test case (KleeRunner.cpp); the place  *)
(* of its call is marked in the text of the tests by a line that is taken   *)
(* out again, and becomes another descriptor (TestsPrinter.cpp); then both  *)
(* are read line by line, and a result is put together (SARIFGenerator.cpp).*)
(*                                                                         *)
(* A request is a sequence of `files`, each a name and its `methods`; a     *)
(* method is the sequence of the tests KLEE has left for it:                *)
(*   early     whether it was cut short,                                    *)
(*   parsed    whether its objects can be made a test case,                 *)
(*   error     the suffix of the file about its error, or "",               *)
(*   stack     the calls in that file, the last one first,                  *)
(*   info      whether something is said after them.                        *)
(* A call is in a source of the project, in a file of the `build` directory *)
(* or `outside`.                                                            *)
(***************************************************************************)
EXTENDS Naturals, SequencesExt

(* Lines of descriptors: a key with its value, or a call. *)
KeyLine(key, value) == [key |-> key, value |-> value]
CallLine(call) == [key |-> "", value |-> call]

(* What KLEE writes about an error. *)
ErrorFile(ktest) ==
    <<KeyLine("Error", ktest.error), KeyLine("State", ""), KeyLine("ExecutionStack", "")>>
    \o [i \in DOMAIN ktest.stack |-> CallLine(ktest.stack[i])]
    \o IF ktest.info THEN <<KeyLine("Info", ""), CallLine([in |-> "outside", line |-> 0])>> ELSE <<>>
-----------------------------------------------------------------------------
(* Paths::hasInternalError, getErrorDescriptors: two of the suffixes of each, *)
(* in the order in which they are looked for.                                 *)
hasInternalError(ktest) == ktest.error \in {"exec", "external"}
getErrorDescriptors(ktest) == SelectSeq(<<"assert", "ptr">>, LAMBDA suffix : suffix = ktest.error)

(* processMethod: the test cases of a method. *)
processMethod(ktests) ==
    LET kept == SelectSeq(ktests, LAMBDA k : ~ k.early /\ ~ hasInternalError(k))
        Case(k) ==
            LET files == getErrorDescriptors(k)
            IN  [status |-> IF files = <<>> THEN "SUCCESS" ELSE "FAILED", of |-> k,
                 errorDescriptors |-> [i \in DOMAIN files |-> Append(ErrorFile(k), KeyLine("ErrorId", files[i]))]]
    IN  [i \in DOMAIN kept |-> Case(kept[i])]

(* parseTestCases: those that are kept, by their testIndex (from 1). *)
testCases(ktests) == SelectSeq(processMethod(ktests), LAMBDA c : c.of.parsed)

(* getSuiteName; the cases of a suite by their indexes. *)
SuiteNames == <<"regression", "error">>
suiteTestCases(cases, suite, forAssert) ==
    LET ofSuite(c) == IF c.status = "FAILED" \/ forAssert THEN "error" ELSE "regression"
    IN  SelectSeq([i \in DOMAIN cases |-> i], LAMBDA i : ofSuite(cases[i]) = suite)

(* genCodeBySuiteName: tests are numbered, those of the first suite first.  *)
(* Where a case with descriptors calls the function, the call is marked     *)
(* (markTestedFunctionCallIfNeed).                                          *)
TestText(m, index, number, marked) ==
    LET Line(is) == [is |-> is, method |-> m, index |-> index, number |-> number]
    IN  <<Line("TEST"), Line("call")>> \o (IF marked THEN <<Line("anchor")>> ELSE <<>>) \o <<Line("end")>>

SuiteText(m, cases, indexes, before) ==
    FlattenSeq([n \in DOMAIN indexes |->
        TestText(m, indexes[n], before + n, cases[indexes[n]].errorDescriptors # <<>>)])

codeText(m, cases, suite, forAssert) ==
    SuiteText(m, cases, suiteTestCases(cases, suite, forAssert),
              IF suite = SuiteNames[1] THEN 0 ELSE Len(suiteTestCases(cases, SuiteNames[1], forAssert)))

(* joinToFinalCode, printSuiteAndReturnMethodsCount. *)
Pragma == [is |-> "pragma"]
Region(text) == IF text = <<>> THEN <<>> ELSE <<Pragma>> \o text \o <<Pragma>>
finalText(file) ==
    LET Suite(suite) ==
            Region(FlattenSeq([m \in DOMAIN file.methods |->
                                  codeText(m, testCases(file.methods[m]), suite, file.forAssert)]))
    IN  <<[is |-> "headers"]>> \o FlattenSeq([n \in DOMAIN SuiteNames |-> Suite(SuiteNames[n])])

(* The descriptors before the text is read, and what a mark adds to them. *)
FromKlee(file) ==
    [m \in DOMAIN file.methods |->
        LET cases == testCases(file.methods[m]) IN [i \in DOMAIN cases |-> cases[i].errorDescriptors]]
TestCallInfo(file, mark, line_count) ==
    <<KeyLine("TestFile", file.name), KeyLine("TestLine", line_count),
      KeyLine("TestName", <<mark.method, mark.number>>)>>

(* Mutant of printFinalCodeAndAlterJson: the marks are counted as lines. *)
AlterJsonCountingMarks(file) ==
    LET Step(w, line) ==
            IF line.is # "anchor" THEN [w EXCEPT !.line_count = @ + 1]
            ELSE [w EXCEPT !.line_count = @ + 1, !.descriptors[line.method][line.index] =
                      Append(@, TestCallInfo(file, line, w.line_count))]
    IN  FoldLeft(Step, [line_count |-> 0, descriptors |-> FromKlee(file)], finalText(file)).descriptors

(* printFinalCodeAndAlterJson: the marks are taken out of the text. *)
printFinalCodeAndAlterJson(file) ==
    LET Step(w, line) ==
            IF line.is # "anchor" THEN [w EXCEPT !.line_count = @ + 1]
            ELSE [w EXCEPT !.descriptors[line.method][line.index] =
                      Append(@, TestCallInfo(file, line, w.line_count))]
    IN  FoldLeft(Step, [line_count |-> 0, descriptors |-> FromKlee(file)], finalText(file)).descriptors
-----------------------------------------------------------------------------
(* sarifAddTestsToResults, line by line.  The frames of the stack and of the *)
(* flow are the same.  The key is kept from a descriptor to the next one.    *)
NothingRead ==
    [key |-> "", firstCallInStack |-> FALSE, canAdd |-> FALSE, message |-> "", ruleId |-> "",
     locations |-> <<>>, frames |-> <<>>, testLocation |-> <<>>]

(* A call: those in the project, and what they have called outside of it. *)
ReadCall(r, call) ==
    CASE r.key # "ExecutionStack" \/ call.in = "build" -> r
      [] r.key = "ExecutionStack" /\ call.in = "project" ->
            [r EXCEPT !.frames = Append(@, call), !.firstCallInStack = FALSE,
                      !.locations = IF r.firstCallInStack THEN Append(@, call) ELSE @]
      [] r.key = "ExecutionStack" /\ call.in = "outside" ->
            IF r.firstCallInStack THEN [r EXCEPT !.frames = Append(@, call)] ELSE r

ReadKey(r, line) ==
    LET next == [r EXCEPT !.canAdd = @ \/ (r.key = "ExecutionStack" /\ ~ r.firstCallInStack),
                          !.firstCallInStack = TRUE, !.key = line.key]
    IN  CASE line.key = "Error" -> [next EXCEPT !.message = line.value]
          [] line.key = "ErrorId" -> [next EXCEPT !.ruleId = line.value]
          [] line.key = "ExecutionStack" -> [next EXCEPT !.frames = <<>>]
          [] line.key = "TestFile" -> [next EXCEPT !.testLocation = <<line.value>>]
          [] line.key = "TestLine" -> [next EXCEPT !.testLocation = Append(@, line.value)]
          [] line.key = "TestName" -> [next EXCEPT !.testLocation = Append(@, line.value),
                                                   !.frames = Append(@, Append(r.testLocation, line.value))]
          [] OTHER -> next

ReadDescriptors(descriptors) ==
    LET Read(r, line) == IF line.key = "" THEN ReadCall(r, line.value) ELSE ReadKey(r, line)
        Descriptor(r, lines) == FoldLeft(Read, [r EXCEPT !.firstCallInStack = FALSE], lines)
    IN  FoldLeft(Descriptor, NothingRead, descriptors)

sarifAddTestsToResults(file) ==
    LET descriptors == printFinalCodeAndAlterJson(file)
        read == [m \in DOMAIN descriptors |-> [i \in DOMAIN descriptors[m] |-> ReadDescriptors(descriptors[m][i])]]
    IN  SelectSeq(FlattenSeq(read), LAMBDA r : r.canAdd)

(* sarifPackResults: the results of all the files of a request. *)
sarifPackResults(files) ==
    LET results == FlattenSeq([i \in DOMAIN files |-> sarifAddTestsToResults(files[i])])
    IN  [i \in DOMAIN results |->
            [message |-> results[i].message, ruleId |-> results[i].ruleId,
             locations |-> results[i].locations, frames |-> results[i].frames]]
-----------------------------------------------------------------------------
(* The line of the code that calls the function for a case, and its test. *)
IsCall(line, m, i) == line.is = "call" /\ line.method = m /\ line.index = i
TestAround(code, call) ==
    CHOOSE n \in 1 .. call : code[n].is = "TEST" /\ \A k \in (n + 1) .. call : code[k].is # "TEST"
CallAt(file, code, call) == <<file.name, call, <<code[call].method, code[TestAround(code, call)].number>>>>
CallIn(file, code, m, i) == CallAt(file, code, CHOOSE n \in DOMAIN code : IsCall(code[n], m, i))
CallOf(file, m, i) == CallIn(file, SelectSeq(finalText(file), LAMBDA line : line.is # "anchor"), m, i)

InProject(call) == call.in = "project"
LastCall(stack) == CHOOSE n \in DOMAIN stack : InProject(stack[n]) /\ \A l \in 1 .. (n - 1) : ~ InProject(stack[l])

ResultOf(k, first, call) ==
    [message |-> k.error, ruleId |-> k.error, locations |-> <<k.stack[first]>>,
     frames |-> SelectSeq(SubSeq(k.stack, 1, first - 1), LAMBDA c : c.in = "outside")
                \o SelectSeq(k.stack, InProject) \o <<call>>]
ResultsOf(file, m, cases) ==
    LET reported == SelectSeq([i \in DOMAIN cases |-> i],
                              LAMBDA i : /\ cases[i].status = "FAILED"
                                         /\ \E n \in DOMAIN cases[i].of.stack : InProject(cases[i].of.stack[n]))
        Result(i) == ResultOf(cases[i].of, LastCall(cases[i].of.stack), CallOf(file, m, i))
    IN  [n \in DOMAIN reported |-> Result(reported[n])]

(***************************************************************************)
(* A result for each test case whose error has a call in the project, and   *)
(* for no other: with that error, the last such call as its location, and   *)
(* the way to it from the call in its own test.                             *)
(***************************************************************************)
ErrorsAreReported(files) ==
    LET ofFile(file) ==
            FlattenSeq([m \in DOMAIN file.methods |-> ResultsOf(file, m, testCases(file.methods[m]))])
    IN  sarifPackResults(files) = FlattenSeq([i \in DOMAIN files |-> ofFile(files[i])])
=============================================================================
