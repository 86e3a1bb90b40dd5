----------------------------- MODULE TestCases -----------------------------
(***************************************************************************)
(* The way of a test case: the harness of a function is written and KLEE   *)
(* follows a path (Harness), the objects of the path are found among the   *)
(* parsed arguments and assigned to each other (KTest), and the test is    *)
(* written in one of its forms (parseTestCases, then genTests).  How single *)
(* values are printed and predicates kept (Predicates), what is fetched of *)
(* sources (Fetching) and declared (Declarations), how errors are reported (Reports) and how lines *)
(* are reached (LineFlags) do not depend on the state: they are asked in    *)
(* one of them.                                                            *)
(***************************************************************************)
EXTENDS KTest, Harness, Predicates, Fetching, Reports, LineFlags

(***************************************************************************)
(* Samples  arrays of bytes and sizes of types; strings; for each type of  *)
(*          a result `results` and what may be typed as a value; and `at`, *)
(*          the test case and the function in whose first state these are  *)
(*          looked at; the `sources` the functions may come from, and the  *)
(*          `projects` of several, in groups: those that are tested, and   *)
(*          others for stubs; the `requests` whose errors are reported;    *)
(*          the `texts` of functions and `classes` of which a line is      *)
(*          selected.                                                      *)
(***************************************************************************)
CONSTANT Samples

testCasesVars == <<ktestVars, harnessVars>>

(* The objects are looked at when the arguments have been parsed. *)
ParseTestCase == stage = "parsed" /\ KTestNext /\ UNCHANGED harnessVars

(* A case that was skipped is not printed. *)
PrintTestCase(form) == phase = "done" /\ WriteTestCase(form) /\ UNCHANGED ktestVars

TestCasesInit == KTestInit /\ HarnessInit

TestCasesNext ==
    \/ ParseTestCase
    \/ \E form \in {"verbose", "parametrized"} : PrintTestCase(form)
    \/ WriteTestedFunction /\ UNCHANGED ktestVars
    \/ NotWritten /\ UNCHANGED ktestVars
    \/ Explore /\ UNCHANGED ktestVars
    \/ ParseTestCaseParams /\ UNCHANGED ktestVars
-----------------------------------------------------------------------------
AtSamples == stage = "fetched" /\ phase = "parameters" /\ <<ktest, method>> = Samples.at

(***************************************************************************)
(* The variables of a test have the values and the pointers of the test    *)
(* case, and the bits of the test case arrive in the program the compiler  *)
(* reads: bit-fields, the least integers, characters behind escapes.  The  *)
(* report of its error leads to the test (ErrorsAreReported).              *)
(***************************************************************************)
TestCaseIsReproduced ==
    /\ ObjectsAreReproduced
    /\ AtSamples => /\ BytesAreRead(Samples.arrays, Samples.sizes)
                    /\ NumbersAreRead
                    /\ StringsAreRead(Samples.strings)
                    /\ \A files \in Samples.requests : ErrorsAreReported(files)

(***************************************************************************)
(* Every value fits the variable it is for, in the harness and in the test *)
(* (ValuesFit of Harness), and the functions, variables and types that     *)
(* tests name are those that header, wrapper and stubs declare, which      *)
(* compile (Declarations); what is known of them is what their own source  *)
(* says, whatever else is fetched (Fetching).                              *)
(***************************************************************************)
EveryValueFits ==
    /\ ValuesFit
    /\ AtSamples => /\ \A s \in Samples.sources : DeclarationsAgree(s)
                    /\ \A i \in DOMAIN Samples.projects : \A p \in Samples.projects[i] : SourcesAreRead(p.tested, p.others)

(***************************************************************************)
(* What a test compares after the call is what the harness has assumed, no *)
(* more and no less; with a predicate on the result instead, what the user *)
(* has asked for; with a line, only the paths that come to it, in a program *)
(* that is otherwise the same.                                             *)
(***************************************************************************)
AssertedAsAssumed ==
    /\ ComparedAsAssumed
    /\ AtSamples => /\ PredicatesAreKept(Samples.results, Samples.values)
                    /\ \A lines \in Samples.texts : LinesAreReached(lines)
                    /\ \A classes \in Samples.classes : \A line \in 1 .. 4 : InnermostClass(classes, line)
=============================================================================
