---------------------------- MODULE TestRunProofs ----------------------------
(***************************************************************************)
(* Proofs about TestRun for any projects, tests and names.                 *)
(*                                                                         *)
(* The result file is absent while a test runs (Fresh), so what is read    *)
(* after it is the test's own.  A request that wants coverage starts its   *)
(* tests with no profile, and from then on every profile is one of a test  *)
(* it has launched (Clean).  With llvm-cov a collection that starts has    *)
(* the profiles of all tests, and what is read later is that collection or *)
(* nothing (Full).                                                         *)
(*                                                                         *)
(* The second part is about ResultsView, for any number of texts and       *)
(* edits: what is stored and what is shown accounts for every change since *)
(* its text (ViewInv).  Two facts carry the steps that forget changes: a   *)
(* mark on the screen is in an editor that is known, so hiding leaves no   *)
(* mark behind; and a run that is in flight during a generation was asked  *)
(* for after the tests were written, so the end of the generation keeps    *)
(* only verdicts of the new tests.                                         *)
(***************************************************************************)
EXTENDS ResultsView, TLAPS

Idle ==
    phase = "idle" => launched = {} /\ left = {} /\ current = {}

Fresh == phase = "test" => resultFile = "none"

Wanted == phase \in {"clean", "cleanAgain", "collect", "merge", "export", "read"} => request.coverage

Own(s) == \A p \in s : ~ p.old /\ p.of \in launched

TestPhases == {"commands", "loop", "test", "after", "collect"}

Clean ==
    /\ phase \in TestPhases \cup {"merge", "export", "read"} /\ request.coverage => Own(profiles)
    /\ phase \in TestPhases \cup {"merge"} /\ request.coverage => merged = {} /\ report = {}
    /\ phase = "export" => Own(merged) /\ report = {}
    /\ phase = "read" => Own(report)
    /\ phase # "reply" => coverage = {}
    /\ Own(coverage)

AllHaveProfiles == \A t \in Finished : Profraw(t) # {}

Full ==
    tool = "llvm-cov" =>
        /\ phase \in {"merge", "export", "read"} => AllHaveProfiles
        /\ phase = "export" => merged \in {{}, Collected}
        /\ phase = "read" => report \in {{}, Collected}
        /\ phase = "reply" /\ coverage # {} => coverage = Collected /\ AllHaveProfiles

(* What the argument needs of the types. *)
Shapes ==
    /\ left \subseteq launched /\ current \subseteq launched
    /\ results \in [Tests -> Verdicts \cup {"none"}]
    /\ truth \in [Tests -> SUBSET Verdicts]
    /\ launched \subseteq Tests /\ tests \in Projects

(* The inductive invariant. *)
TestRunInv == Shapes /\ Idle /\ Fresh /\ ResultIsOwn /\ Wanted /\ Clean /\ Full
-----------------------------------------------------------------------------
LEMMA InitTestRunInv == TestRunInit => TestRunInv
  BY DEF TestRunInit, TestRunInv, Shapes, Idle, Fresh, ResultIsOwn, Wanted, Clean, Own, TestPhases,
         Full, NoRequest

(* Steps that leave generate(), without coverage. *)
LEMMA ReplyInv ==
    ASSUME TestRunInv, phase # "reply", NEW s, ReplyWith(s)
    PROVE  TestRunInv'
<1> USE DEF TestRunInv, ReplyWith, GoTo, project, disk
<1>1. Shapes' /\ Idle' /\ Fresh' /\ ResultIsOwn' /\ Wanted'
  BY DEF Shapes, Idle, Fresh, ResultIsOwn, Wanted
<1>2. coverage' = {}
  BY DEF Clean
<1>3. Clean' /\ Full'
  BY <1>2 DEF Clean, Full, Own, TestPhases
<1> QED
  BY <1>1, <1>3

(* Steps to another phase that change no test, result, file or coverage. *)
LEMMA PhaseInv ==
    ASSUME TestRunInv,
           UNCHANGED <<project, request, launched, left, current, results, coverage, truth, disk>>,
           \/ phase' = phase
           \/ phase = "init" /\ phase' \in {"clean", "list"} /\ (phase' = "clean" => request.coverage)
           \/ phase = "list" /\ phase' \in {"cleanAgain", "commands"} /\ (phase' = "cleanAgain" <=> request.coverage)
           \/ phase = "after" /\ phase' = "loop"
           \/ phase = "loop" /\ phase' = "collect" /\ request.coverage
           \/ phase = "collect" /\ phase' = "merge" /\ ~ NothingToCollect
    PROVE  TestRunInv'
<1> USE DEF TestRunInv, project, disk
<1>1. Shapes' /\ Idle' /\ Fresh' /\ ResultIsOwn' /\ Wanted'
  BY DEF Shapes, Idle, Fresh, ResultIsOwn, Wanted
<1>2. Clean'
  BY DEF Clean, Own, TestPhases, Wanted
<1>3. Full'
  <2>1. /\ UNCHANGED <<AllHaveProfiles, Collected>>
    BY DEF AllHaveProfiles, Collected, Finished, Profraw
  <2>2. phase = "collect" /\ phase' = "merge" /\ tool = "llvm-cov" => AllHaveProfiles
    BY DEF NothingToCollect, AllHaveProfiles
  <2> QED
    BY <2>1, <2>2 DEF Full
<1> QED
  BY <1>1, <1>2, <1>3

LEMMA StartInv ==
    ASSUME TestRunInv, Start
    PROVE  TestRunInv'
<1> USE DEF TestRunInv, Start, GoTo, project, disk
<1>1. launched' \subseteq Tests /\ phase = "idle" /\ phase' = "init"
  BY DEF Shapes, Idle, Tests
<1>2. Shapes' /\ Idle' /\ Fresh' /\ ResultIsOwn' /\ Wanted'
  BY <1>1 DEF Shapes, Idle, Fresh, ResultIsOwn, Wanted
<1>3. Clean' /\ Full'
  BY <1>1 DEF Clean, Own, TestPhases, Full
<1> QED
  BY <1>2, <1>3

LEMMA CleanInv ==
    ASSUME TestRunInv, CleanCoverage \/ CleanAgain
    PROVE  TestRunInv'
<1> USE DEF TestRunInv, CleanCoverage, CleanAgain, GoTo, Reaches, project, requestState
<1>1. Shapes' /\ Idle' /\ Fresh' /\ ResultIsOwn' /\ Wanted'
  BY DEF Shapes, Idle, Fresh, ResultIsOwn, Wanted
<1>2. Clean' /\ Full'
  BY DEF Clean, Own, TestPhases, Full
<1> QED
  BY <1>1, <1>2

LEMMA ListTestsInv ==
    ASSUME TestRunInv, NEW f \in Files, ListTests(f)
    PROVE  TestRunInv'
<1> USE DEF TestRunInv, ListTests, Reaches, project
<1>1. launched \subseteq launched' /\ launched' \subseteq Tests /\ phase = "list" /\ phase' = "list"
  BY DEF Shapes, Tests
<1>2. Shapes' /\ Idle' /\ Fresh' /\ ResultIsOwn' /\ Wanted'
  BY <1>1 DEF Shapes, Idle, Fresh, ResultIsOwn, Wanted
<1>3. Clean' /\ Full'
  BY <1>1 DEF Clean, Own, TestPhases, Full
<1> QED
  BY <1>2, <1>3

LEMMA LoopInv ==
    ASSUME TestRunInv, MakeCommands \/ \E t \in Tests : StartTest(t)
    PROVE  TestRunInv'
<1> USE DEF TestRunInv, MakeCommands, StartTest, GoTo, Reaches, project, disk
<1>1. Shapes' /\ Idle' /\ Fresh' /\ ResultIsOwn' /\ Wanted'
  BY DEF Shapes, Idle, Fresh, ResultIsOwn, Wanted
<1>2. Clean' /\ Full'
  BY DEF Clean, Own, TestPhases, Full
<1> QED
  BY <1>1, <1>2

(* The file that is read after a test holds what that test has written. *)
LEMMA TestEndsInv ==
    ASSUME TestRunInv, NEW r \in Reports, NEW how \in Endings, TestEnds(r, how)
    PROVE  TestRunInv'
<1> USE DEF TestRunInv, GoTo, project
<1>1. PICK t \in current : TestEnds(r, how)!(t)
  BY DEF TestEnds
<1>2. t \in launched /\ t \in Tests /\ phase = "test" /\ phase' = "after"
  BY <1>1 DEF Shapes
<1>3. resultFile' = r
  BY <1>1, <1>2 DEF Fresh
<1>4. PICK interrupted \in BOOLEAN : /\ results' = [results EXCEPT ![t] = Verdict(interrupted, r)]
                                     /\ interrupted => how = "killed"
  BY <1>1, <1>3
<1>5. truth' = [truth EXCEPT ![t] = {Verdict(FALSE, r)} \cup {v \in {"INTERRUPTED"} : how = "killed"}]
  BY <1>1
<1>6. \A i \in BOOLEAN : Verdict(i, r) \in Verdicts
  BY DEF Verdict, Verdicts, Reports
<1>7. Shapes'
  <2>1. {Verdict(FALSE, r)} \cup {v \in {"INTERRUPTED"} : how = "killed"} \subseteq Verdicts
    BY <1>6 DEF Verdicts
  <2>2. results' \in [Tests -> Verdicts \cup {"none"}]
    BY <1>2, <1>4, <1>6 DEF Shapes
  <2>3. truth' \in [Tests -> SUBSET Verdicts]
    BY <1>2, <1>5, <2>1 DEF Shapes
  <2> QED
    BY <1>1, <2>2, <2>3 DEF Shapes
<1>8. ResultIsOwn'
  <2>1. Verdict(interrupted, r) \in {Verdict(FALSE, r)} \cup {v \in {"INTERRUPTED"} : how = "killed"}
    <3>1. CASE interrupted
      BY <1>4, <3>1 DEF Verdict
    <3>2. CASE ~ interrupted
      <4>1. Verdict(interrupted, r) = Verdict(FALSE, r)
        BY <3>2 DEF Verdict
      <4> QED
        BY <4>1
    <3> QED
      BY <3>1, <3>2
  <2>2. results'[t] \in truth'[t]
    BY <1>2, <1>4, <1>5, <2>1 DEF Shapes
  <2>3. \A u \in Tests : u # t => results'[u] = results[u] /\ truth'[u] = truth[u]
    BY <1>2, <1>4, <1>5 DEF Shapes
  <2> QED
    BY <2>2, <2>3 DEF ResultIsOwn
<1>9. Idle' /\ Fresh' /\ Wanted'
  BY <1>2 DEF Idle, Fresh, Wanted
<1>10. Clean' /\ Full'
  <2>1. profiles' \subseteq profiles \cup {[of |-> t, old |-> FALSE]}
    BY <1>1 DEF WithProfile
  <2>2. UNCHANGED <<request, launched, coverage, merged, report>>
    BY <1>1
  <2>3. request.coverage => Own(profiles')
    BY <1>2, <2>1 DEF Clean, Own, TestPhases
  <2>4. Clean'
    BY <1>2, <2>2, <2>3 DEF Clean, Own, TestPhases
  <2> QED
    BY <1>2, <2>4 DEF Full
<1> QED
  BY <1>7, <1>8, <1>9, <1>10

LEMMA CollectedIsOwn ==
    ASSUME Own(profiles)
    PROVE  Own(Collected)
  BY DEF Own, Collected, Profraw

LEMMA MergeInv ==
    ASSUME TestRunInv, Merge
    PROVE  TestRunInv'
<1> USE DEF TestRunInv, Merge, GoTo, Reaches, project
<1>0. Own(Collected) /\ UNCHANGED <<AllHaveProfiles, Collected>>
  BY CollectedIsOwn DEF Clean, Wanted, AllHaveProfiles, Collected, Finished, Profraw
<1>1. Shapes' /\ Idle' /\ Fresh' /\ ResultIsOwn' /\ Wanted'
  BY DEF Shapes, Idle, Fresh, ResultIsOwn, Wanted
<1>2. Own(merged')
  BY <1>0 DEF Own, Clean, Wanted
<1>3. Clean'
  BY <1>2 DEF Clean, Own, TestPhases, Wanted
<1>4. Full'
  BY <1>0 DEF Full, Clean, Wanted
<1> QED
  BY <1>1, <1>3, <1>4

LEMMA ExportInv ==
    ASSUME TestRunInv, Export
    PROVE  TestRunInv'
<1> USE DEF TestRunInv, Export, GoTo, Reaches, project
<1>0. UNCHANGED <<AllHaveProfiles, Collected>>
  BY DEF AllHaveProfiles, Collected, Finished, Profraw
<1>1. Shapes' /\ Idle' /\ Fresh' /\ ResultIsOwn' /\ Wanted'
  BY DEF Shapes, Idle, Fresh, ResultIsOwn, Wanted
<1>2. Clean'
  BY DEF Clean, Own, TestPhases, Wanted
<1>3. Full'
  BY <1>0 DEF Full
<1> QED
  BY <1>1, <1>2, <1>3

LEMMA ReadInv ==
    ASSUME TestRunInv, Read
    PROVE  TestRunInv'
<1> USE DEF TestRunInv, Read, GoTo, Reaches, project, disk
<1>0. UNCHANGED <<AllHaveProfiles, Collected>>
  BY DEF AllHaveProfiles, Collected, Finished, Profraw
<1>1. Shapes' /\ Idle' /\ Fresh' /\ ResultIsOwn' /\ Wanted'
  BY DEF Shapes, Idle, Fresh, ResultIsOwn, Wanted
<1>2. Clean'
  BY DEF Clean, Own, TestPhases
<1>3. Full'
  BY <1>0 DEF Full
<1> QED
  BY <1>1, <1>2, <1>3

LEMMA EndOfRequestInv ==
    ASSUME TestRunInv, NEW file, NEW written, EndOfRequest(file, written)
    PROVE  TestRunInv'
<1> USE DEF TestRunInv, EndOfRequest, GoTo, project
<1>1. Shapes' /\ Idle' /\ Fresh' /\ ResultIsOwn' /\ Wanted'
  BY DEF Shapes, Idle, Fresh, ResultIsOwn, Wanted
<1>2. Clean' /\ Full'
  BY DEF Clean, Own, TestPhases, Full
<1> QED
  BY <1>1, <1>2

(* TestRunInv holds in every reachable state. *)
THEOREM TestRunInvariance == TestRunSpec => []TestRunInv
<1>1. ASSUME TestRunInv, [TestRunNext]_runVars
      PROVE  TestRunInv'
  <2>1. CASE UNCHANGED runVars \/ Cancel \/ MakeTool \/ AllListed \/ NextTest \/ StartCollecting
             \/ \E f \in Files : SkipFile(f)
    BY <1>1, <2>1, PhaseInv DEF runVars, requestState, project, disk, Cancel, MakeTool, AllListed,
                                NextTest, StartCollecting, SkipFile, GoTo, Reaches
  <2>2. CASE ThrowIfCancelled \/ MakeToolFails \/ NoCoverage \/ NoBinary \/ ReadFails
             \/ \E f \in Files : RetrySucceeds(f)
    BY <1>1, <2>2, ReplyInv DEF ThrowIfCancelled, LooksAtCancellation, MakeToolFails, NoCoverage,
                                NoBinary, ReadFails, RetrySucceeds, Reaches
  <2>3. CASE \E f \in Files : ListFails(f)
    BY <1>1, <2>3, ReplyInv, PhaseInv DEF ListFails, Reaches
  <2>4. CASE AllRun
    BY <1>1, <2>4, ReplyInv, PhaseInv DEF AllRun, Reaches, GoTo, requestState, disk
  <2>5. CASE Start \/ CleanCoverage \/ CleanAgain \/ \E f \in Files : ListTests(f)
    BY <1>1, <2>5, StartInv, CleanInv, ListTestsInv
  <2>6. CASE MakeCommands \/ \E t \in Tests : StartTest(t)
    BY <1>1, <2>6, LoopInv
  <2>7. CASE \E r \in Reports, how \in Endings : TestEnds(r, how)
    BY <1>1, <2>7, TestEndsInv
  <2>8. CASE Merge \/ Export \/ Read
    BY <1>1, <2>8, MergeInv, ExportInv, ReadInv
  <2>9. CASE Respond \/ Crash
    BY <1>1, <2>9, EndOfRequestInv DEF Respond, Crash
  <2> QED
    BY <1>1, <2>1, <2>2, <2>3, <2>4, <2>5, <2>6, <2>7, <2>8, <2>9 DEF TestRunNext
<1> QED
  BY <1>1, InitTestRunInv, PTL DEF TestRunSpec
-----------------------------------------------------------------------------
(* The verdict of a test is that of its own process in this request. *)
THEOREM TestRunResultIsOwn == TestRunSpec => []ResultIsOwn
<1>1. TestRunInv => ResultIsOwn
  BY DEF TestRunInv
<1> QED
  BY <1>1, TestRunInvariance, PTL

(* Coverage comes from the tests of this request, with llvm-cov from all. *)
THEOREM TestRunCoverageIsOwn == TestRunSpec => []CoverageIsOwn
<1>1. TestRunInv => CoverageIsOwn
  <2> SUFFICES ASSUME TestRunInv
               PROVE  CoverageIsOwn
    OBVIOUS
  <2>1. \A p \in coverage : ~ p.old /\ p.of \in launched
    BY DEF TestRunInv, Clean, Own
  <2>2. ASSUME tool = "llvm-cov", coverage # {}, DistinctNames, NEW t \in Finished
        PROVE  \E p \in coverage : p.of = t
    <3>1. coverage = Collected /\ AllHaveProfiles
      BY <2>2 DEF TestRunInv, Clean, Full
    <3>2. PICK p \in Profraw(t) : TRUE
      BY <2>2, <3>1 DEF AllHaveProfiles
    <3>3. p \in coverage /\ p.of.name = t.name
      BY <2>2, <3>1, <3>2 DEF Collected, Profraw
    <3>4. p.of \in launched /\ t \in launched
      BY <2>1, <2>2, <3>3 DEF Finished
    <3> QED
      BY <2>2, <3>3, <3>4 DEF DistinctNames
  <2> QED
    BY <2>1, <2>2 DEF CoverageIsOwn
<1> QED
  BY <1>1, TestRunInvariance, PTL
-----------------------------------------------------------------------------
(* The types of what the marks are made of. *)
ViewShapes ==
    /\ tests \in Projects
    /\ data \in [Marked -> Marks] /\ screen \in [Marked -> Marks]
    /\ text \in [Texts -> Versions] /\ asked \in [Texts -> Versions]
    /\ gen \in {"none", "asked", "answered", "handling", "shown"}
    /\ gen # "none" => target \in Files
    /\ made \subseteq Texts \X Versions

(* Every change of f since the text of the mark m is written down. *)
Accounted(m, f) ==
    m.mark \notin {"none", "old"} =>
        \A v \in m.text + 1 .. text[f] : <<f, v>> \in unseen \cup made

StoredAccounted == \A x \in Marked : Accounted(data[x], x.file)

ShownAccounted == \A x \in Marked : Accounted(screen[x], x.file)

(* A mark is only in an editor the extension will look at. *)
ShownIsKnown == \A x \in Marked : screen[x].mark # "none" => x.file \in editors

(* While a run is in flight, every change of a text is written down. *)
AskedAccounted ==
    tests \in Watched /\ phase # "idle" =>
        \A f \in Texts : \A v \in asked[f] + 1 .. text[f] : <<f, v>> \in unseen

(* A generation writes its target, once the server has answered. *)
MadeIsTarget ==
    /\ \A w \in made : w[1] = target /\ w[2] <= text[target]
    /\ gen \in {"none", "asked"} => made = {}

(* A run in flight was asked for after the server wrote the tests ... *)
MadeBeforeAsked ==
    tests \in Watched /\ phase # "idle" => \A w \in made : w[2] <= asked[target]

(* ... so what is stored for the target since then is of the new tests. *)
MadeIsRead ==
    gen \in {"handling", "shown"} =>
        \A x \in Marked : x \in Of(target) /\ data[x].mark \notin {"none", "old"} =>
            \A w \in made : w[2] <= data[x].text

(* The inductive invariant of the window. *)
ViewInv ==
    /\ ViewShapes /\ StoredAccounted /\ ShownAccounted /\ ShownIsKnown
    /\ AskedAccounted /\ MadeIsTarget /\ MadeBeforeAsked /\ MadeIsRead

-----------------------------------------------------------------------------
(* Marks are beside texts; none is one. *)
LEMMA TextOfMark == \A x \in Marked : x.file \in Texts
  BY DEF Marked, Covers, Texts, Files

LEMMA Unmarked == NoMark \in Marks /\ NoMark.mark = "none"
  BY ViewAssumption DEF NoMark, Marks, Versions

(* No step of the run changes the project. *)
LEMMA ProjectIsFixed ==
    TestRunNext => UNCHANGED project
  BY DEF TestRunNext, Start, Cancel, ThrowIfCancelled, MakeTool, MakeToolFails, CleanCoverage,
         CleanAgain, ListTests, SkipFile, ListFails, RetrySucceeds, AllListed, MakeCommands,
         StartTest, TestEnds, NextTest, AllRun, NoCoverage, NoBinary, StartCollecting, Merge,
         Export, Read, ReadFails, Respond, Crash, EndOfRequest, ReplyWith

LEMMA InitViewInv == ViewInit => ViewInv
<1> SUFFICES ASSUME ViewInit
             PROVE  ViewInv
  OBVIOUS
<1>1. /\ phase = "idle" /\ gen = "none" /\ made = {}
      /\ data = [x \in Marked |-> NoMark] /\ screen = [x \in Marked |-> NoMark]
      /\ text = [f \in Texts |-> 0] /\ asked = [f \in Texts |-> 0]
      /\ tests \in Projects
  BY DEF ViewInit, TestRunInit
<1>2. 0 \in Versions
  BY ViewAssumption DEF Versions
<1>3. ViewShapes
  BY <1>1, <1>2, Unmarked DEF ViewShapes
<1>4. StoredAccounted /\ ShownAccounted /\ ShownIsKnown
  BY <1>1, Unmarked DEF StoredAccounted, ShownAccounted, ShownIsKnown, Accounted
<1> QED
  BY <1>1, <1>3, <1>4 DEF ViewInv, AskedAccounted, MadeIsTarget, MadeBeforeAsked, MadeIsRead

(* What is shown of a text is what is stored for it, or less. *)
LEMMA DisplayInv ==
    ASSUME ViewShapes, ShownIsKnown, ShownAccounted,
           NEW f, NEW stored \in [Marked -> Marks], NEW isHidden,
           Display(f, stored, isHidden),
           UNCHANGED text,
           (unseen \cup made) \subseteq (unseen \cup made)',
           \A x \in Marked : stored[x].mark \notin {"none", "old"} =>
               \A v \in stored[x].text + 1 .. text[x.file] : <<x.file, v>> \in (unseen \cup made)'
    PROVE  screen' \in [Marked -> Marks] /\ ShownIsKnown' /\ ShownAccounted'
<1>1. CASE isHidden
  BY <1>1 DEF Display, ViewShapes, ShownIsKnown, ShownAccounted, Accounted
<1>2. CASE ~ isHidden
  <2>1. /\ editors' = editors \cup {f}
        /\ screen' = [x \in Marked |-> IF x.file # f THEN screen[x]
                                       ELSE IF x \in Tests THEN Icon(stored[x]) ELSE stored[x]]
    BY <1>2 DEF Display, DisplayVerdict, DisplayCoverage
  <2>2. \A x \in Marked : screen'[x] \in {screen[x], stored[x], NoMark} /\ screen'[x] \in Marks
    BY <2>1, Unmarked DEF Icon, ViewShapes
  <2>3. screen' \in [Marked -> Marks]
    BY <2>1, <2>2
  <2>4. ShownIsKnown'
    BY <2>1 DEF ShownIsKnown
  <2>5. ASSUME NEW x \in Marked
        PROVE  Accounted(screen[x], x.file)'
    <3>1. CASE screen'[x] = screen[x]
      BY <3>1 DEF ShownAccounted, Accounted
    <3>2. CASE screen'[x] = stored[x]
      BY <3>2 DEF Accounted
    <3>3. CASE screen'[x] = NoMark
      BY <3>3, Unmarked DEF Accounted
    <3> QED
      BY <2>2, <3>1, <3>2, <3>3
  <2> QED
    BY <2>3, <2>4, <2>5 DEF ShownAccounted
<1> QED
  BY <1>1, <1>2

(* A request leaves with the texts of the moment. *)
LEMMA AskInv == ASSUME ViewInv, Ask PROVE ViewInv'
<1>1. /\ phase = "idle" /\ phase' # "idle" /\ asked' = text
      /\ UNCHANGED <<tests, data, screen, editors, gen, target, made, text, unseen>>
  BY DEF Ask, Start, GoTo, project, marks, generation
<1>2. ViewShapes'
  BY <1>1 DEF ViewInv, ViewShapes
<1>3. AskedAccounted'
  BY <1>1 DEF ViewInv, ViewShapes, AskedAccounted, Versions
<1>4. MadeBeforeAsked' /\ MadeIsTarget'
  BY <1>1 DEF ViewInv, MadeBeforeAsked, MadeIsTarget
<1>5. StoredAccounted' /\ ShownAccounted' /\ ShownIsKnown' /\ MadeIsRead'
  BY <1>1 DEF ViewInv, StoredAccounted, ShownAccounted, ShownIsKnown, Accounted, MadeIsRead, Of
<1> QED
  BY <1>2, <1>3, <1>4, <1>5 DEF ViewInv

(* Steps that leave the window alone and the run in flight, or end it. *)
LEMMA AsideInv ==
    ASSUME ViewInv,
           UNCHANGED <<tests, data, screen, editors, gen, target, made, text, unseen>>,
           \/ tests \in Watched /\ phase' = "idle" /\ asked' \in [Texts -> Versions]
           \/ tests \in Watched /\ phase # "idle" /\ UNCHANGED asked
           \/ tests \notin Watched /\ UNCHANGED asked
           \/ UNCHANGED <<phase, asked>>
    PROVE  ViewInv'
<1>1. ViewShapes'
  BY DEF ViewInv, ViewShapes
<1>2. AskedAccounted' /\ MadeBeforeAsked' /\ MadeIsTarget'
  BY DEF ViewInv, AskedAccounted, MadeBeforeAsked, MadeIsTarget
<1>3. StoredAccounted' /\ ShownAccounted' /\ ShownIsKnown' /\ MadeIsRead'
  BY DEF ViewInv, StoredAccounted, ShownAccounted, ShownIsKnown, Accounted, MadeIsRead, Of
<1> QED
  BY <1>1, <1>2, <1>3 DEF ViewInv

(* The answer loads marks of the texts the run was asked with. *)
LEMMA AnsweredInv == ASSUME ViewInv, tests \in Watched, Answered PROVE ViewInv'
<1>1. /\ phase # "idle" /\ phase' = "idle"
      /\ asked' = [f \in Texts |-> 0]
      /\ UNCHANGED <<tests, gen, target, made, text, unseen>>
  BY DEF Answered, Respond, EndOfRequest, GoTo, project, generation
<1>2. asked' \in [Texts -> Versions]
  BY <1>1, ViewAssumption DEF Versions
<1>3. AskedAccounted' /\ MadeBeforeAsked' /\ MadeIsTarget'
  BY <1>1 DEF ViewInv, AskedAccounted, MadeBeforeAsked, MadeIsTarget
<1>4. CASE ~ HasData
  <2>1. UNCHANGED <<data, screen, editors>>
    BY <1>4 DEF Answered, Answer, marks
  <2> QED
    BY <1>1, <1>2, <2>1, AsideInv
<1>5. CASE HasData
  <2>1. /\ data' = [x \in Marked |-> IF x \in Tests THEN LoadVerdict(x) ELSE LoadCoverage(x)]
        /\ Display(active, data', FALSE)
    BY <1>5 DEF Answered, Answer
  <2>2. ASSUME NEW x \in Marked
        PROVE  /\ data'[x] \in Marks
               /\ \/ data'[x].mark \in {"none", "old"}
                  \/ data'[x] = data[x]
                  \/ data'[x].text = asked[x.file]
    <3>1. x.file \in Texts /\ data[x] \in Marks /\ asked[x.file] \in Versions
      BY TextOfMark DEF ViewInv, ViewShapes
    <3>2. CASE x \in Tests
      BY <2>1, <3>1, <3>2 DEF LoadVerdict, MarkOf, Marks
    <3>3. CASE x \notin Tests
      BY <2>1, <3>1, <3>3, Unmarked DEF LoadCoverage, Marks
    <3> QED
      BY <3>2, <3>3
  <2>3. data' \in [Marked -> Marks]
    BY <2>1, <2>2
  <2>4. ASSUME NEW x \in Marked
        PROVE  Accounted(data[x], x.file)'
    <3>1. CASE data'[x] = data[x]
      BY <3>1, <1>1 DEF ViewInv, StoredAccounted, Accounted
    <3>2. CASE data'[x].text = asked[x.file]
      BY <3>2, <1>1, TextOfMark DEF ViewInv, AskedAccounted, Accounted
    <3> QED
      BY <2>2, <3>1, <3>2 DEF Accounted
  <2>5. MadeIsRead'
    <3> SUFFICES ASSUME gen \in {"handling", "shown"},
                        NEW x \in Marked, x \in Of(target), data'[x].mark \notin {"none", "old"},
                        NEW w \in made
                 PROVE  w[2] <= data'[x].text
      BY <1>1 DEF MadeIsRead, Of
    <3>1. x.file = target
      BY DEF Of
    <3>2. CASE data'[x] = data[x]
      BY <3>2 DEF ViewInv, MadeIsRead
    <3>3. CASE data'[x].text = asked[x.file]
      BY <3>1, <3>3, <1>1 DEF ViewInv, MadeBeforeAsked
    <3> QED
      BY <2>2, <3>2, <3>3
  <2>6. \A x \in Marked : data'[x].mark \notin {"none", "old"} =>
           \A v \in data'[x].text + 1 .. text[x.file] : <<x.file, v>> \in (unseen \cup made)'
    BY <2>4, <1>1 DEF Accounted
  <2>7. screen' \in [Marked -> Marks] /\ ShownIsKnown' /\ ShownAccounted'
    <3>1. /\ ViewShapes /\ ShownIsKnown /\ ShownAccounted
          /\ (unseen \cup made) \subseteq (unseen \cup made)'
          /\ UNCHANGED text
      BY <1>1 DEF ViewInv
    <3> QED
      BY <2>1, <2>3, <2>6, <3>1, DisplayInv
  <2>8. ViewShapes'
    BY <1>1, <1>2, <2>3, <2>7 DEF ViewInv, ViewShapes
  <2>9. StoredAccounted'
    BY <2>4 DEF StoredAccounted
  <2> QED
    BY <1>3, <2>5, <2>7, <2>8, <2>9 DEF ViewInv
<1> QED
  BY <1>4, <1>5

(* The marks of a text go with its change, if its editor is known. *)
LEMMA ChangeInv ==
    ASSUME ViewInv, NEW f \in Texts, Change(f),
           (unseen \cup made) \subseteq (unseen \cup made)',
           f \notin editors => <<f, text[f] + 1>> \in (unseen \cup made)'
    PROVE  /\ data' \in [Marked -> Marks] /\ screen' \in [Marked -> Marks]
           /\ text' \in [Texts -> Versions]
           /\ text'[f] = text[f] + 1 /\ \A g \in Texts \ {f} : text'[g] = text[g]
           /\ \A x \in Marked : data'[x].mark \in {"none", "old"} \/ data'[x] = data[x]
           /\ StoredAccounted' /\ ShownAccounted' /\ ShownIsKnown'
<1>1. /\ text'[f] = text[f] + 1 /\ text[f] < MaxEdits
      /\ \A g \in Texts \ {f} : text'[g] = text[g]
      /\ text' \in [Texts -> Versions]
  <2>1. text[f] \in Versions /\ text[f] < MaxEdits /\ text' = [text EXCEPT ![f] = @ + 1]
    BY DEF Change, ViewInv, ViewShapes
  <2>2. text[f] + 1 \in Versions
    BY <2>1, ViewAssumption DEF Versions
  <2> QED
    BY <2>1, <2>2 DEF ViewInv, ViewShapes
<1>2. CASE f \in editors
  <2>1. /\ screen' = Without(f, screen) /\ data' = Without(f, data)
        /\ editors' = editors \ {f}
    BY <1>2 DEF Change, Noticed
  <2>2. \A x \in Marked : /\ data'[x] = IF x.file = f THEN NoMark ELSE data[x]
                          /\ screen'[x] = IF x.file = f THEN NoMark ELSE screen[x]
    BY <2>1 DEF Without
  <2>3. data' \in [Marked -> Marks] /\ screen' \in [Marked -> Marks]
    BY <2>1, Unmarked DEF Without, ViewInv, ViewShapes
  <2>4. ShownIsKnown'
    BY <2>1, <2>2, Unmarked DEF ViewInv, ShownIsKnown
  <2>5. StoredAccounted' /\ ShownAccounted'
    BY <1>1, <2>2, Unmarked, TextOfMark
       DEF ViewInv, StoredAccounted, ShownAccounted, Accounted
  <2> QED
    BY <1>1, <2>2, <2>3, <2>4, <2>5, Unmarked
<1>3. CASE f \notin editors
  <2>1. UNCHANGED <<data, screen, editors>>
    BY <1>3 DEF Change, marks
  <2>2. ASSUME NEW m \in Marks, NEW g \in Texts, Accounted(m, g)
        PROVE  m.mark \notin {"none", "old"} =>
                 \A v \in m.text + 1 .. text'[g] : <<g, v>> \in (unseen \cup made)'
    <3>1. text[g] \in Versions /\ m.text \in Versions
      BY DEF ViewInv, ViewShapes, Marks
    <3>2. CASE g = f
      <4>1. ASSUME NEW v \in m.text + 1 .. text'[g]
            PROVE  v \in m.text + 1 .. text[g] \/ v = text[f] + 1
        BY <3>1, <3>2, <1>1 DEF Versions
      <4> QED
        BY <4>1, <2>2, <3>2, <1>3 DEF Accounted
    <3>3. CASE g # f
      BY <2>2, <3>3, <1>1 DEF Accounted
    <3> QED
      BY <3>2, <3>3
  <2>3. StoredAccounted'
    BY <2>1, <2>2, TextOfMark DEF ViewInv, ViewShapes, StoredAccounted, Accounted
  <2>4. ShownAccounted'
    BY <2>1, <2>2, TextOfMark DEF ViewInv, ViewShapes, ShownAccounted, Accounted
  <2> QED
    BY <1>1, <2>1, <2>3, <2>4 DEF ViewInv, ViewShapes, ShownIsKnown
<1> QED
  BY <1>2, <1>3

(* An edit is noticed, or written down as unseen. *)
LEMMA EditInv ==
    ASSUME ViewInv, NEW f \in Texts, Edit(f), UNCHANGED <<tests, phase>>
    PROVE  ViewInv'
<1>1. /\ Change(f) /\ UNCHANGED <<gen, target, made, asked>>
      /\ unseen' = IF Visible(f) /\ phase = "idle" THEN unseen
                   ELSE unseen \cup {<<f, text[f] + 1>>}
  BY DEF Edit, generation
<1>2. Visible(f) => f \in editors
  BY DEF Visible, Of, ViewInv, ShownIsKnown
<1>3. /\ data' \in [Marked -> Marks] /\ screen' \in [Marked -> Marks]
      /\ text' \in [Texts -> Versions]
      /\ text'[f] = text[f] + 1 /\ \A g \in Texts \ {f} : text'[g] = text[g]
      /\ \A x \in Marked : data'[x].mark \in {"none", "old"} \/ data'[x] = data[x]
      /\ StoredAccounted' /\ ShownAccounted' /\ ShownIsKnown'
  BY <1>1, <1>2, ChangeInv
<1>4. ViewShapes'
  BY <1>1, <1>3 DEF ViewInv, ViewShapes
<1>5. AskedAccounted'
  <2> SUFFICES ASSUME tests \in Watched, phase # "idle", NEW g \in Texts,
                      NEW v \in asked[g] + 1 .. text'[g]
               PROVE  <<g, v>> \in unseen'
    BY <1>1 DEF AskedAccounted
  <2>1. text[g] \in Versions /\ asked[g] \in Versions
    BY DEF ViewInv, ViewShapes
  <2>2. v \in asked[g] + 1 .. text[g] \/ (g = f /\ v = text[f] + 1)
    BY <2>1, <1>3 DEF Versions
  <2> QED
    BY <2>2, <1>1 DEF ViewInv, AskedAccounted
<1>6. MadeIsTarget'
  <2> SUFFICES ASSUME NEW w \in made
               PROVE  w[2] <= text'[target]
    BY <1>1 DEF ViewInv, MadeIsTarget
  <2>1. w[2] \in Versions /\ target \in Texts /\ w[2] <= text[target] /\ text[target] \in Versions
    BY DEF ViewInv, ViewShapes, MadeIsTarget, Texts
  <2> QED
    BY <2>1, <1>3 DEF Versions
<1>7. MadeBeforeAsked'
  BY <1>1 DEF ViewInv, MadeBeforeAsked
<1>8. MadeIsRead'
  BY <1>1, <1>3 DEF ViewInv, MadeIsRead, Of
<1> QED
  BY <1>3, <1>4, <1>5, <1>6, <1>7, <1>8 DEF ViewInv

(* Another editor: what is stored for its text is shown. *)
LEMMA ActivateInv ==
    ASSUME ViewInv, NEW f, Display(f, data, hidden),
           UNCHANGED <<tests, phase, data, text, asked, unseen, made, target>>,
           gen' = gen \/ (gen = "handling" /\ gen' = "shown")
    PROVE  ViewInv'
<1>1. screen' \in [Marked -> Marks] /\ ShownIsKnown' /\ ShownAccounted'
  <2>1. /\ ViewShapes /\ ShownIsKnown /\ ShownAccounted
        /\ (unseen \cup made) \subseteq (unseen \cup made)'
        /\ data \in [Marked -> Marks]
    BY DEF ViewInv, ViewShapes
  <2>2. \A x \in Marked : data[x].mark \notin {"none", "old"} =>
           \A v \in data[x].text + 1 .. text[x.file] : <<x.file, v>> \in (unseen \cup made)'
    BY DEF ViewInv, StoredAccounted, Accounted
  <2> QED
    BY <2>1, <2>2, DisplayInv
<1>2. ViewShapes' /\ StoredAccounted' /\ AskedAccounted' /\ MadeIsTarget'
  BY <1>1 DEF ViewInv, ViewShapes, StoredAccounted, Accounted, AskedAccounted, MadeIsTarget
<1>3. MadeBeforeAsked' /\ MadeIsRead'
  BY DEF ViewInv, MadeBeforeAsked, MadeIsRead, Of
<1> QED
  BY <1>1, <1>2, <1>3 DEF ViewInv

(* What is only forgotten cannot be wrong. *)
LEMMA ForgetInv ==
    ASSUME ViewInv, NEW forgotten,
           data' = [x \in Marked |-> IF x \in forgotten THEN NoMark ELSE data[x]],
           UNCHANGED <<tests, phase, screen, editors, target, made, text, asked, unseen>>,
           \/ gen' = gen
           \/ gen = "answered" /\ gen' = "handling" /\ Of(target) \subseteq forgotten
    PROVE  ViewInv'
<1>1. \A x \in Marked : data'[x] = NoMark \/ data'[x] = data[x]
  OBVIOUS
<1>2. ViewShapes'
  BY Unmarked DEF ViewInv, ViewShapes
<1>3. StoredAccounted'
  BY <1>1, Unmarked DEF ViewInv, StoredAccounted, Accounted
<1>4. ShownAccounted' /\ ShownIsKnown' /\ AskedAccounted' /\ MadeIsTarget' /\ MadeBeforeAsked'
  BY DEF ViewInv, ShownAccounted, ShownIsKnown, Accounted, AskedAccounted, MadeIsTarget,
         MadeBeforeAsked
<1>5. MadeIsRead'
  <2>1. CASE gen' = gen
    BY <2>1, <1>1, Unmarked DEF ViewInv, MadeIsRead, Of
  <2>2. CASE Of(target) \subseteq forgotten
    BY <2>2, Unmarked DEF MadeIsRead, Of
  <2> QED
    BY <2>1, <2>2
<1> QED
  BY <1>2, <1>3, <1>4, <1>5 DEF ViewInv

(***************************************************************************)
(* Hiding all marks leaves none on the screen, because those that are      *)
(* there are in known editors.  It also ends a generation: the verdicts    *)
(* that are kept are newer than the texts it has written.                  *)
(***************************************************************************)
LEMMA HideInv ==
    ASSUME ViewInv, AllHidden,
           UNCHANGED <<tests, phase, target, text, asked, unseen>>,
           \/ UNCHANGED <<gen, made>>
           \/ gen \in {"handling", "shown"} /\ gen' = "none" /\ made' = {}
    PROVE  ViewInv'
<1>1. \A x \in Marked : screen'[x].mark = "none"
  BY Unmarked DEF AllHidden, ViewInv, ShownIsKnown
<1>2. /\ data' = [x \in Marked |-> IF x \in Covers THEN NoMark ELSE data[x]]
      /\ \A x \in Marked : data'[x] = NoMark \/ data'[x] = data[x]
  BY DEF AllHidden, ForgetCoverage
<1>3. screen' \in [Marked -> Marks] /\ data' \in [Marked -> Marks]
  BY <1>2, Unmarked DEF AllHidden, ViewInv, ViewShapes
<1>4. ViewShapes'
  BY <1>3 DEF ViewInv, ViewShapes
<1>5. ShownAccounted' /\ ShownIsKnown'
  BY <1>1, Unmarked DEF ShownAccounted, ShownIsKnown, Accounted
<1>6. AskedAccounted' /\ MadeIsTarget' /\ MadeBeforeAsked'
  BY DEF ViewInv, AskedAccounted, MadeIsTarget, MadeBeforeAsked
<1>7. MadeIsRead'
  BY <1>2, Unmarked DEF ViewInv, MadeIsRead, Of
<1>8. StoredAccounted'
  <2> SUFFICES ASSUME NEW x \in Marked, data'[x].mark \notin {"none", "old"},
                      NEW v \in data[x].text + 1 .. text[x.file]
               PROVE  <<x.file, v>> \in unseen' \cup made'
    BY <1>2, Unmarked DEF StoredAccounted, Accounted
  <2>1. data'[x] = data[x] /\ <<x.file, v>> \in unseen \cup made
    BY <1>2, Unmarked DEF ViewInv, StoredAccounted, Accounted
  <2>2. ASSUME <<x.file, v>> \in made, gen \in {"handling", "shown"}
        PROVE  FALSE
    <3>1. x.file = target /\ v <= data[x].text
      BY <2>1, <2>2 DEF ViewInv, MadeIsTarget, MadeIsRead, Of
    <3>2. data[x].text \in Nat /\ v >= data[x].text + 1
      BY ViewAssumption DEF ViewInv, ViewShapes, Marks, Versions
    <3> QED
      BY <3>1, <3>2
  <2> QED
    BY <2>1, <2>2
<1> QED
  BY <1>4, <1>5, <1>6, <1>7, <1>8 DEF ViewInv

(* The server has written the tests, while no run was in flight. *)
LEMMA ServerAnswersInv ==
    ASSUME ViewInv, ServerAnswers, UNCHANGED <<tests, phase>>
    PROVE  ViewInv'
<1>1. /\ gen = "asked" /\ phase = "idle" /\ gen' = "answered" /\ Change(target)
      /\ made' = made \cup {<<target, text[target] + 1>>}
      /\ UNCHANGED <<target, asked, unseen>>
  BY DEF ServerAnswers
<1>2. target \in Texts /\ target \in Files /\ made = {}
  BY <1>1 DEF ViewInv, ViewShapes, Texts, MadeIsTarget
<1>3. /\ data' \in [Marked -> Marks] /\ screen' \in [Marked -> Marks]
      /\ text' \in [Texts -> Versions]
      /\ text'[target] = text[target] + 1
      /\ StoredAccounted' /\ ShownAccounted' /\ ShownIsKnown'
  BY <1>1, <1>2, ChangeInv
<1>4. text'[target] \in Versions /\ text[target] \in Versions
  BY <1>2, <1>3 DEF ViewInv, ViewShapes
<1>5. ViewShapes'
  BY <1>1, <1>2, <1>3, <1>4 DEF ViewInv, ViewShapes
<1>6. MadeIsTarget'
  BY <1>1, <1>2, <1>3, <1>4 DEF MadeIsTarget, Versions
<1> QED
  BY <1>1, <1>3, <1>5, <1>6 DEF ViewInv, AskedAccounted, MadeBeforeAsked, MadeIsRead

(* The promise is rejected: what was written was seen by nobody. *)
LEMMA TestsFailInv ==
    ASSUME ViewInv, TestsFail, UNCHANGED <<tests, phase>>
    PROVE  ViewInv'
<1>1. /\ gen # "none" /\ gen' \in {"none", "asked"} /\ made' = {} /\ unseen' = unseen \cup made
      /\ UNCHANGED <<data, screen, editors, target, text, asked>>
  BY DEF TestsFail, marks
<1>2. (unseen \cup made)' = unseen \cup made
  BY <1>1
<1>3. ViewShapes'
  BY <1>1 DEF ViewInv, ViewShapes
<1>4. StoredAccounted' /\ ShownAccounted' /\ ShownIsKnown'
  BY <1>1, <1>2 DEF ViewInv, StoredAccounted, ShownAccounted, ShownIsKnown, Accounted
<1> QED
  BY <1>1, <1>3, <1>4
     DEF ViewInv, AskedAccounted, MadeIsTarget, MadeBeforeAsked, MadeIsRead

LEMMA ViewStepInv ==
    ASSUME ViewInv, ViewStep
    PROVE  ViewInv'
<1>0. tests \in Watched /\ UNCHANGED <<tests, phase>>
  BY DEF ViewStep, runVars, project
<1>1. ASSUME NEW f \in {t.file : t \in tests} \cup Sources, Edit(f)
      PROVE  ViewInv'
  <2>1. f \in Texts
    BY DEF ViewInv, ViewShapes, Texts, Files, Tests
  <2> QED
    BY <1>0, <1>1, <2>1, EditInv
<1>2. ASSUME NEW f, Activate(f)
      PROVE  ViewInv'
  BY <1>0, <1>2, ActivateInv DEF Activate, generation
<1>3. ASSUME NEW f, Delete(f)
      PROVE  ViewInv'
  <2>1. data' = [x \in Marked |-> IF x \in Of(f) THEN NoMark ELSE data[x]]
    BY <1>3 DEF Delete, Without, Of
  <2> QED
    BY <1>0, <1>3, <2>1, ForgetInv DEF Delete, generation
<1>4. CASE HideAll
  BY <1>0, <1>4, HideInv DEF HideAll, AllHidden, generation
<1>5. ASSUME NEW f \in {t.file : t \in tests}, AskForTests(f)
      PROVE  ViewInv'
  <2>1. f \in Files
    BY DEF ViewInv, ViewShapes, Files, Tests
  <2>2. /\ gen = "none" /\ gen' = "asked" /\ target' = f /\ made = {} /\ made' = {}
        /\ UNCHANGED <<data, screen, editors, hidden, text, asked, unseen>>
    BY <1>5 DEF AskForTests, marks, ViewInv, MadeIsTarget
  <2>3. ViewShapes'
    BY <1>0, <2>1, <2>2 DEF ViewInv, ViewShapes
  <2>4. StoredAccounted' /\ ShownAccounted' /\ ShownIsKnown'
    BY <2>2 DEF ViewInv, StoredAccounted, ShownAccounted, ShownIsKnown, Accounted
  <2> QED
    BY <1>0, <2>2, <2>3, <2>4
       DEF ViewInv, AskedAccounted, MadeIsTarget, MadeBeforeAsked, MadeIsRead
<1>6. CASE ServerAnswers
  BY <1>0, <1>6, ServerAnswersInv DEF ServerAnswers, Change, Noticed, marks
<1>7. CASE HandleTests
  <2>1. data' = [x \in Marked |-> IF x \in Of(target) THEN NoMark ELSE data[x]]
    BY <1>7 DEF HandleTests, Without, Of
  <2> QED
    BY <1>0, <1>7, <2>1, ForgetInv DEF HandleTests
<1>8. CASE ShowTests
  <2>1. /\ gen = "handling" /\ gen' = "shown"
        /\ UNCHANGED <<data, hidden, target, made, text, asked, unseen>>
    BY <1>8 DEF ShowTests
  <2>2. CASE Display(target, data, hidden)
    BY <1>0, <2>1, <2>2, ActivateInv
  <2>3. CASE UNCHANGED <<screen, editors>>
    BY <1>0, <2>1, <2>3
       DEF ViewInv, ViewShapes, StoredAccounted, ShownAccounted, ShownIsKnown, Accounted,
           AskedAccounted, MadeIsTarget, MadeBeforeAsked, MadeIsRead, Of
  <2> QED
    BY <1>8, <2>2, <2>3 DEF ShowTests
<1>9. CASE TestsDone
  BY <1>0, <1>9, HideInv DEF TestsDone, AllHidden
<1>10. CASE TestsFail
  BY <1>0, <1>10, TestsFailInv DEF TestsFail, marks
<1> QED
  BY <1>1, <1>2, <1>3, <1>4, <1>5, <1>6, <1>7, <1>8, <1>9, <1>10 DEF ViewStep

LEMMA ViewNextInv ==
    ASSUME ViewInv, [ViewNext]_<<runVars, viewVars>>
    PROVE  ViewInv'
<1>1. CASE RunStep
  <2>0. tests \in Watched
    BY <1>1 DEF RunStep
  <2>1. CASE Ask
    BY <2>1, AskInv DEF Ask, marks
  <2>2. CASE Run
    <3>1. phase # "idle" /\ UNCHANGED <<tests, viewVars>>
      BY <2>2 DEF Run, project
    <3> QED
      BY <2>0, <3>1, AsideInv DEF viewVars, marks, generation
  <2>3. CASE Answered
    BY <2>0, <2>3, AnsweredInv DEF Answered, Answer, marks
  <2>4. CASE Lost
    <3>1. /\ phase' = "idle" /\ asked' = [f \in Texts |-> 0]
          /\ UNCHANGED <<tests, marks, generation, text, unseen>>
      BY <2>4 DEF Lost, Crash, EndOfRequest, GoTo, project
    <3>2. asked' \in [Texts -> Versions]
      BY <3>1, ViewAssumption DEF Versions
    <3> QED
      BY <2>0, <3>1, <3>2, AsideInv DEF marks, generation
  <2> QED
    BY <1>1, <2>1, <2>2, <2>3, <2>4 DEF RunStep
<1>2. CASE RunElsewhere
  BY <1>2, ProjectIsFixed, AsideInv DEF RunElsewhere, viewVars, marks, generation, project
<1>3. CASE ViewStep
  BY <1>3, ViewStepInv
<1>4. CASE UNCHANGED <<runVars, viewVars>>
  BY <1>4, AsideInv DEF runVars, viewVars, marks, generation, project
<1> QED
  BY <1>1, <1>2, <1>3, <1>4 DEF ViewNext

(***************************************************************************)
(* A mark on the screen is of the text beside it, unless the text changed  *)
(* where the extension does not look: for any number of texts, tests and   *)
(* edits, whatever the server answers and whenever.                        *)
(***************************************************************************)
THEOREM ViewMarksAreOfTheText == ViewSpec => []MarksAreOfTheText
<1>1. ViewInit => ViewInv
  BY InitViewInv
<1>2. ViewInv /\ [ViewNext]_<<runVars, viewVars>> => ViewInv'
  BY ViewNextInv
<1>3. ViewInv => MarksAreOfTheText
  BY DEF ViewInv, ShownAccounted, Accounted, MarksAreOfTheText
<1> QED
  BY <1>1, <1>2, <1>3, PTL DEF ViewSpec
=============================================================================
