----------------------------- MODULE ResultsView -----------------------------
(***************************************************************************)
(* What VS Code shows of the answers of TestRun (visualizers/, runner/     *)
(* testsRunner.ts, responses/responseHandler.ts, generators/gen.ts): icons *)
(* beside the tests of a test file and beside the lines of a source.  A    *)
(* mark is of the text the tests were run with; meanwhile the user types,  *)
(* changes editors, hides the marks and has tests generated anew.  The     *)
(* server works on the files of the client (the local scenario).           *)
(*                                                                         *)
(* The two visualizers have the same shape and are modelled together: test *)
(* files have the marks of TestResultsVisualizer, sources those of         *)
(* CoverageVisualizer.  Each text has one editor.  What happens between    *)
(* two awaits of the extension happens at once.                            *)
(***************************************************************************)
EXTENDS TestRun, Naturals

CONSTANTS Watched,  \* the projects open in VS Code; the others are run from elsewhere
          Sources,  \* the sources under test
          MaxEdits  \* bound: how often a text is changed

ASSUME ViewAssumption ==
    /\ Watched \subseteq Projects
    /\ Sources \cap Files = {}
    /\ MaxEdits \in Nat

VARIABLES data,     \* testsWithStatuses and coverages: the mark of a test or source
          screen,   \* the decorations that are set
          editors,  \* the sets `editors` of the visualizers
          hidden,   \* their flags `hidden`, which always have the same value
          active,   \* the text of the active editor
          text,     \* the version of each text
          asked,    \* the versions when the run in flight was asked for
          gen,      \* how far a generation of tests has come
          target,   \* the test file it writes
          made,     \* the versions the generation in flight has written
          unseen    \* the versions written while nobody could notice

marks == <<data, screen, editors, hidden>>
generation == <<gen, target, made>>
viewVars == <<marks, generation, active, text, asked, unseen>>

Covers == [file : Sources]     \* the coverage of a source
Marked == Tests \cup Covers
Texts == Files \cup Sources
Of(f) == {x \in Marked : x.file = f}
Versions == 0..MaxEdits
NoMark == [mark |-> "none", text |-> 0]
Marks == [mark : {"none", "icon", "blank", "full", "old"}, text : Versions]

ViewInit ==
    /\ TestRunInit
    /\ data = [x \in Marked |-> NoMark] /\ screen = [x \in Marked |-> NoMark]
    /\ editors = {} /\ hidden = FALSE
    /\ active \in IF tests \in Watched THEN {t.file : t \in tests} ELSE {CHOOSE f \in Files : TRUE}
    /\ text = [f \in Texts |-> 0] /\ asked = [f \in Texts |-> 0]
    /\ gen = "none" /\ target = active /\ made = {} /\ unseen = {}

ViewTypeOK ==
    /\ data \in [Marked -> Marks] /\ screen \in [Marked -> Marks]
    /\ editors \subseteq Texts /\ active \in Texts /\ target \in Files
    /\ text \in [Texts -> Versions] /\ asked \in [Texts -> Versions]
    /\ gen \in {"none", "asked", "answered", "handling", "shown"}
    /\ made \subseteq Texts \X Versions /\ unseen \subseteq Texts \X Versions
-----------------------------------------------------------------------------
Without(f, of) == [x \in Marked |-> IF x.file = f THEN NoMark ELSE of[x]]

(* Which of the three icons a verdict has does not matter here; a test that *)
(* was interrupted is stored like the others and has none.                  *)
MarkOf(verdict) == IF verdict = "INTERRUPTED" THEN "blank" ELSE "icon"
Icon(m) == IF m.mark = "blank" THEN NoMark ELSE m

(* display(editor): the decorations become what is stored for its text. *)
DisplayVerdict(x, stored) == Icon(stored[x])
DisplayCoverage(x, stored) == stored[x]

Display(f, stored, isHidden) ==
    IF isHidden
    THEN UNCHANGED <<screen, editors>>
    ELSE /\ screen' = [x \in Marked |->
                         IF x.file # f THEN screen[x]
                         ELSE IF x \in Tests THEN DisplayVerdict(x, stored)
                         ELSE DisplayCoverage(x, stored)]
         /\ editors' = editors \cup {f}

(* loadData(): a verdict replaces that of the same test ... *)
LoadVerdict(t) ==
    IF results[t] = "none" THEN data[t]
    ELSE [mark |-> MarkOf(results[t]), text |-> asked[t.file]]

(* ... what was covered becomes old coverage, and the new one is added. *)
LoadCoverage(c) ==
    IF coverage # {} THEN [mark |-> "full", text |-> asked[c.file]]
    ELSE IF data[c].mark = "none" THEN NoMark ELSE [data[c] EXCEPT !.mark = "old"]

(* The server writes its response before it fails, and the promise of the *)
(* client is kept with the first data: a failure after it goes unnoticed. *)
HasData == status \in {"OK", "FAILED_PRECONDITION"} /\ ~ cancelled

(* TestsRunner.run(): load, setHidden(false), display in the active editor. *)
Answer ==
    IF HasData
    THEN /\ data' = [x \in Marked |-> IF x \in Tests THEN LoadVerdict(x) ELSE LoadCoverage(x)]
         /\ hidden' = FALSE
         /\ Display(active, data', FALSE)
    ELSE UNCHANGED marks

(* The request leaves with the texts as they are; it always asks for both *)
(* the verdicts and the coverage.                                         *)
Ask ==
    /\ Start /\ request'.coverage
    /\ asked' = text
    /\ UNCHANGED <<marks, generation, active, text, unseen>>

(***************************************************************************)
(* For a project that is open, what TestRun may do between Start and       *)
(* Respond is one step: any verdicts of tests it may launch, coverage from *)
(* them or none, any status.  It does not look at the window, and is       *)
(* explored step by step for the other projects.                           *)
(***************************************************************************)
Run ==
    /\ phase = "init"
    /\ GoTo("reply")
    /\ launched' \in {ts \in SUBSET tests : \A t \in ts : t \in launched \/ t.file \in files}
    /\ results' \in {r \in [Tests -> Verdicts \cup {"none"}] :
                        \A t \in Tests : r[t] # "none" => t \in launched'}
    /\ truth' = [t \in Tests |-> {results'[t]} \ {"none"}]
    /\ coverage' \in {{}, [of : launched', old : {FALSE}]}
    /\ status' \in {"OK", "FAILED_PRECONDITION", "CANCELLED", "UNKNOWN"}
    /\ status' # "OK" => coverage' = {}
    /\ UNCHANGED <<project, request, cancelled, files, left, current, errors, disk, viewVars>>

Answered ==
    /\ Respond
    /\ Answer
    /\ asked' = [f \in Texts |-> 0]
    /\ UNCHANGED <<generation, active, text, unseen>>

(* The server dies: the client only logs the error. *)
Lost ==
    /\ phase = "init" /\ Crash
    /\ asked' = [f \in Texts |-> 0]
    /\ UNCHANGED <<marks, generation, active, text, unseen>>

RunStep == tests \in Watched /\ (Ask \/ Run \/ Answered \/ Lost)

RunElsewhere == tests \notin Watched /\ TestRunNext /\ UNCHANGED viewVars

(* Mutant of Noticed: the decorations go, the data stay. *)
NoticedOnScreen(f) ==
    /\ screen' = Without(f, screen)
    /\ editors' = editors \ {f}
    /\ UNCHANGED <<data, hidden>>

(* onDidChangeTextDocument: hide, and forget what is stored for the text. *)
Noticed(f) ==
    /\ screen' = Without(f, screen)
    /\ editors' = editors \ {f}
    /\ data' = Without(f, data)
    /\ UNCHANGED hidden

(* A text changes; only editors in the set are looked at. *)
Change(f) ==
    /\ text[f] < MaxEdits
    /\ text' = [text EXCEPT ![f] = @ + 1]
    /\ IF f \in editors THEN Noticed(f) ELSE UNCHANGED marks

Visible(f) == \E x \in Of(f) : screen[x].mark # "none"

(* The user, or a program the user runs, changes a text. *)
Edit(f) ==
    /\ Change(f)
    /\ unseen' = IF Visible(f) /\ phase = "idle" THEN unseen
                 ELSE unseen \cup {<<f, text[f] + 1>>}
    /\ UNCHANGED <<generation, active, asked>>

(* onDidChangeActiveTextEditor *)
Activate(f) ==
    /\ active # f
    /\ active' = f
    /\ Display(f, data, hidden)
    /\ UNCHANGED <<data, hidden, generation, text, asked, unseen>>

(* onDidDeleteFiles; the editor stays open and the file is restored. *)
Delete(f) ==
    /\ Without(f, data) # data
    /\ data' = Without(f, data)
    /\ UNCHANGED <<screen, editors, hidden, generation, active, text, asked, unseen>>

(* hideAll() of both: the coverage is forgotten, the verdicts are kept. *)
ForgetCoverage == data' = [x \in Marked |-> IF x \in Covers THEN NoMark ELSE data[x]]

AllHidden ==
    /\ hidden' = TRUE
    /\ ForgetCoverage
    /\ screen' = [x \in Marked |-> IF x.file \in editors THEN NoMark ELSE screen[x]]
    /\ editors' = {}

(* The command that hides the marks; the answer to a snippet does it too. *)
HideAll ==
    /\ AllHidden
    /\ UNCHANGED <<generation, active, text, asked, unseen>>
-----------------------------------------------------------------------------
(* gen.ts: whatever the mode, once what it needs is there (a target, an    *)
(* open file, a folder, a predicate) tests for the test file f are asked.  *)
AskForTests(f) ==
    /\ gen = "none"
    /\ gen' = "asked" /\ target' = f /\ made' = {}
    /\ UNCHANGED <<marks, active, text, asked, unseen>>

(* The server answers, no run being in flight: its requests follow one     *)
(* another.  It has written the file; the document is loaded again.        *)
ServerAnswers ==
    /\ gen = "asked" /\ phase = "idle"
    /\ gen' = "answered"
    /\ Change(target)
    /\ made' = made \cup {<<target, text[target] + 1>>}
    /\ UNCHANGED <<target, active, asked, unseen>>

(* Mutant of HandleTests: what is stored for the file is kept. *)
HandleAndKeep ==
    /\ gen = "answered"
    /\ gen' = "handling"
    /\ UNCHANGED <<marks, target, made, active, text, asked, unseen>>

(* TestsResponseHandler: verdicts of files that were generated are removed. *)
HandleTests ==
    /\ gen = "answered"
    /\ gen' = "handling"
    /\ data' = Without(target, data)
    /\ UNCHANGED <<screen, editors, hidden, target, made, active, text, asked, unseen>>

(* ... then one is shown, unless tests of many sources were asked for. *)
ShowTests ==
    /\ gen = "handling"
    /\ gen' = "shown"
    /\ \/ /\ active' = target
          /\ IF active = target THEN UNCHANGED <<screen, editors>>
             ELSE Display(target, data, hidden)
       \/ UNCHANGED <<active, screen, editors>>
    /\ UNCHANGED <<data, hidden, target, made, text, asked, unseen>>

(* The last message keeps the promise, whether the editor is open or not. *)
TestsDone ==
    /\ gen \in {"handling", "shown"}
    /\ gen' = "none" /\ made' = {}
    /\ AllHidden
    /\ UNCHANGED <<target, active, text, asked, unseen>>

(* The promise is rejected, possibly after the server has written the file. *)
(* Another target may be chosen then, and the tests are asked for again.    *)
TestsFail ==
    /\ gen # "none"
    /\ gen' \in {"none", "asked"}
    /\ made' = {}
    /\ unseen' = unseen \cup made
    /\ gen' # gen \/ made # {}
    /\ UNCHANGED <<marks, target, active, text, asked>>

ViewStep ==
    /\ tests \in Watched
    /\ \/ \E f \in {t.file : t \in tests} \cup Sources : Edit(f) \/ Activate(f) \/ Delete(f)
       \/ HideAll
       \/ \E f \in {t.file : t \in tests} : AskForTests(f)
       \/ ServerAnswers \/ HandleTests \/ ShowTests \/ TestsDone \/ TestsFail
    /\ UNCHANGED runVars

ViewNext == RunStep \/ RunElsewhere \/ ViewStep

ViewSpec == ViewInit /\ [][ViewNext]_<<runVars, viewVars>>
-----------------------------------------------------------------------------
(***************************************************************************)
(* A mark on the screen that is not called old is of the text as it is,    *)
(* unless every change since the run was made where the extension does not *)
(* look: while no mark of that text was on the screen, or while a run was  *)
(* in flight.  In particular an edit of marked text takes its marks away   *)
(* for good, however the marks were hidden, reloaded and shown again, and  *)
(* no verdict survives the tests it is of being generated anew.            *)
(***************************************************************************)
MarksAreOfTheText ==
    \A x \in Marked :
        screen[x].mark \notin {"none", "old"} =>
            \A v \in screen[x].text + 1 .. text[x.file] :
                <<x.file, v>> \in unseen \cup made
=============================================================================
