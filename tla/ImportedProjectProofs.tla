------------------------ MODULE ImportedProjectProofs ------------------------
(***************************************************************************)
(* Proofs about ImportedProject, for any project: any files, any commands  *)
(* that could have been run in some order, any number of dialogs.          *)
(*                                                                         *)
(* The configuration (ConfigInv): one request at a time is at work, and    *)
(* only the last command of one that goes through leaves both files whole. *)
(* A half-built directory is that of a request which is about to clear it. *)
(* An answer IS_OK that is still current is therefore true; what an IDE    *)
(* shows follows an answer that was the last, as every mode but ALL has    *)
(* one answer only.                                                        *)
(*                                                                         *)
(* The database (BuildInv): the tables index the infos by their outputs    *)
(* and sources, an object is in the unit it names and the objects of a     *)
(* unit name one (UnitsAgree), and a unit is in another one because a      *)
(* command says so (FromCommands).  As the commands were run in an order,  *)
(* climbing ends, at a unit that is built from the first (ClimbingEnds).   *)
(*                                                                         *)
(* Linking needs no invariant of its own: when a source is compiled once,  *)
(* its object is in its link unit (OnlyObject), so what is tested has no   *)
(* stub, and the suffix of a unit says which of its objects are stubs      *)
(* (SuffixTells), hence its name what is in it (Told).                     *)
(***************************************************************************)
EXTENDS ImportedProject, CommandsProofs

(* The configuration. *)

Working(d) == handler[d] \in {"check", "remove", "create", "run", "conclude"}

ConfigShapes ==
    /\ project \in [ide : Ides, commands : Commands, inside : BOOLEAN]
    /\ disk \in [dir : BOOLEAN, compile : Contents, link : Contents]
    /\ dialog \in [Dialogs -> [mode : Modes, shows : {"nothing", "progress", "dirMissing", "jsonMissing", "configured", "failed"}]]
    /\ handler \in [Dialogs -> {"none", "waiting", "check", "remove", "create", "run", "conclude", "done"}]
    /\ answers \in [Dialogs -> Seq(Statuses)]
    /\ current \in [Dialogs -> BOOLEAN]
    /\ DOMAIN todo = Dialogs
    /\ loading \in BOOLEAN

OneAtWork == \A d, e \in Dialogs : Working(d) /\ Working(e) => d = e

RightMode ==
    \A d \in Dialogs :
        /\ handler[d] = "check" => dialog[d].mode = "CHECK"
        /\ handler[d] = "remove" => dialog[d].mode = "ALL"
        /\ handler[d] = "create" => dialog[d].mode \in {"CREATE_BUILD_DIR", "ALL"}
        /\ handler[d] \in {"run", "conclude"} => dialog[d].mode \in {"GENERATE_JSON_FILES", "ALL"}

LeftToRun ==
    \A d \in Dialogs :
        /\ handler[d] \in {"check", "remove", "create", "run"} => todo[d] \in Commands
        /\ handler[d] = "conclude" => todo[d] \in {<<>>, <<"failed">>}
        /\ handler[d] = "conclude" /\ todo[d] = <<>> => Complete

HalfBuilt == disk.compile = "partial" \/ disk.link = "partial"
DiskIsConsistent ==
    /\ ~ disk.dir => disk.compile = "none" /\ disk.link = "none"
    /\ HalfBuilt => \E d \in Dialogs : handler[d] = "conclude" /\ todo[d] # <<>>

OneAnswer ==
    \A d \in Dialogs : dialog[d].mode # "ALL" =>
        Len(answers[d]) = IF handler[d] = "done" THEN 1 ELSE 0

LastSays(d) == handler[d] = "done" /\ answers[d] # <<>> /\ Last(answers[d]) = "IS_OK"

LastIsTrue ==
    \A d \in Dialogs :
        LastSays(d) /\ current[d] /\ dialog[d].mode # "CREATE_BUILD_DIR" => Complete

ShowsTheLast ==
    \A d \in Dialogs :
        dialog[d].shows = "configured" /\ (project.ide = "VS Code" => dialog[d].mode # "ALL")
            => LastSays(d) /\ dialog[d].mode # "CREATE_BUILD_DIR"

ConfigInv ==
    /\ ConfigShapes /\ OneAtWork /\ RightMode /\ LeftToRun /\ DiskIsConsistent /\ OneAnswer
    /\ LastIsTrue /\ ShowsTheLast
    /\ loading => Idle /\ Complete

Went(d) == d.dir /\ d.compile = "whole" /\ d.link = "whole"
Half(d) == d.compile = "partial" \/ d.link = "partial"
Disks == [dir : BOOLEAN, compile : Contents, link : Contents]

LEMMA LastOfAnswers ==
    ASSUME NEW q \in Seq(Statuses), NEW x \in Statuses
    PROVE  /\ q \o <<x>> \in Seq(Statuses)
           /\ Len(q \o <<x>>) = Len(q) + 1
           /\ q \o <<x>> # <<>>
           /\ Last(q \o <<x>>) = x
           /\ q \o <<>> = q
<1>1. <<x>> \in Seq(Statuses) /\ Len(<<x>>) = 1 /\ <<x>>[1] = x
  OBVIOUS
<1>2. /\ q \o <<x>> \in Seq(Statuses)
      /\ Len(q \o <<x>>) = Len(q) + 1
      /\ \A i \in 1 .. Len(q) + 1 : (q \o <<x>>)[i] = IF i <= Len(q) THEN q[i] ELSE <<x>>[i - Len(q)]
  BY <1>1, ConcatProperties
<1>3. Len(q) \in Nat
  BY LenProperties
<1>4. (q \o <<x>>)[Len(q) + 1] = x
  BY <1>1, <1>2, <1>3
<1> QED
  BY <1>2, <1>3, <1>4, EmptySeq, ConcatEmptySeq DEF Last

(* The guards of the handler: who is at work and what a step may do. *)
LEMMA StepInv ==
    ASSUME ConfigInv, ~ loading, UNCHANGED loading,
           NEW d \in Dialogs, NEW at \in {"check", "remove", "create", "run", "conclude"},
           NEW said, said = <<>> \/ \E x \in Statuses : said = <<x>>,
           NEW next \in {"create", "run", "conclude", "done"},
           NEW after \in Disks,
           Step(d, at, said, next, after),
           DOMAIN todo' = Dialogs, \A e \in Dialogs \ {d} : todo'[e] = todo[e],
           ~ after.dir => after.compile = "none" /\ after.link = "none",
           next = "create" => dialog[d].mode = "ALL",
           next \in {"run", "conclude"} => dialog[d].mode \in {"GENERATE_JSON_FILES", "ALL"},
           next \in {"create", "run"} => todo'[d] \in Commands,
           next = "conclude" => todo'[d] \in {<<>>, <<"failed">>},
           next = "conclude" /\ todo'[d] = <<>> => Went(after),
           Half(after) => next = "conclude" /\ todo'[d] # <<>>,
           next = "done" => said # <<>>,
           dialog[d].mode # "ALL" /\ next # "done" => said = <<>>,
           next = "done" /\ said = <<"IS_OK">> /\ dialog[d].mode # "CREATE_BUILD_DIR" => Went(after)
    PROVE  ConfigInv'
<1>0. /\ ConfigShapes /\ Working(d)
      /\ handler[d] = at /\ handler' = [handler EXCEPT ![d] = next]
      /\ answers' = [answers EXCEPT ![d] = @ \o said]
      /\ disk' = after /\ UNCHANGED <<project, dialog>>
      /\ current' = IF after # disk THEN [Outdated(Dialogs) EXCEPT ![d] = said # <<>>]
                    ELSE [current EXCEPT ![d] = @ \/ said # <<>>]
  BY DEF ConfigInv, Step, Working
<1>1. /\ handler'[d] = next /\ answers'[d] = answers[d] \o said
      /\ \A e \in Dialogs \ {d} : handler'[e] = handler[e] /\ answers'[e] = answers[e]
  BY <1>0 DEF ConfigShapes
<1>2. answers[d] \in Seq(Statuses) /\ answers'[d] \in Seq(Statuses)
  <2>1. answers[d] \in Seq(Statuses)
    BY <1>0 DEF ConfigShapes
  <2>2. CASE said = <<>>
    BY <2>1, <2>2, <1>1, ConcatEmptySeq
  <2>3. CASE \E x \in Statuses : said = <<x>>
    BY <2>1, <2>3, <1>1, LastOfAnswers
  <2> QED
    BY <2>1, <2>2, <2>3
<1>3. \A e \in Dialogs : current'[e] \in BOOLEAN
  BY <1>0 DEF ConfigShapes, Outdated
<1>4. ConfigShapes'
  <2>1. current' \in [Dialogs -> BOOLEAN]
    BY <1>0, <1>3 DEF ConfigShapes, Outdated
  <2>2. answers' \in [Dialogs -> Seq(Statuses)]
    BY <1>0, <1>2 DEF ConfigShapes
  <2>3. handler' \in [Dialogs -> {"none", "waiting", "check", "remove", "create", "run",
                                  "conclude", "done"}]
    BY <1>0 DEF ConfigShapes
  <2> QED
    BY <1>0, <2>1, <2>2, <2>3 DEF ConfigShapes, Disks
<1>5. \A e \in Dialogs \ {d} : ~ Working(e) /\ ~ Working(e)'
  BY <1>0, <1>1 DEF ConfigInv, OneAtWork, Working
<1>6. OneAtWork'
  BY <1>5 DEF OneAtWork
<1>7. RightMode'
  <2> SUFFICES ASSUME NEW e \in Dialogs
               PROVE  /\ handler'[e] = "check" => dialog[e].mode = "CHECK"
                      /\ handler'[e] = "remove" => dialog[e].mode = "ALL"
                      /\ handler'[e] = "create" => dialog[e].mode \in {"CREATE_BUILD_DIR", "ALL"}
                      /\ handler'[e] \in {"run", "conclude"} =>
                            dialog[e].mode \in {"GENERATE_JSON_FILES", "ALL"}
    BY <1>0 DEF RightMode
  <2> QED
    BY <1>1, <1>5 DEF Working
<1>8. LeftToRun'
  <2>1. Complete' <=> Went(after)
    BY <1>0 DEF Complete, Went
  <2> QED
    BY <2>1, <1>1, <1>5 DEF LeftToRun, Working
<1>9. DiskIsConsistent'
  BY <1>0, <1>1 DEF DiskIsConsistent, HalfBuilt, Half
<1>10. OneAnswer'
  <2>1. ASSUME dialog[d].mode # "ALL"
        PROVE  Len(answers'[d]) = IF next = "done" THEN 1 ELSE 0
    <3>1. Len(answers[d]) = 0
      BY <2>1, <1>0 DEF ConfigInv, OneAnswer
    <3>2. CASE said = <<>>
      BY <3>1, <3>2, <1>1, <1>2, <2>1, LastOfAnswers, ConcatEmptySeq
    <3>3. CASE said # <<>>
      BY <3>1, <3>3, <1>1, <1>2, <2>1, LastOfAnswers
    <3> QED
      BY <3>2, <3>3
  <2> QED
    BY <2>1, <1>0, <1>1 DEF ConfigInv, OneAnswer
<1>11. LastIsTrue'
  <2> SUFFICES ASSUME NEW e \in Dialogs, LastSays(e)', current'[e],
                      dialog[e].mode # "CREATE_BUILD_DIR"
               PROVE  Went(after)
    BY <1>0 DEF LastIsTrue, Complete, Went
  <2>1. CASE e = d
    <3>1. next = "done" /\ said # <<>>
      BY <2>1, <1>1 DEF LastSays
    <3>2. PICK x \in Statuses : said = <<x>>
      BY <3>1
    <3>3. x = "IS_OK"
      BY <2>1, <3>2, <1>1, <1>2, LastOfAnswers DEF LastSays
    <3> QED
      BY <2>1, <3>1, <3>2, <3>3
  <2>2. CASE e # d
    <3>1. after = disk /\ current[e]
      BY <2>2, <1>0 DEF ConfigShapes, Outdated
    <3>2. LastSays(e)
      BY <2>2, <1>1 DEF LastSays
    <3> QED
      BY <3>1, <3>2 DEF ConfigInv, LastIsTrue, Complete, Went
  <2> QED
    BY <2>1, <2>2
<1>12. ShowsTheLast'
  <2> SUFFICES ASSUME NEW e \in Dialogs, dialog[e].shows = "configured",
                      project.ide = "VS Code" => dialog[e].mode # "ALL"
               PROVE  LastSays(e)' /\ dialog[e].mode # "CREATE_BUILD_DIR"
    BY <1>0 DEF ShowsTheLast
  <2>1. LastSays(e) /\ dialog[e].mode # "CREATE_BUILD_DIR"
    BY DEF ConfigInv, ShowsTheLast
  <2>2. e # d
    BY <2>1, <1>0 DEF LastSays
  <2> QED
    BY <2>1, <2>2, <1>1 DEF LastSays
<1> QED
  BY <1>4, <1>6, <1>7, <1>8, <1>9, <1>10, <1>11, <1>12 DEF ConfigInv

(* A request is sent by a dialog that waits for none. *)
LEMMA SendInv ==
    ASSUME ConfigInv, ~ loading, UNCHANGED loading,
           NEW d \in Dialogs, NEW mode \in Modes, Free(d), Send(d, mode)
    PROVE  ConfigInv'
<1>0. /\ ConfigShapes
      /\ dialog' = [dialog EXCEPT ![d] = [mode |-> mode, shows |-> "progress"]]
      /\ handler' = [handler EXCEPT ![d] = "waiting"]
      /\ answers' = [answers EXCEPT ![d] = <<>>]
      /\ todo' = [todo EXCEPT ![d] = <<>>]
      /\ current' = [current EXCEPT ![d] = FALSE]
      /\ UNCHANGED <<project, disk>>
      /\ handler[d] \in {"none", "done"}
  BY DEF ConfigInv, Send, Free
<1>1. /\ handler'[d] = "waiting" /\ answers'[d] = <<>> /\ current'[d] = FALSE
      /\ dialog'[d].mode = mode /\ dialog'[d].shows = "progress"
      /\ \A e \in Dialogs \ {d} : /\ handler'[e] = handler[e] /\ answers'[e] = answers[e]
                                  /\ todo'[e] = todo[e] /\ current'[e] = current[e]
                                  /\ dialog'[e] = dialog[e]
  BY <1>0 DEF ConfigShapes
<1>2. ConfigShapes'
  <2>1. <<>> \in Seq(Statuses)
    OBVIOUS
  <2> QED
    BY <1>0, <2>1 DEF ConfigShapes
<1>3. OneAtWork' /\ RightMode' /\ LeftToRun' /\ DiskIsConsistent'
  BY <1>0, <1>1 DEF ConfigInv, OneAtWork, RightMode, LeftToRun, DiskIsConsistent, HalfBuilt,
                    Working, Complete
<1>4. OneAnswer'
  BY <1>1 DEF ConfigInv, OneAnswer
<1>5. LastIsTrue'
  <2> SUFFICES ASSUME NEW e \in Dialogs, LastSays(e)', current'[e],
                      dialog'[e].mode # "CREATE_BUILD_DIR"
               PROVE  Complete
    BY <1>0 DEF LastIsTrue, Complete
  <2>1. e # d
    BY <1>1 DEF LastSays
  <2> QED
    BY <2>1, <1>1 DEF ConfigInv, LastIsTrue, LastSays
<1>6. ShowsTheLast'
  <2> SUFFICES ASSUME NEW e \in Dialogs, dialog'[e].shows = "configured",
                      project.ide = "VS Code" => dialog'[e].mode # "ALL"
               PROVE  LastSays(e)' /\ dialog'[e].mode # "CREATE_BUILD_DIR"
    BY <1>0 DEF ShowsTheLast
  <2>1. e # d
    BY <1>1
  <2> QED
    BY <2>1, <1>1 DEF ConfigInv, ShowsTheLast, LastSays
<1> QED
  BY <1>2, <1>3, <1>4, <1>5, <1>6 DEF ConfigInv

(* What the user sees changes: "configured" only after a last answer IS_OK. *)
LEMMA ShowInv ==
    ASSUME ConfigInv, ~ loading, UNCHANGED loading, NEW d \in Dialogs,
           NEW what \in {"nothing", "progress", "dirMissing", "jsonMissing", "configured", "failed"},
           Show(d, what),
           what = "configured" /\ (project.ide = "VS Code" => dialog[d].mode # "ALL")
               => LastSays(d) /\ dialog[d].mode # "CREATE_BUILD_DIR"
    PROVE  ConfigInv'
<1>0. /\ ConfigShapes
      /\ dialog' = [dialog EXCEPT ![d].shows = what]
      /\ UNCHANGED <<project, disk, handler, todo, answers, current>>
  BY DEF ConfigInv, Show
<1>1. /\ dialog'[d].shows = what
      /\ \A e \in Dialogs : dialog'[e].mode = dialog[e].mode
      /\ \A e \in Dialogs \ {d} : dialog'[e] = dialog[e]
  BY <1>0 DEF ConfigShapes
<1>2. ConfigShapes'
  BY <1>0 DEF ConfigShapes
<1>3. OneAtWork' /\ RightMode' /\ LeftToRun' /\ DiskIsConsistent' /\ OneAnswer' /\ LastIsTrue'
  BY <1>0, <1>1 DEF ConfigInv, OneAtWork, RightMode, LeftToRun, DiskIsConsistent, HalfBuilt,
                    Working, Complete, OneAnswer, LastIsTrue, LastSays
<1>4. ShowsTheLast'
  BY <1>0, <1>1 DEF ConfigInv, ShowsTheLast, LastSays
<1> QED
  BY <1>2, <1>3, <1>4 DEF ConfigInv

(* VS Code looks at the first answer, which is the last one unless the mode *)
(* is ALL.                                                                  *)
LEMMA TakeAnswerInv ==
    ASSUME ConfigInv, ~ loading, UNCHANGED loading, NEW d \in Dialogs, TakeAnswer(d)
    PROVE  ConfigInv'
<1> DEFINE what == Seen(dialog[d].mode, Answer(d))
<1>1. /\ answers[d] # <<>> /\ (project.ide = "CLion" => handler[d] = "done")
      /\ ~ (dialog[d].mode = "CREATE_BUILD_DIR" /\ Answer(d) = "IS_OK")
      /\ Show(d, what)
  BY DEF TakeAnswer, Answered
<1>2. what \in {"dirMissing", "jsonMissing", "configured", "failed"}
  BY DEF Seen
<1>3. ASSUME what = "configured", project.ide = "VS Code" => dialog[d].mode # "ALL"
      PROVE  LastSays(d) /\ dialog[d].mode # "CREATE_BUILD_DIR"
  <2>1. Answer(d) = "IS_OK"
    BY <1>3 DEF Seen
  <2>2. CASE project.ide = "CLion"
    BY <2>1, <2>2, <1>1 DEF Answer, LastSays
  <2>3. CASE project.ide # "CLion"
    <3>1. project.ide = "VS Code"
      BY <2>3 DEF ConfigInv, ConfigShapes, Ides
    <3>2. answers[d] \in Seq(Statuses) /\ Len(answers[d]) # 0
      BY <1>1, EmptySeq DEF ConfigInv, ConfigShapes
    <3>3. handler[d] = "done" /\ Len(answers[d]) = 1
      BY <3>1, <3>2, <1>3 DEF ConfigInv, OneAnswer
    <3>4. Last(answers[d]) = Answer(d)
      <4>1. Head(answers[d]) = answers[d][1]
        BY <3>2, <1>1
      <4> QED
        BY <3>1, <3>3, <4>1 DEF Answer, Last
    <3> QED
      BY <2>1, <3>3, <3>4, <1>1 DEF LastSays
  <2> QED
    BY <2>1, <2>2, <2>3, <1>1
<1> QED
  BY <1>1, <1>2, <1>3, ShowInv

(* The user changes the directory while no request is at work. *)
LEMMA UserChangesInv ==
    ASSUME ConfigInv, ~ loading, UNCHANGED loading, UserChanges
    PROVE  ConfigInv'
<1>0. /\ ConfigShapes
      /\ UNCHANGED <<project, dialog, handler, todo, answers>>
      /\ current' = Outdated(Dialogs)
      /\ \A d \in Dialogs : ~ Working(d)
  BY DEF ConfigInv, UserChanges, Idle, Working
<1>1. ~ HalfBuilt
  BY <1>0 DEF ConfigInv, DiskIsConsistent, Working
<1>2. /\ disk' \in Disks /\ ~ Half(disk')
      /\ ~ disk'.dir => disk'.compile = "none" /\ disk'.link = "none"
  <2>1. disk \in Disks /\ ~ Half(disk)
    BY <1>0, <1>1 DEF ConfigShapes, Disks, HalfBuilt, Half
  <2>2. CASE disk' = [dir |-> FALSE, compile |-> "none", link |-> "none"]
    BY <2>2 DEF Disks, Contents, Half
  <2>4. CASE disk' = [dir |-> TRUE, compile |-> "whole", link |-> "whole"]
    BY <2>4 DEF Disks, Contents, Half
  <2>3. CASE disk.dir /\ disk' \in {[disk EXCEPT !.compile = "none"], [disk EXCEPT !.link = "none"]}
    BY <2>1, <2>3 DEF Disks, Contents, Half
  <2> QED
    BY <2>2, <2>3, <2>4 DEF UserChanges
<1>3. current' = [d \in Dialogs |-> FALSE]
  BY <1>0 DEF Outdated
<1>4. ConfigShapes'
  BY <1>0, <1>2, <1>3 DEF ConfigShapes, Disks
<1>5. OneAtWork' /\ RightMode' /\ LeftToRun' /\ OneAnswer' /\ ShowsTheLast'
  BY <1>0 DEF ConfigInv, OneAtWork, RightMode, LeftToRun, Working, OneAnswer, ShowsTheLast,
              LastSays
<1>6. DiskIsConsistent' /\ LastIsTrue'
  BY <1>2, <1>3 DEF DiskIsConsistent, HalfBuilt, Half, LastIsTrue
<1> QED
  BY <1>4, <1>5, <1>6 DEF ConfigInv

(* A request gets the lock of the client when nobody has it. *)
LEMMA BeginInv ==
    ASSUME ConfigInv, ~ loading, UNCHANGED loading, NEW d \in Dialogs, Begin(d)
    PROVE  ConfigInv'
<1>0. /\ ConfigShapes
      /\ handler[d] = "waiting"
      /\ handler' = [handler EXCEPT ![d] = FirstStep(dialog[d].mode)]
      /\ todo' = [todo EXCEPT ![d] = project.commands]
      /\ UNCHANGED <<project, disk, dialog, answers, current>>
      /\ \A e \in Dialogs : ~ Working(e)
  BY DEF ConfigInv, Begin, Idle, Working
<1>1. /\ FirstStep(dialog[d].mode) \in {"check", "remove", "create", "run"}
      /\ FirstStep(dialog[d].mode) = "check" => dialog[d].mode = "CHECK"
      /\ FirstStep(dialog[d].mode) = "remove" => dialog[d].mode = "ALL"
      /\ FirstStep(dialog[d].mode) = "create" => dialog[d].mode = "CREATE_BUILD_DIR"
      /\ FirstStep(dialog[d].mode) = "run" => dialog[d].mode = "GENERATE_JSON_FILES"
  BY <1>0 DEF FirstStep, ConfigShapes, Modes
<1>2. /\ handler'[d] = FirstStep(dialog[d].mode) /\ todo'[d] \in Commands
      /\ \A e \in Dialogs \ {d} : handler'[e] = handler[e] /\ todo'[e] = todo[e]
  BY <1>0 DEF ConfigShapes
<1>3. ConfigShapes'
  BY <1>0, <1>1 DEF ConfigShapes
<1>4. OneAtWork' /\ RightMode' /\ LeftToRun'
  BY <1>0, <1>1, <1>2 DEF OneAtWork, RightMode, LeftToRun, Working
<1>5. ~ HalfBuilt /\ DiskIsConsistent'
  BY <1>0, <1>2 DEF ConfigInv, DiskIsConsistent, HalfBuilt, Working
<1>6. OneAnswer' /\ LastIsTrue' /\ ShowsTheLast'
  BY <1>0, <1>1, <1>2 DEF ConfigInv, OneAnswer, LastIsTrue, ShowsTheLast, LastSays, Complete
<1> QED
  BY <1>3, <1>4, <1>5, <1>6 DEF ConfigInv

(* While a handler is at work, only its own failed build is half-built. *)
LEMMA WholeUntilConclusion ==
    ASSUME ConfigInv, NEW d \in Dialogs, Working(d),
           handler[d] # "conclude" \/ todo[d] = <<>>
    PROVE  ~ Half(disk)
  BY DEF ConfigInv, DiskIsConsistent, OneAtWork, HalfBuilt, Half, Working

LEMMA CheckInv ==
    ASSUME ConfigInv, ~ loading, UNCHANGED loading, NEW d \in Dialogs, CheckProjectConfiguration(d)
    PROVE  ConfigInv'
<1> DEFINE x == CASE ~ disk.dir -> "BUILD_DIR_NOT_FOUND"
                  [] disk.dir /\ disk.compile = "none" -> "COMPILE_COMMANDS_JSON_NOT_FOUND"
                  [] disk.dir /\ disk.compile # "none" /\ disk.link = "none" -> "LINK_COMMANDS_JSON_NOT_FOUND"
                  [] OTHER -> "IS_OK"
<1>1. /\ Step(d, "check", <<x>>, "done", disk) /\ UNCHANGED todo
      /\ handler[d] = "check"
  BY DEF CheckProjectConfiguration, Step
<1>2. /\ disk \in Disks /\ ConfigShapes /\ ~ Half(disk)
      /\ ~ disk.dir => disk.compile = "none" /\ disk.link = "none"
  BY <1>1, WholeUntilConclusion DEF ConfigInv, ConfigShapes, Disks, DiskIsConsistent, Working
<1>3. x \in Statuses /\ (x = "IS_OK" => Went(disk))
  BY <1>2 DEF Statuses, Disks, Contents, Half, Went
<1>4. <<x>> # <<>> /\ (<<x>> = <<"IS_OK">> => x = "IS_OK")
  OBVIOUS
<1> HIDE DEF x
<1> QED
  BY <1>1, <1>2, <1>3, <1>4, StepInv DEF ConfigShapes

LEMMA CreateInv ==
    ASSUME ConfigInv, ~ loading, UNCHANGED loading, NEW d \in Dialogs, createBuildDirectory(d)
    PROVE  ConfigInv'
<1>1. handler[d] = "create" /\ UNCHANGED todo
  BY DEF createBuildDirectory, Step
<1>2. /\ disk \in Disks /\ ConfigShapes /\ ~ Half(disk)
      /\ ~ disk.dir => disk.compile = "none" /\ disk.link = "none"
      /\ dialog[d].mode \in {"CREATE_BUILD_DIR", "ALL"} /\ todo[d] \in Commands
  BY <1>1, WholeUntilConclusion
     DEF ConfigInv, ConfigShapes, Disks, DiskIsConsistent, Working, RightMode, LeftToRun
<1>3. CASE Step(d, "create", <<"IS_OK">>, IF dialog[d].mode = "ALL" THEN "run" ELSE "done",
                [disk EXCEPT !.dir = TRUE])
  <2> DEFINE after == [disk EXCEPT !.dir = TRUE]
  <2>1. after \in Disks /\ ~ Half(after) /\ after.dir
    BY <1>2 DEF Disks, Half
  <2>2. "IS_OK" \in Statuses /\ <<"IS_OK">> # <<>>
    BY DEF Statuses
  <2> HIDE DEF after
  <2>3. CASE dialog[d].mode = "ALL"
    <3>1. Step(d, "create", <<"IS_OK">>, "run", after)
      BY <1>3, <2>3 DEF after
    <3> QED
      BY <1>1, <1>2, <2>1, <2>2, <2>3, <3>1, StepInv DEF ConfigShapes
  <2>4. CASE dialog[d].mode = "CREATE_BUILD_DIR"
    <3>1. Step(d, "create", <<"IS_OK">>, "done", after)
      BY <1>3, <2>4 DEF after
    <3> QED
      BY <1>1, <1>2, <2>1, <2>2, <2>4, <3>1, StepInv DEF ConfigShapes
  <2> QED
    BY <1>2, <2>3, <2>4
<1>4. CASE Step(d, "create", <<"BUILD_DIR_CREATION_FAILED">>, "done", disk)
  <2>1. /\ "BUILD_DIR_CREATION_FAILED" \in Statuses
        /\ <<"BUILD_DIR_CREATION_FAILED">> # <<>>
        /\ <<"BUILD_DIR_CREATION_FAILED">> # <<"IS_OK">>
    BY DEF Statuses
  <2> QED
    BY <1>1, <1>2, <1>4, <2>1, StepInv DEF ConfigShapes
<1> QED
  BY <1>3, <1>4 DEF createBuildDirectory

LEMMA RemoveInv ==
    ASSUME ConfigInv, ~ loading, UNCHANGED loading, NEW d \in Dialogs, RemoveBuildDir(d)
    PROVE  ConfigInv'
<1>1. handler[d] = "remove" /\ UNCHANGED todo
  BY DEF RemoveBuildDir, Step
<1>2. /\ disk \in Disks /\ ConfigShapes /\ ~ Half(disk)
      /\ ~ disk.dir => disk.compile = "none" /\ disk.link = "none"
      /\ dialog[d].mode = "ALL" /\ todo[d] \in Commands
  BY <1>1, WholeUntilConclusion
     DEF ConfigInv, ConfigShapes, Disks, DiskIsConsistent, Working, RightMode, LeftToRun
<1>3. /\ {"BUILD_DIR_CREATION_FAILED", "BUILD_DIR_SAME_AS_PROJECT"} \subseteq Statuses
      /\ <<"BUILD_DIR_CREATION_FAILED">> \notin {<<>>, <<"IS_OK">>}
      /\ <<"BUILD_DIR_SAME_AS_PROJECT">> \notin {<<>>, <<"IS_OK">>}
  BY DEF Statuses
<1>4. CASE Step(d, "remove", <<>>, "create", [dir |-> FALSE, compile |-> "none", link |-> "none"])
  <2> DEFINE after == [dir |-> FALSE, compile |-> "none", link |-> "none"]
  <2>1. after \in Disks /\ ~ Half(after) /\ after.compile = "none" /\ after.link = "none"
    BY DEF Disks, Half, Contents
  <2>2. Step(d, "remove", <<>>, "create", after)
    BY <1>4
  <2> HIDE DEF after
  <2> QED
    BY <1>1, <1>2, <2>1, <2>2, StepInv DEF ConfigShapes
<1>5. ASSUME NEW after \in {disk, [disk EXCEPT !.compile = "none"], [disk EXCEPT !.link = "none"]},
             disk.dir, Step(d, "remove", <<"BUILD_DIR_CREATION_FAILED">>, "done", after)
      PROVE  ConfigInv'
  <2>1. after \in Disks /\ ~ Half(after) /\ after.dir
    BY <1>2, <1>5 DEF Disks, Half, Contents
  <2> QED
    BY <1>1, <1>2, <1>3, <1>5, <2>1, StepInv DEF ConfigShapes
<1>6. CASE Step(d, "remove", <<"BUILD_DIR_SAME_AS_PROJECT">>, "create", disk)
  BY <1>1, <1>2, <1>3, <1>6, StepInv DEF ConfigShapes
<1> QED
  BY <1>4, <1>5, <1>6 DEF RemoveBuildDir

(* The last command of every kind of project is one that runs under bear. *)
LEMMA RunInv ==
    ASSUME ConfigInv, ~ loading, UNCHANGED loading, NEW d \in Dialogs,
           RunProjectConfigurationCommand(d)
    PROVE  ConfigInv'
<1> DEFINE bear == Head(todo[d]) # "cmake"
           Written(content) == [disk EXCEPT !.compile = content, !.link = content]
<1>1. /\ handler[d] = "run"
      /\ \/ /\ disk.dir
            /\ Step(d, "run", <<>>, IF Len(todo[d]) = 1 THEN "conclude" ELSE "run",
                    IF bear THEN Written("whole") ELSE disk)
            /\ todo' = [todo EXCEPT ![d] = Tail(@)]
         \/ /\ \E after \in {disk} \cup (IF bear /\ disk.dir THEN {Written("partial")} ELSE {}) :
                  Step(d, "run", <<>>, "conclude", after)
            /\ todo' = [todo EXCEPT ![d] = <<"failed">>]
  BY DEF RunProjectConfigurationCommand, Step
<1>2. /\ disk \in Disks /\ ConfigShapes /\ ~ Half(disk)
      /\ ~ disk.dir => disk.compile = "none" /\ disk.link = "none"
      /\ dialog[d].mode \in {"GENERATE_JSON_FILES", "ALL"} /\ todo[d] \in Commands
  BY <1>1, WholeUntilConclusion
     DEF ConfigInv, ConfigShapes, Disks, DiskIsConsistent, Working, RightMode, LeftToRun
<1>3. /\ Written("whole") \in Disks /\ Written("partial") \in Disks
      /\ ~ Half(Written("whole"))
      /\ disk.dir => Went(Written("whole")) /\ Written("partial").dir
  BY <1>2 DEF Disks, Contents, Half, Went
<1> HIDE DEF Written
<1>4. CASE /\ disk.dir
           /\ Step(d, "run", <<>>, IF Len(todo[d]) = 1 THEN "conclude" ELSE "run",
                   IF bear THEN Written("whole") ELSE disk)
           /\ todo' = [todo EXCEPT ![d] = Tail(@)]
  <2>1. /\ DOMAIN todo' = Dialogs /\ \A e \in Dialogs \ {d} : todo'[e] = todo[e]
        /\ todo'[d] = Tail(todo[d])
    BY <1>2, <1>4 DEF ConfigShapes
  <2>2. CASE todo[d] = <<"cmake", "make">>
    <3>1. todo'[d] = <<"make">> /\ ~ bear /\ Len(todo[d]) # 1
      BY <2>1, <2>2
    <3>2. Step(d, "run", <<>>, "run", disk)
      BY <1>4, <3>1
    <3>3. todo'[d] \in Commands
      BY <3>1 DEF Commands
    <3> QED
      BY <1>2, <2>1, <3>2, <3>3, StepInv
  <2>3. CASE todo[d] \in {<<"script">>, <<"make">>}
    <3>1. todo'[d] = <<>> /\ bear /\ Len(todo[d]) = 1
      <4>1. CASE todo[d] = <<"script">>
        BY <4>1, <2>1
      <4>2. CASE todo[d] = <<"make">>
        BY <4>2, <2>1
      <4> QED
        BY <2>3, <4>1, <4>2
    <3>2. PICK after : after = Written("whole")
      OBVIOUS
    <3>3. /\ Step(d, "run", <<>>, "conclude", after) /\ after \in Disks /\ Went(after)
          /\ ~ Half(after) /\ after.dir
      BY <1>3, <1>4, <3>1, <3>2 DEF Went
    <3> HIDE DEF bear
    <3> QED
      BY <1>2, <2>1, <3>1, <3>3, StepInv
  <2> QED
    BY <1>2, <2>2, <2>3 DEF Commands
<1>5. CASE /\ \E after \in {disk} \cup (IF bear /\ disk.dir THEN {Written("partial")} ELSE {}) :
                 Step(d, "run", <<>>, "conclude", after)
           /\ todo' = [todo EXCEPT ![d] = <<"failed">>]
  <2>1. /\ DOMAIN todo' = Dialogs /\ \A e \in Dialogs \ {d} : todo'[e] = todo[e]
        /\ todo'[d] = <<"failed">> /\ <<"failed">> # <<>>
    BY <1>2, <1>5 DEF ConfigShapes
  <2>2. PICK after \in Disks : /\ Step(d, "run", <<>>, "conclude", after)
                               /\ ~ after.dir => after.compile = "none" /\ after.link = "none"
    BY <1>2, <1>3, <1>5
  <2> QED
    BY <1>2, <2>1, <2>2, StepInv
<1> QED
  BY <1>1, <1>4, <1>5 DEF Written

LEMMA ConcludeInv ==
    ASSUME ConfigInv, ~ loading, UNCHANGED loading, NEW d \in Dialogs,
           RunProjectConfigurationCommands(d)
    PROVE  ConfigInv'
<1> DEFINE end == Conclusion(todo[d] # <<>>)
<1>1. /\ handler[d] = "conclude"
      /\ Step(d, "conclude", <<end.said>>, "done", end.disk)
      /\ todo' = [todo EXCEPT ![d] = <<>>]
  BY DEF RunProjectConfigurationCommands, Step
<1>2. /\ disk \in Disks /\ ConfigShapes
      /\ ~ disk.dir => disk.compile = "none" /\ disk.link = "none"
      /\ todo[d] = <<>> => Went(disk) /\ ~ Half(disk)
  BY <1>1, WholeUntilConclusion
     DEF ConfigInv, ConfigShapes, Disks, DiskIsConsistent, Working, LeftToRun, Complete, Went
<1>3. DOMAIN todo' = Dialogs /\ \A e \in Dialogs \ {d} : todo'[e] = todo[e]
  BY <1>1, <1>2 DEF ConfigShapes
<1>4. /\ end.disk \in Disks /\ ~ Half(end.disk) /\ end.said \in Statuses
      /\ ~ end.disk.dir => end.disk.compile = "none" /\ end.disk.link = "none"
      /\ end.said = "IS_OK" => Went(end.disk)
  <2>1. CASE todo[d] = <<>>
    <3>1. end.disk = disk /\ end.said = "IS_OK"
      BY <2>1 DEF Conclusion
    <3> QED
      BY <1>2, <2>1, <3>1 DEF Statuses
  <2>2. CASE todo[d] # <<>>
    <3>1. end.disk = [disk EXCEPT !.compile = "none", !.link = "none"]
          /\ end.said = "RUN_JSON_GENERATION_FAILED"
      BY <2>2 DEF Conclusion
    <3>2. end.disk \in Disks /\ end.disk.compile = "none" /\ end.disk.link = "none"
      BY <1>2, <3>1 DEF Disks, Contents
    <3> QED
      BY <3>1, <3>2 DEF Half, Statuses
  <2> QED
    BY <2>1, <2>2
<1>5. <<end.said>> # <<>> /\ (<<end.said>> = <<"IS_OK">> => end.said = "IS_OK")
  OBVIOUS
<1> HIDE DEF end
<1>6. PICK x, after : x = end.said /\ after = end.disk
  OBVIOUS
<1> QED
  BY <1>1, <1>2, <1>3, <1>4, <1>5, <1>6, StepInv

LEMMA InitConfig == ImportInit => ConfigInv
<1> SUFFICES ASSUME ImportInit PROVE ConfigInv
  OBVIOUS
<1> USE DEF ImportInit, ConfigInit
<1>1. \A d \in Dialogs : /\ dialog[d].shows = "nothing" /\ dialog[d].mode = "CHECK"
                         /\ handler[d] = "none" /\ answers[d] = <<>>
  OBVIOUS
<1>2. ConfigShapes
  <2>1. <<>> \in Seq(Statuses)
    OBVIOUS
  <2> QED
    BY <2>1 DEF ConfigShapes, Contents, Modes
<1>3. OneAtWork /\ RightMode /\ LeftToRun /\ DiskIsConsistent /\ OneAnswer
  BY <1>1 DEF OneAtWork, Working, RightMode, LeftToRun, DiskIsConsistent, HalfBuilt, OneAnswer
<1>4. LastIsTrue /\ ShowsTheLast
  BY <1>1 DEF LastIsTrue, ShowsTheLast, LastSays
<1> QED
  BY <1>2, <1>3, <1>4 DEF ConfigInv

LEMMA ConfigStep == ConfigInv /\ [ImportNext]_importVars => ConfigInv'
<1> SUFFICES ASSUME ConfigInv, [ImportNext]_importVars PROVE ConfigInv'
  OBVIOUS
<1>1. CASE ~ loading /\ ConfigNext /\ UNCHANGED loading
  <2>1. ASSUME NEW d \in Dialogs, NEW mode \in {"CHECK", "ALL"}, configure(d, mode)
        PROVE  ConfigInv'
    BY <1>1, <2>1, SendInv DEF configure, Modes
  <2>2. ASSUME NEW d \in Dialogs,
               \/ handleBuildDirCreationRequest(d)
               \/ handleBuildDirNotFound(d)
               \/ handleJsonFilesNotFound(d)
        PROVE  ConfigInv'
    BY <1>1, <2>2, SendInv
       DEF handleBuildDirCreationRequest, handleBuildDirNotFound, handleJsonFilesNotFound, Modes
  <2>3. ASSUME NEW d \in Dialogs, Decline(d)
        PROVE  ConfigInv'
    <3>1. Show(d, "failed")
      BY <2>3 DEF Decline
    <3> QED
      BY <1>1, <3>1, ShowInv
  <2>4. ASSUME NEW d \in Dialogs,
               \/ TakeAnswer(d) \/ Begin(d)
               \/ CheckProjectConfiguration(d) \/ createBuildDirectory(d) \/ RemoveBuildDir(d)
               \/ RunProjectConfigurationCommand(d) \/ RunProjectConfigurationCommands(d)
        PROVE  ConfigInv'
    BY <1>1, <2>4, TakeAnswerInv, BeginInv, CheckInv, CreateInv, RemoveInv, RunInv, ConcludeInv
  <2>5. CASE UserChanges
    BY <1>1, <2>5, UserChangesInv
  <2> QED
    BY <1>1, <2>1, <2>2, <2>3, <2>4, <2>5 DEF ConfigNext
<1>2. ASSUME UNCHANGED configVars,
             loading' = loading \/ (Idle /\ disk.compile # "none" /\ disk.link # "none"),
             loading' \in BOOLEAN
      PROVE  ConfigInv'
  <2>1. UNCHANGED <<project, disk, dialog, handler, todo, answers, current>>
    BY <1>2 DEF configVars
  <2>2. ASSUME Idle, disk.compile # "none", disk.link # "none"
        PROVE  Complete
    <3>1. ~ HalfBuilt
      BY <2>2 DEF ConfigInv, DiskIsConsistent, Idle
    <3> QED
      BY <2>2, <3>1 DEF ConfigInv, DiskIsConsistent, ConfigShapes, HalfBuilt, Complete, Contents
  <2>3. loading' => (Idle /\ Complete)'
    BY <1>2, <2>1, <2>2 DEF ConfigInv, Idle, Complete
  <2>4. ConfigShapes' /\ OneAtWork' /\ RightMode' /\ LeftToRun' /\ DiskIsConsistent'
    BY <1>2, <2>1 DEF ConfigInv, ConfigShapes, OneAtWork, RightMode, LeftToRun,
                      DiskIsConsistent, HalfBuilt, Working, Complete
  <2>5. OneAnswer' /\ LastIsTrue' /\ ShowsTheLast'
    BY <2>1 DEF ConfigInv, OneAnswer, LastIsTrue, ShowsTheLast, LastSays, Complete
  <2> QED
    BY <2>3, <2>4, <2>5 DEF ConfigInv
<1>3. loading \in BOOLEAN
  BY DEF ConfigInv, ConfigShapes
<1>4. CASE UNCHANGED configVars /\ UNCHANGED loading
  BY <1>2, <1>3, <1>4
<1>5. CASE OpenJsonFiles
  BY <1>2, <1>3, <1>5 DEF OpenJsonFiles
<1> QED
  BY <1>1, <1>4, <1>5 DEF ImportNext, importVars
-----------------------------------------------------------------------------
(* The database. *)

(* The indexes of an info, by its output and by its source. *)
IndexesAgree ==
    /\ \A f \in DOMAIN objectFileInfos : infos[objectFileInfos[f]].output = f
    /\ \A i \in DOMAIN infos :
          /\ infos[i].output \in DOMAIN objectFileInfos
          /\ infos[i].output \notin Objects => objectFileInfos[infos[i].output] = i
    /\ \A s \in Sources : sourceFileInfos[s] = {i \in DOMAIN infos : infos[i].source = s}

(* An object is of the unit it names, and what a unit is made of names one. *)
UnitsAgree ==
    /\ \A i \in DOMAIN infos : infos[i].linkUnit # NoFile =>
          /\ infos[i].linkUnit \in DOMAIN targetInfos
          /\ infos[i].output \in targetInfos[infos[i].linkUnit].files \cap Objects
    /\ \A t \in DOMAIN targetInfos : \A o \in targetInfos[t].files \cap Objects :
          /\ o \in DOMAIN objectFileInfos
          /\ infos[objectFileInfos[o]].linkUnit # NoFile

(* Units are in units because a command says so. *)
FromCommands ==
    \A t \in DOMAIN targetInfos : \A l \in (targetInfos[t].files \cup targetInfos[t].named) \cap Targets :
        \E c \in LinkCommands : c[1] = t /\ l \in c[2] \cup c[3]

FirstIsOfSource ==
    phase # "compile" => \A s \in Sources : IF sourceFileInfos[s] = {} THEN first[s] = 0
                                            ELSE first[s] \in sourceFileInfos[s]

ParentsAgree ==
    \A l \in DOMAIN targetInfos : targetInfos[l].parent # NoFile =>
        /\ phase \in {"complete", "partial"}
        /\ l \in Libraries
        /\ targetInfos[l].parent \in Parents(l)

AllLinked == phase # "partial" => \A t \in DOMAIN targetInfos : targetInfos[t].linked

AnswerIsKept ==
    /\ asked # NoFile => phase \in {"complete", "partial"}
    /\ asked = NoFile => target = NoFile
    /\ asked \in Sources /\ target # NoFile =>
          /\ target = getRootForSource(asked)
          /\ first[asked] # 0 /\ infos[first[asked]].linkUnit # NoFile
          /\ kept[asked] = 0 => asked \notin SourcesOf(target)

BuildInv ==
    /\ BuildTypeOK /\ IndexesAgree /\ UnitsAgree /\ FromCommands
    /\ FirstIsOfSource /\ ParentsAgree /\ AllLinked /\ AnswerIsKept

LEMMA InitBuildInv == BuildInit => BuildInv
<1> SUFFICES ASSUME BuildInit PROVE BuildInv
  OBVIOUS
<1> USE DEF BuildInit
<1>1. DOMAIN infos = {} /\ DOMAIN objectFileInfos = {} /\ DOMAIN targetInfos = {}
  OBVIOUS
<1>2. BuildTypeOK
  <2>1. infos \in Seq(ObjectInfo)
    OBVIOUS
  <2>2. length \in 0 .. (MaxCompile + MaxLink)
    BY BuildAssumption
  <2> QED
    BY <1>1, <2>1, <2>2 DEF BuildTypeOK
<1>3. IndexesAgree /\ UnitsAgree /\ FromCommands /\ FirstIsOfSource /\ ParentsAgree /\ AllLinked
  BY <1>1 DEF IndexesAgree, UnitsAgree, FromCommands, FirstIsOfSource, ParentsAgree, AllLinked
<1>4. AnswerIsKept
  BY DEF AnswerIsKept
<1> QED
  BY <1>2, <1>3, <1>4 DEF BuildInv

LEMMA Appended ==
    ASSUME NEW S, NEW q \in Seq(S), NEW x \in S
    PROVE  /\ Append(q, x) \in Seq(S)
           /\ Len(q) + 1 \notin DOMAIN q
           /\ DOMAIN Append(q, x) = DOMAIN q \cup {Len(q) + 1}
           /\ Append(q, x)[Len(q) + 1] = x
           /\ \A i \in DOMAIN q : Append(q, x)[i] = q[i]
<1>1. Len(q) \in Nat /\ DOMAIN q = 1 .. Len(q)
  BY LenProperties
<1>2. /\ Append(q, x) \in Seq(S)
      /\ Len(Append(q, x)) = Len(q) + 1
      /\ \A i \in 1 .. Len(q) : Append(q, x)[i] = q[i]
      /\ Append(q, x)[Len(q) + 1] = x
  BY AppendProperties
<1>3. DOMAIN Append(q, x) = 1 .. Len(q) + 1
  BY <1>2, LenProperties
<1> QED
  BY <1>1, <1>2, <1>3

LEMMA Mapped ==
    ASSUME NEW S, NEW q \in Seq(S), NEW f, DOMAIN f = DOMAIN q,
           f = [i \in DOMAIN q |-> f[i]], \A i \in DOMAIN q : f[i] \in S
    PROVE  f \in Seq(S) /\ Len(f) = Len(q)
<1>1. Len(q) \in Nat /\ DOMAIN q = 1 .. Len(q)
  BY LenProperties
<1>2. f \in [1 .. Len(q) -> S]
  BY <1>1
<1>3. f \in Seq(S)
  BY <1>1, <1>2, SeqDef
<1> QED
  BY <1>1, <1>3, LenProperties

(* No request has been answered while the files are being read. *)
LEMMA NotAsked ==
    ASSUME BuildInv, phase \notin {"complete", "partial"}, UNCHANGED <<asked, target>>
    PROVE  AnswerIsKept'
  BY BuildAssumption DEF BuildInv, AnswerIsKept

LEMMA IgnoreInv ==
    ASSUME BuildInv, NEW out \in Outputs,
           Ignore(out) \/ SkipDuplicate(out)
    PROVE  BuildInv'
<1>0. /\ phase = "compile" /\ length < MaxCompile /\ length' = length + 1
      /\ ignoredOutput' \subseteq Outputs
      /\ UNCHANGED <<phase, infos, objectFileInfos, sourceFileInfos, first, targetInfos, asked, target, kept>>
  BY DEF Ignore, SkipDuplicate, ReadCompile, BuildInv, BuildTypeOK
<1>1. length' \in 0 .. (MaxCompile + MaxLink)
  BY <1>0, BuildAssumption DEF BuildInv, BuildTypeOK
<1>2. BuildTypeOK'
  BY <1>0, <1>1 DEF BuildInv, BuildTypeOK
<1>3. IndexesAgree' /\ UnitsAgree' /\ FromCommands' /\ FirstIsOfSource' /\ ParentsAgree' /\ AllLinked'
  BY <1>0 DEF BuildInv, IndexesAgree, UnitsAgree, FromCommands, FirstIsOfSource, ParentsAgree,
              AllLinked, Parents
<1>4. AnswerIsKept'
  BY <1>0, NotAsked
<1> QED
  BY <1>2, <1>3, <1>4 DEF BuildInv

LEMMA CompileObjectInv ==
    ASSUME BuildInv, NEW s \in Sources, NEW out \in Outputs, CompileObject(s, out)
    PROVE  BuildInv'
<1> DEFINE new == [source |-> s, output |-> out, linkUnit |-> NoFile]
           n == Len(infos) + 1
<1>0. /\ phase = "compile" /\ length < MaxCompile /\ length' = length + 1
      /\ out \notin DOMAIN objectFileInfos \cup DOMAIN targetInfos
      /\ infos' = Append(infos, new)
      /\ objectFileInfos' = Put(objectFileInfos, out, n)
      /\ sourceFileInfos' = [sourceFileInfos EXCEPT ![s] = @ \cup {n}]
      /\ UNCHANGED <<phase, first, ignoredOutput, targetInfos, asked, target, kept>>
  BY DEF CompileObject, ReadCompile, NextInfo
<1>1. length' \in 0 .. (MaxCompile + MaxLink)
  BY <1>0, BuildAssumption DEF BuildInv, BuildTypeOK
<1>2. infos \in Seq(ObjectInfo) /\ new \in ObjectInfo
  BY DEF BuildInv, BuildTypeOK, ObjectInfo
<1>3. /\ infos' \in Seq(ObjectInfo) /\ n \notin DOMAIN infos
      /\ DOMAIN infos' = DOMAIN infos \cup {n} /\ infos'[n] = new
      /\ \A i \in DOMAIN infos : infos'[i] = infos[i]
  <2> HIDE DEF new
  <2> QED
    BY <1>0, <1>2, Appended
<1>4. /\ DOMAIN objectFileInfos' = DOMAIN objectFileInfos \cup {out}
      /\ objectFileInfos'[out] = n
      /\ \A f \in DOMAIN objectFileInfos : objectFileInfos'[f] = objectFileInfos[f]
  BY <1>0 DEF Put
<1> HIDE DEF n
<1>5. /\ sourceFileInfos' \in [Sources -> SUBSET DOMAIN infos']
      /\ sourceFileInfos'[s] = sourceFileInfos[s] \cup {n}
      /\ \A r \in Sources \ {s} : sourceFileInfos'[r] = sourceFileInfos[r]
  BY <1>0, <1>3 DEF BuildInv, BuildTypeOK
<1>6. BuildTypeOK'
  <2>1. infos' \in Seq(ObjectInfo) /\ length' \in 0 .. (MaxCompile + MaxLink)
    BY <1>1, <1>3
  <2>2. DOMAIN objectFileInfos' \subseteq Outputs
    BY <1>4 DEF BuildInv, BuildTypeOK
  <2>3. \A f \in DOMAIN objectFileInfos' : objectFileInfos'[f] \in DOMAIN infos'
    BY <1>3, <1>4 DEF BuildInv, BuildTypeOK
  <2>4. first' \in [Sources -> {0} \cup DOMAIN infos'] /\ kept' \in [Sources -> {0} \cup DOMAIN infos']
    BY <1>0, <1>3 DEF BuildInv, BuildTypeOK
  <2> QED
    BY <1>0, <1>5, <2>1, <2>2, <2>3, <2>4 DEF BuildInv, BuildTypeOK
<1>7. IndexesAgree'
  <2>1. \A f \in DOMAIN objectFileInfos' : infos'[objectFileInfos'[f]].output = f
    BY <1>3, <1>4 DEF BuildInv, IndexesAgree, BuildTypeOK
  <2>2. \A i \in DOMAIN infos' :
          /\ infos'[i].output \in DOMAIN objectFileInfos'
          /\ infos'[i].output \notin Objects => objectFileInfos'[infos'[i].output] = i
    BY <1>0, <1>3, <1>4 DEF BuildInv, IndexesAgree
  <2>3. \A r \in Sources : sourceFileInfos'[r] = {i \in DOMAIN infos' : infos'[i].source = r}
    <3>1. infos'[n].source = s
      BY <1>3
    <3> QED
      BY <1>3, <1>5, <3>1 DEF BuildInv, IndexesAgree
  <2> QED
    BY <2>1, <2>2, <2>3 DEF IndexesAgree
<1>8. UnitsAgree'
  <2>1. \A i \in DOMAIN infos' : infos'[i].linkUnit # NoFile =>
          /\ infos'[i].linkUnit \in DOMAIN targetInfos
          /\ infos'[i].output \in targetInfos[infos'[i].linkUnit].files \cap Objects
    BY <1>3 DEF BuildInv, UnitsAgree
  <2>2. \A t \in DOMAIN targetInfos : \A o \in targetInfos[t].files \cap Objects :
          /\ o \in DOMAIN objectFileInfos'
          /\ infos'[objectFileInfos'[o]].linkUnit # NoFile
    BY <1>3, <1>4 DEF BuildInv, UnitsAgree, BuildTypeOK
  <2> QED
    BY <1>0, <2>1, <2>2 DEF UnitsAgree
<1>9. FromCommands' /\ FirstIsOfSource' /\ ParentsAgree' /\ AllLinked'
  BY <1>0 DEF BuildInv, FromCommands, FirstIsOfSource, ParentsAgree, AllLinked, Parents
<1>10. AnswerIsKept'
  BY <1>0, NotAsked
<1> QED
  BY <1>6, <1>7, <1>8, <1>9, <1>10 DEF BuildInv

LEMMA CompileIntoTargetInv ==
    ASSUME BuildInv, NEW s \in Sources, NEW out \in Outputs, CompileIntoTarget(s, out)
    PROVE  BuildInv'
<1> DEFINE moved == {objectFileInfos[f] : f \in {out} \cap DOMAIN objectFileInfos}
           this == [source |-> s, output |-> Temporary[s], linkUnit |-> out]
           Changed(i) == [source |-> infos[i].source, output |-> Temporary[infos[i].source], linkUnit |-> out]
           redirected == [i \in DOMAIN infos |-> IF i \in moved THEN Changed(i) ELSE infos[i]]
           objects == {Temporary[infos[i].source] : i \in moved} \cup {Temporary[s]}
           n == Len(infos) + 1
<1>0. /\ phase = "compile" /\ length < MaxCompile /\ length' = length + 1
      /\ out \in (DOMAIN objectFileInfos \cup DOMAIN targetInfos) \ Objects
      /\ infos' = Append(redirected, this)
      /\ objectFileInfos' =
            [f \in (DOMAIN objectFileInfos \ {out}) \cup objects |->
               IF f = Temporary[s] THEN n
               ELSE IF f \in objects THEN CHOOSE i \in moved : TRUE
               ELSE Without(objectFileInfos, out)[f]]
      /\ targetInfos' = Put(targetInfos, out,
            [InfoOf(out) EXCEPT !.files = @ \cup objects, !.linked = TRUE])
      /\ sourceFileInfos' = [sourceFileInfos EXCEPT ![s] = @ \cup {n}]
      /\ UNCHANGED <<phase, first, ignoredOutput, asked, target, kept>>
  BY DEF CompileIntoTarget, ReadCompile, NextInfo, Redirected, Without
<1>1. length' \in 0 .. (MaxCompile + MaxLink)
  BY <1>0, BuildAssumption DEF BuildInv, BuildTypeOK
<1>2. /\ infos \in Seq(ObjectInfo) /\ Temporary \in [Sources -> Objects]
      /\ out \in Targets /\ NoFile \notin Outputs /\ Objects \cap Targets = {}
      /\ \A i \in DOMAIN infos : infos[i] \in ObjectInfo
  <2>1. infos \in Seq(ObjectInfo)
    BY DEF BuildInv, BuildTypeOK
  <2> QED
    BY <1>0, <2>1, BuildAssumption, ElementOfSeq, LenProperties DEF Outputs
<1>3. /\ moved \subseteq DOMAIN infos
      /\ \A i \in DOMAIN infos : i \in moved <=> infos[i].output = out
      /\ \A i, j \in moved : i = j
  BY <1>0 DEF BuildInv, BuildTypeOK, IndexesAgree
<1>4. this \in ObjectInfo /\ \A i \in moved : Changed(i) \in ObjectInfo
  BY <1>2, <1>3 DEF ObjectInfo, Outputs
<1>5. redirected \in Seq(ObjectInfo) /\ Len(redirected) = Len(infos)
  <2>1. \A i \in DOMAIN infos : redirected[i] \in ObjectInfo
    BY <1>2, <1>4
  <2>2. DOMAIN redirected = DOMAIN infos /\ redirected = [i \in DOMAIN infos |-> redirected[i]]
    OBVIOUS
  <2> HIDE DEF redirected
  <2> QED
    BY <1>2, <2>1, <2>2, Mapped
<1>6. /\ infos' \in Seq(ObjectInfo) /\ n \notin DOMAIN infos
      /\ DOMAIN infos' = DOMAIN infos \cup {n} /\ infos'[n] = this
      /\ \A i \in moved : infos'[i] = Changed(i)
      /\ \A i \in DOMAIN infos \ moved : infos'[i] = infos[i]
  <2>1. DOMAIN redirected = DOMAIN infos
    OBVIOUS
  <2>2. /\ infos' \in Seq(ObjectInfo) /\ n \notin DOMAIN redirected
        /\ DOMAIN infos' = DOMAIN redirected \cup {n} /\ infos'[n] = this
        /\ \A i \in DOMAIN redirected : infos'[i] = redirected[i]
    <3> HIDE DEF redirected, this
    <3> QED
      BY <1>0, <1>4, <1>5, Appended
  <2> HIDE DEF this, Changed
  <2> QED
    BY <1>3, <2>1, <2>2
<1>7. /\ objects \subseteq Objects /\ Temporary[s] \in objects /\ out \notin objects
      /\ \A i \in moved : Temporary[infos[i].source] \in objects
  BY <1>0, <1>2, <1>3 DEF ObjectInfo
<1>8. /\ DOMAIN objectFileInfos' = (DOMAIN objectFileInfos \ {out}) \cup objects
      /\ objectFileInfos'[Temporary[s]] = n
      /\ \A f \in objects \ {Temporary[s]} :
            objectFileInfos'[f] \in moved /\ Temporary[infos[objectFileInfos'[f]].source] = f
      /\ \A f \in DOMAIN objectFileInfos \ ({out} \cup objects) : objectFileInfos'[f] = objectFileInfos[f]
  <2>1. objectFileInfos'[Temporary[s]] = n
    BY <1>0, <1>7
  <2>2. ASSUME NEW f \in objects \ {Temporary[s]}
        PROVE  objectFileInfos'[f] \in moved /\ Temporary[infos[objectFileInfos'[f]].source] = f
    <3>1. PICK i \in moved : f = Temporary[infos[i].source]
      OBVIOUS
    <3>2. objectFileInfos'[f] = CHOOSE j \in moved : TRUE
      BY <1>0, <2>2
    <3> QED
      BY <3>1, <3>2, <1>3
  <2>3. \A f \in DOMAIN objectFileInfos \ ({out} \cup objects) : objectFileInfos'[f] = objectFileInfos[f]
    BY <1>0, <1>7 DEF Without
  <2> QED
    BY <1>0, <2>1, <2>2, <2>3
<1>9. /\ DOMAIN targetInfos' = DOMAIN targetInfos \cup {out}
      /\ \A t \in DOMAIN targetInfos \ {out} : targetInfos'[t] = targetInfos[t]
      /\ targetInfos'[out] = [InfoOf(out) EXCEPT !.files = @ \cup objects, !.linked = TRUE]
  BY <1>0 DEF Put
<1>10. InfoOf(out) \in TargetInfo
  BY DEF InfoOf, NewTarget, TargetInfo, BuildInv, BuildTypeOK
<1> HIDE DEF n
<1>11. /\ sourceFileInfos' \in [Sources -> SUBSET DOMAIN infos']
       /\ sourceFileInfos'[s] = sourceFileInfos[s] \cup {n}
       /\ \A r \in Sources \ {s} : sourceFileInfos'[r] = sourceFileInfos[r]
  BY <1>0, <1>6 DEF BuildInv, BuildTypeOK
<1>12. /\ targetInfos'[out] \in TargetInfo
       /\ targetInfos'[out].files = InfoOf(out).files \cup objects
       /\ targetInfos'[out].named = InfoOf(out).named
       /\ targetInfos'[out].parent = InfoOf(out).parent
       /\ targetInfos'[out].linked
  <2>1. objects \in SUBSET Outputs
    BY <1>7 DEF Outputs
  <2> HIDE DEF objects
  <2> QED
    BY <1>9, <1>10, <2>1 DEF TargetInfo
<1>20. /\ infos'[n].source = s /\ infos'[n].output = Temporary[s] /\ infos'[n].linkUnit = out
       /\ \A i \in moved : /\ infos'[i].source = infos[i].source
                            /\ infos'[i].output = Temporary[infos[i].source]
                            /\ infos'[i].linkUnit = out
  <2> HIDE DEF moved, n
  <2>1. infos'[n].source = s /\ infos'[n].output = Temporary[s] /\ infos'[n].linkUnit = out
    BY <1>6
  <2>2. ASSUME NEW i \in moved
        PROVE  /\ infos'[i].source = infos[i].source
               /\ infos'[i].output = Temporary[infos[i].source]
               /\ infos'[i].linkUnit = out
    <3>1. infos'[i] = Changed(i)
      BY <1>6
    <3> QED
      BY <3>1
  <2> QED
    BY <2>1, <2>2
<1>21. out # NoFile
  BY <1>2 DEF Outputs
<1> HIDE DEF moved, objects, this, Changed, redirected
<1>13. BuildTypeOK'
  <2>1. DOMAIN objectFileInfos' \subseteq Outputs
    BY <1>7, <1>8 DEF BuildInv, BuildTypeOK, Outputs
  <2>2. \A f \in DOMAIN objectFileInfos' : objectFileInfos'[f] \in DOMAIN infos'
    BY <1>3, <1>6, <1>8 DEF BuildInv, BuildTypeOK
  <2>3. DOMAIN targetInfos' \subseteq Targets /\ \A f \in DOMAIN targetInfos' : targetInfos'[f] \in TargetInfo
    BY <1>2, <1>9, <1>12 DEF BuildInv, BuildTypeOK
  <2>4. first' \in [Sources -> {0} \cup DOMAIN infos'] /\ kept' \in [Sources -> {0} \cup DOMAIN infos']
    BY <1>0, <1>6 DEF BuildInv, BuildTypeOK
  <2> QED
    BY <1>0, <1>1, <1>6, <1>11, <2>1, <2>2, <2>3, <2>4 DEF BuildInv, BuildTypeOK
<1>14. IndexesAgree'
  <2>1. ASSUME NEW f \in DOMAIN objectFileInfos'
        PROVE  infos'[objectFileInfos'[f]].output = f
    <3>1. CASE f = Temporary[s]
      BY <3>1, <1>6, <1>8, <1>20
    <3>2. CASE f \in objects \ {Temporary[s]}
      BY <3>2, <1>6, <1>8, <1>20
    <3>3. CASE f \in DOMAIN objectFileInfos \ ({out} \cup objects)
      BY <3>3, <1>3, <1>6, <1>8 DEF BuildInv, BuildTypeOK, IndexesAgree
    <3> QED
      BY <3>1, <3>2, <3>3, <1>8
  <2>2. ASSUME NEW i \in DOMAIN infos'
        PROVE  /\ infos'[i].output \in DOMAIN objectFileInfos'
               /\ infos'[i].output \notin Objects => objectFileInfos'[infos'[i].output] = i
    <3>1. CASE i = n
      BY <3>1, <1>6, <1>7, <1>8, <1>20
    <3>2. CASE i \in moved
      BY <3>2, <1>6, <1>7, <1>8, <1>20
    <3>3. CASE i \in DOMAIN infos \ moved
      BY <3>3, <1>3, <1>6, <1>7, <1>8 DEF BuildInv, IndexesAgree
    <3> QED
      BY <3>1, <3>2, <3>3, <1>6
  <2>3. \A i \in DOMAIN infos : infos'[i].source = infos[i].source
    BY <1>6, <1>20
  <2>4. \A r \in Sources : sourceFileInfos'[r] = {i \in DOMAIN infos' : infos'[i].source = r}
    <3>1. infos'[n].source = s
      BY <1>6, <1>20
    <3> QED
      BY <1>6, <1>11, <2>3, <3>1 DEF BuildInv, IndexesAgree
  <2> QED
    BY <2>1, <2>2, <2>4 DEF IndexesAgree
<1>15. UnitsAgree'
  <2>1. ASSUME NEW i \in DOMAIN infos', infos'[i].linkUnit # NoFile
        PROVE  /\ infos'[i].linkUnit \in DOMAIN targetInfos'
               /\ infos'[i].output \in targetInfos'[infos'[i].linkUnit].files \cap Objects
    <3>1. CASE i = n
      BY <3>1, <1>6, <1>7, <1>9, <1>12, <1>20
    <3>2. CASE i \in moved
      BY <3>2, <1>6, <1>7, <1>9, <1>12, <1>20
    <3>3. CASE i \in DOMAIN infos \ moved
      <4>1. infos'[i] = infos[i]
        BY <3>3, <1>6
      <4>2. /\ infos[i].linkUnit \in DOMAIN targetInfos
            /\ infos[i].output \in targetInfos[infos[i].linkUnit].files \cap Objects
        BY <3>3, <4>1, <2>1 DEF BuildInv, UnitsAgree
      <4> QED
        BY <4>1, <4>2, <1>9, <1>12 DEF InfoOf
    <3> QED
      BY <3>1, <3>2, <3>3, <1>6
  <2>2. ASSUME NEW t \in DOMAIN targetInfos', NEW o \in targetInfos'[t].files \cap Objects
        PROVE  /\ o \in DOMAIN objectFileInfos'
               /\ infos'[objectFileInfos'[o]].linkUnit # NoFile
    <3>1. CASE o = Temporary[s]
      BY <3>1, <1>2, <1>6, <1>7, <1>8, <1>20, <1>21
    <3>2. CASE o \in objects \ {Temporary[s]}
      BY <3>2, <1>2, <1>6, <1>8, <1>20, <1>21
    <3>3. CASE o \notin objects
      <4>1. t \in DOMAIN targetInfos /\ o \in targetInfos[t].files
        BY <3>3, <1>9, <1>12 DEF InfoOf, NewTarget
      <4>2. o \in DOMAIN objectFileInfos /\ infos[objectFileInfos[o]].linkUnit # NoFile
        BY <4>1 DEF BuildInv, UnitsAgree
      <4>3. o # out /\ objectFileInfos[o] \in DOMAIN infos /\ infos[objectFileInfos[o]].output = o
        BY <4>2, <1>0, <2>2 DEF BuildInv, BuildTypeOK, IndexesAgree
      <4>4. objectFileInfos'[o] = objectFileInfos[o] /\ objectFileInfos[o] \notin moved
        BY <3>3, <4>2, <4>3, <1>3, <1>8
      <4> QED
        BY <3>3, <4>2, <4>3, <4>4, <1>6, <1>8
    <3> QED
      BY <3>1, <3>2, <3>3
  <2> QED
    BY <2>1, <2>2 DEF UnitsAgree
<1>16. FromCommands'
  <2> SUFFICES ASSUME NEW t \in DOMAIN targetInfos',
                      NEW l \in (targetInfos'[t].files \cup targetInfos'[t].named) \cap Targets
               PROVE  \E c \in LinkCommands : c[1] = t /\ l \in c[2] \cup c[3]
    BY DEF FromCommands
  <2>1. t \in DOMAIN targetInfos /\ l \in (targetInfos[t].files \cup targetInfos[t].named) \cap Targets
    BY <1>2, <1>7, <1>9, <1>12 DEF InfoOf, NewTarget
  <2> QED
    BY <2>1 DEF BuildInv, FromCommands
<1>17. FirstIsOfSource'
  BY <1>0 DEF FirstIsOfSource
<1>18. ParentsAgree' /\ AllLinked'
  <2>1. \A t \in DOMAIN targetInfos' : targetInfos'[t].parent = NoFile /\ targetInfos'[t].linked
    BY <1>0, <1>9, <1>12 DEF BuildInv, ParentsAgree, AllLinked, InfoOf, NewTarget
  <2> QED
    BY <2>1 DEF ParentsAgree, AllLinked
<1>19. AnswerIsKept'
  BY <1>0, NotAsked
<1> QED
  BY <1>13, <1>14, <1>15, <1>16, <1>17, <1>18, <1>19 DEF BuildInv

LEMMA SortSourcesInv ==
    ASSUME BuildInv, SortSources
    PROVE  BuildInv'
<1>0. /\ phase = "compile" /\ phase' = "link" /\ length' = 0
      /\ first' \in [Sources -> {0} \cup DOMAIN infos]
      /\ \A s \in Sources : IF sourceFileInfos[s] = {} THEN first'[s] = 0
                                                       ELSE first'[s] \in sourceFileInfos[s]
      /\ UNCHANGED <<infos, objectFileInfos, sourceFileInfos, ignoredOutput, targetInfos, asked, target, kept>>
  BY DEF SortSources, Best
<1>1. length' \in 0 .. (MaxCompile + MaxLink)
  BY <1>0, BuildAssumption
<1>2. BuildTypeOK'
  BY <1>0, <1>1 DEF BuildInv, BuildTypeOK
<1>3. IndexesAgree' /\ UnitsAgree' /\ FromCommands' /\ FirstIsOfSource' /\ AllLinked'
  BY <1>0 DEF BuildInv, IndexesAgree, UnitsAgree, FromCommands, FirstIsOfSource, AllLinked
<1>4. ParentsAgree'
  BY <1>0 DEF BuildInv, ParentsAgree
<1>5. AnswerIsKept'
  BY <1>0, NotAsked
<1> QED
  BY <1>2, <1>3, <1>4, <1>5 DEF BuildInv

(* What addFile does to the tables, for a command of the build or a part of it. *)
LEMMA AddFilesInv ==
    ASSUME BuildInv, phase = "link",
           NEW out \in Targets, NEW files \in SUBSET (Objects \cup Libraries), NEW libs \in SUBSET Libraries,
           NEW hasCommand \in BOOLEAN,
           \E c \in LinkCommands : c[1] = out /\ files \subseteq c[2] /\ libs \subseteq c[3],
           files \cap Objects \subseteq ignoredOutput \cup DOMAIN objectFileInfos,
           AddFiles(out, files, libs, hasCommand),
           UNCHANGED <<objectFileInfos, sourceFileInfos, first>>
    PROVE  /\ infos' \in Seq(ObjectInfo) /\ DOMAIN infos' = DOMAIN infos
           /\ DOMAIN targetInfos' \subseteq Targets
           /\ \A f \in DOMAIN targetInfos' : targetInfos'[f] \in TargetInfo /\ targetInfos'[f].parent = NoFile
           /\ hasCommand => \A f \in DOMAIN targetInfos' : targetInfos'[f].linked
           /\ IndexesAgree' /\ UnitsAgree' /\ FromCommands'
<1> DEFINE added == files \ ignoredOutput
           Hit(i) == \E f \in added \cap DOMAIN objectFileInfos \cap Objects : objectFileInfos[f] = i
           changed == [i \in DOMAIN infos |-> IF Hit(i) THEN [infos[i] EXCEPT !.linkUnit = out] ELSE infos[i]]
<1>0. /\ infos' = changed
      /\ targetInfos' = Put(targetInfos, out,
              [InfoOf(out) EXCEPT !.files = @ \cup added, !.named = @ \cup libs,
                                  !.linked = @ \/ hasCommand])
  BY DEF AddFiles
<1>1. /\ infos \in Seq(ObjectInfo) /\ \A i \in DOMAIN infos : infos[i] \in ObjectInfo
      /\ NoFile \notin Outputs /\ Objects \cap Targets = {}
  <2>1. infos \in Seq(ObjectInfo)
    BY DEF BuildInv, BuildTypeOK
  <2> QED
    BY <2>1, BuildAssumption, ElementOfSeq, LenProperties
<1>2. \A i \in DOMAIN infos :
          /\ changed[i] \in ObjectInfo
          /\ changed[i].source = infos[i].source /\ changed[i].output = infos[i].output
          /\ changed[i].linkUnit = IF Hit(i) THEN out ELSE infos[i].linkUnit
  <2> SUFFICES ASSUME NEW i \in DOMAIN infos
               PROVE  /\ changed[i] \in ObjectInfo
                      /\ changed[i].source = infos[i].source /\ changed[i].output = infos[i].output
                      /\ changed[i].linkUnit = IF Hit(i) THEN out ELSE infos[i].linkUnit
    OBVIOUS
  <2>1. changed[i] = IF Hit(i) THEN [infos[i] EXCEPT !.linkUnit = out] ELSE infos[i]
    OBVIOUS
  <2> HIDE DEF changed, Hit
  <2> QED
    BY <1>1, <2>1 DEF ObjectInfo
<1>3. changed \in Seq(ObjectInfo) /\ DOMAIN changed = DOMAIN infos
  <2>1. DOMAIN changed = DOMAIN infos /\ changed = [i \in DOMAIN infos |-> changed[i]]
    OBVIOUS
  <2> HIDE DEF changed
  <2> QED
    BY <1>1, <1>2, <2>1, Mapped
<1>4. /\ DOMAIN targetInfos' = DOMAIN targetInfos \cup {out}
      /\ \A t \in DOMAIN targetInfos \ {out} : targetInfos'[t] = targetInfos[t]
      /\ targetInfos'[out] = [InfoOf(out) EXCEPT !.files = @ \cup added, !.named = @ \cup libs,
                                                 !.linked = @ \/ hasCommand]
  BY <1>0 DEF Put
<1>5. InfoOf(out) \in TargetInfo
  BY DEF InfoOf, NewTarget, TargetInfo, BuildInv, BuildTypeOK
<1>6. /\ targetInfos'[out] \in TargetInfo
      /\ targetInfos'[out].files = InfoOf(out).files \cup added
      /\ targetInfos'[out].named = InfoOf(out).named \cup libs
      /\ targetInfos'[out].parent = InfoOf(out).parent
      /\ targetInfos'[out].linked = (InfoOf(out).linked \/ hasCommand)
  <2>1. added \in SUBSET Outputs
    BY DEF Outputs, Targets
  <2> HIDE DEF added
  <2> QED
    BY <1>4, <1>5, <2>1 DEF TargetInfo
<1>7. /\ infos' \in Seq(ObjectInfo) /\ DOMAIN infos' = DOMAIN infos
      /\ \A i \in DOMAIN infos :
            /\ infos'[i].source = infos[i].source /\ infos'[i].output = infos[i].output
            /\ infos'[i].linkUnit = IF Hit(i) THEN out ELSE infos[i].linkUnit
  <2> HIDE DEF changed, Hit
  <2> QED
    BY <1>0, <1>2, <1>3
<1> HIDE DEF changed
<1>8. /\ DOMAIN targetInfos' \subseteq Targets
      /\ \A f \in DOMAIN targetInfos' : targetInfos'[f] \in TargetInfo /\ targetInfos'[f].parent = NoFile
      /\ hasCommand => \A f \in DOMAIN targetInfos' : targetInfos'[f].linked
  <2>1. DOMAIN targetInfos \subseteq Targets
        /\ \A f \in DOMAIN targetInfos : /\ targetInfos[f] \in TargetInfo /\ targetInfos[f].parent = NoFile
                                         /\ targetInfos[f].linked
    BY DEF BuildInv, BuildTypeOK, ParentsAgree, AllLinked
  <2>2. InfoOf(out).parent = NoFile
    BY <2>1 DEF InfoOf, NewTarget
  <2>3. hasCommand => targetInfos'[out].linked
    BY <1>6
  <2> QED
    BY <1>4, <1>6, <2>1, <2>2, <2>3
<1>9. IndexesAgree'
  <2>1. \A f \in DOMAIN objectFileInfos' : infos'[objectFileInfos'[f]].output = f
    BY <1>7 DEF BuildInv, BuildTypeOK, IndexesAgree
  <2>2. \A i \in DOMAIN infos' :
          /\ infos'[i].output \in DOMAIN objectFileInfos'
          /\ infos'[i].output \notin Objects => objectFileInfos'[infos'[i].output] = i
    BY <1>7 DEF BuildInv, IndexesAgree
  <2>3. \A s \in Sources : sourceFileInfos'[s] = {i \in DOMAIN infos' : infos'[i].source = s}
    BY <1>7 DEF BuildInv, IndexesAgree
  <2> QED
    BY <2>1, <2>2, <2>3 DEF IndexesAgree
<1>10. UnitsAgree'
  <2>1. ASSUME NEW i \in DOMAIN infos', infos'[i].linkUnit # NoFile
        PROVE  /\ infos'[i].linkUnit \in DOMAIN targetInfos'
               /\ infos'[i].output \in targetInfos'[infos'[i].linkUnit].files \cap Objects
    <3>1. CASE Hit(i)
      <4>1. infos'[i].output \in added \cap Objects
        BY <3>1, <2>1, <1>7 DEF BuildInv, IndexesAgree
      <4> QED
        BY <3>1, <4>1, <2>1, <1>4, <1>6, <1>7
    <3>2. CASE ~ Hit(i)
      <4>1. infos'[i].linkUnit = infos[i].linkUnit /\ infos'[i].output = infos[i].output
        BY <3>2, <2>1, <1>7
      <4>2. /\ infos[i].linkUnit \in DOMAIN targetInfos
            /\ infos[i].output \in targetInfos[infos[i].linkUnit].files \cap Objects
        BY <4>1, <2>1, <1>7 DEF BuildInv, UnitsAgree
      <4> QED
        BY <4>1, <4>2, <1>4, <1>6 DEF InfoOf
    <3> QED
      BY <3>1, <3>2
  <2>2. ASSUME NEW t \in DOMAIN targetInfos', NEW o \in targetInfos'[t].files \cap Objects
        PROVE  /\ o \in DOMAIN objectFileInfos'
               /\ infos'[objectFileInfos'[o]].linkUnit # NoFile
    <3>1. o \in DOMAIN objectFileInfos /\ (o \in added \/ infos[objectFileInfos[o]].linkUnit # NoFile)
      <4>1. CASE o \in added
        BY <4>1, <2>2
      <4>2. CASE o \notin added
        <5>1. t \in DOMAIN targetInfos /\ o \in targetInfos[t].files \cap Objects
          BY <4>2, <2>2, <1>4, <1>6 DEF InfoOf, NewTarget
        <5> QED
          BY <5>1 DEF BuildInv, UnitsAgree
      <4> QED
        BY <4>1, <4>2
    <3>2. objectFileInfos[o] \in DOMAIN infos /\ out # NoFile
      BY <3>1, <1>1 DEF BuildInv, BuildTypeOK, Outputs
    <3>3. o \in added => Hit(objectFileInfos[o])
      BY <3>1, <2>2
    <3> HIDE DEF Hit
    <3> QED
      BY <3>1, <3>2, <3>3, <1>7
  <2> QED
    BY <2>1, <2>2 DEF UnitsAgree
<1>11. FromCommands'
  <2> SUFFICES ASSUME NEW t \in DOMAIN targetInfos',
                      NEW l \in (targetInfos'[t].files \cup targetInfos'[t].named) \cap Targets
               PROVE  \E c \in LinkCommands : c[1] = t /\ l \in c[2] \cup c[3]
    BY DEF FromCommands
  <2>1. CASE t = out /\ l \in files \cup libs
    BY <2>1
  <2>2. CASE ~ (t = out /\ l \in files \cup libs)
    <3>1. t \in DOMAIN targetInfos /\ l \in (targetInfos[t].files \cup targetInfos[t].named) \cap Targets
      BY <2>2, <1>4, <1>6 DEF InfoOf, NewTarget
    <3> QED
      BY <3>1 DEF BuildInv, FromCommands
  <2> QED
    BY <2>1, <2>2
<1> QED
  BY <1>7, <1>8, <1>9, <1>10, <1>11

LEMMA LinkInv ==
    ASSUME BuildInv, NEW c \in LinkCommands, Link(c[1], c[2], c[3]) \/ LinkThrows(c[1], c[2])
    PROVE  BuildInv'
<1>1. /\ c[1] \in Targets /\ c[2] \in SUBSET (Objects \cup Libraries) /\ c[3] \in SUBSET Libraries
  BY BuildAssumption
<1>2. \A f \in c[2] \ Missing(c[2]) : f \in Objects => f \in ignoredOutput \cup DOMAIN objectFileInfos
  BY DEF Missing
<1>3. PICK files \in SUBSET (c[2] \ Missing(c[2])), libs \in SUBSET c[3], hasCommand \in BOOLEAN :
          /\ phase = "link" /\ length < MaxLink /\ length' = length + 1
          /\ AddFiles(c[1], files, libs, hasCommand)
          /\ phase' \in {"link", "partial"} /\ (phase' = "link" => hasCommand)
          /\ UNCHANGED <<objectFileInfos, sourceFileInfos, first, ignoredOutput, asked, target, kept>>
  <2>1. CASE Link(c[1], c[2], c[3])
    BY <2>1 DEF Link, ReadLink
  <2>2. CASE LinkThrows(c[1], c[2])
    <3>1. {} \in SUBSET c[3]
      OBVIOUS
    <3> QED
      BY <2>2, <3>1 DEF LinkThrows, ReadLink
  <2> QED
    BY <2>1, <2>2
<1>4. length' \in 0 .. (MaxCompile + MaxLink)
  BY <1>3, BuildAssumption DEF BuildInv, BuildTypeOK
<1>5. /\ infos' \in Seq(ObjectInfo) /\ DOMAIN infos' = DOMAIN infos
      /\ DOMAIN targetInfos' \subseteq Targets
      /\ \A f \in DOMAIN targetInfos' : targetInfos'[f] \in TargetInfo /\ targetInfos'[f].parent = NoFile
      /\ hasCommand => \A f \in DOMAIN targetInfos' : targetInfos'[f].linked
      /\ IndexesAgree' /\ UnitsAgree' /\ FromCommands'
  <2>1. /\ files \in SUBSET (Objects \cup Libraries) /\ libs \in SUBSET Libraries
        /\ files \cap Objects \subseteq ignoredOutput \cup DOMAIN objectFileInfos
        /\ files \subseteq c[2]
    BY <1>1, <1>2, <1>3
  <2> QED
    BY <1>1, <1>3, <2>1, AddFilesInv
<1>6. BuildTypeOK'
  BY <1>3, <1>4, <1>5 DEF BuildInv, BuildTypeOK
<1>7. FirstIsOfSource' /\ ParentsAgree' /\ AllLinked'
  BY <1>3, <1>5 DEF BuildInv, FirstIsOfSource, ParentsAgree, AllLinked
<1>8. AnswerIsKept'
  BY <1>3, NotAsked
<1> QED
  BY <1>5, <1>6, <1>7, <1>8 DEF BuildInv

LEMMA ResolveInv ==
    ASSUME BuildInv, Resolve
    PROVE  BuildInv'
<1> DEFINE known == DOMAIN targetInfos \cup DOMAIN objectFileInfos
           local(t) == targetInfos[t].named \cap DOMAIN targetInfos
<1>0. /\ phase = "link" /\ phase' = "resolve"
      /\ targetInfos' = [f \in DOMAIN targetInfos |->
            [targetInfos[f] EXCEPT !.files = (@ \cap known) \cup local(f),
                                   !.installed = (targetInfos[f].files \ known)
                                                 \cup (targetInfos[f].named \ local(f))]]
      /\ UNCHANGED <<length, infos, objectFileInfos, sourceFileInfos, first, ignoredOutput,
                     asked, target, kept>>
  BY DEF Resolve
<1>1. /\ DOMAIN targetInfos' = DOMAIN targetInfos
      /\ \A f \in DOMAIN targetInfos :
            /\ targetInfos'[f] \in TargetInfo
            /\ targetInfos'[f].files = (targetInfos[f].files \cap known) \cup local(f)
            /\ targetInfos'[f].named = targetInfos[f].named
            /\ targetInfos'[f].parent = targetInfos[f].parent
            /\ targetInfos'[f].linked = targetInfos[f].linked
  <2>1. DOMAIN targetInfos' = DOMAIN targetInfos
    BY <1>0
  <2>2. ASSUME NEW f \in DOMAIN targetInfos
        PROVE  /\ targetInfos'[f] \in TargetInfo
               /\ targetInfos'[f].files = (targetInfos[f].files \cap known) \cup local(f)
               /\ targetInfos'[f].named = targetInfos[f].named
               /\ targetInfos'[f].parent = targetInfos[f].parent
               /\ targetInfos'[f].linked = targetInfos[f].linked
    <3>1. targetInfos[f] \in TargetInfo
      BY DEF BuildInv, BuildTypeOK
    <3>2. /\ (targetInfos[f].files \cap known) \cup local(f) \in SUBSET Outputs
          /\ (targetInfos[f].files \ known) \cup (targetInfos[f].named \ local(f)) \in SUBSET Outputs
      BY <3>1 DEF TargetInfo, Outputs, Targets
    <3>3. targetInfos'[f] = [targetInfos[f] EXCEPT !.files = (@ \cap known) \cup local(f),
                                !.installed = (targetInfos[f].files \ known)
                                              \cup (targetInfos[f].named \ local(f))]
      BY <1>0
    <3> HIDE DEF known, local
    <3> QED
      BY <3>1, <3>2, <3>3 DEF TargetInfo
  <2> QED
    BY <2>1, <2>2
<1>2. /\ infos \in Seq(ObjectInfo) /\ Objects \cap Targets = {}
  BY BuildAssumption DEF BuildInv, BuildTypeOK
<1>3. BuildTypeOK'
  BY <1>0, <1>1 DEF BuildInv, BuildTypeOK
<1>4. IndexesAgree' /\ FirstIsOfSource' /\ AllLinked'
  BY <1>0, <1>1 DEF BuildInv, IndexesAgree, FirstIsOfSource, AllLinked
<1>5. UnitsAgree'
  <2>1. \A i \in DOMAIN infos : infos[i].linkUnit # NoFile =>
          /\ infos[i].linkUnit \in DOMAIN targetInfos'
          /\ infos[i].output \in targetInfos'[infos[i].linkUnit].files \cap Objects
    BY <1>1 DEF BuildInv, UnitsAgree, IndexesAgree
  <2>2. \A t \in DOMAIN targetInfos : \A o \in targetInfos'[t].files \cap Objects : o \in targetInfos[t].files
    BY <1>1, <1>2 DEF BuildInv, BuildTypeOK, TargetInfo, Targets
  <2>3. \A t \in DOMAIN targetInfos : \A o \in targetInfos'[t].files \cap Objects :
          /\ o \in DOMAIN objectFileInfos
          /\ infos[objectFileInfos[o]].linkUnit # NoFile
    BY <2>2 DEF BuildInv, UnitsAgree
  <2> QED
    BY <1>0, <1>1, <2>1, <2>3 DEF UnitsAgree
<1>6. FromCommands' /\ ParentsAgree'
  <2>1. \A f \in DOMAIN targetInfos : targetInfos'[f].parent = NoFile
    BY <1>0, <1>1 DEF BuildInv, ParentsAgree
  <2>2. ASSUME NEW f \in DOMAIN targetInfos,
               NEW l \in (targetInfos'[f].files \cup targetInfos'[f].named) \cap Targets
        PROVE  \E c \in LinkCommands : c[1] = f /\ l \in c[2] \cup c[3]
    BY <1>1, <2>2 DEF BuildInv, FromCommands
  <2>3. FromCommands'
    BY <1>1, <2>2 DEF FromCommands
  <2> QED
    BY <1>1, <2>1, <2>3 DEF ParentsAgree
<1>7. AnswerIsKept'
  BY <1>0, NotAsked
<1> QED
  BY <1>3, <1>4, <1>5, <1>6, <1>7 DEF BuildInv

LEMMA FillParentsInv ==
    ASSUME BuildInv, FillParents
    PROVE  BuildInv'
<1>0. /\ phase = "resolve" /\ phase' \in {"complete", "partial"}
      /\ UNCHANGED <<length, infos, objectFileInfos, sourceFileInfos, first, ignoredOutput, asked, target, kept>>
  BY DEF FillParents
<1>9. PICK done \in SUBSET (Used \cap DOMAIN targetInfos) :
         \E parent \in [done -> DOMAIN targetInfos] :
            /\ \A l \in done : parent[l] \in Parents(l)
            /\ targetInfos' = [f \in DOMAIN targetInfos |->
                  IF f \in done THEN [targetInfos[f] EXCEPT !.parent = parent[f]] ELSE targetInfos[f]]
  BY DEF FillParents
<1>1. PICK parent \in [done -> DOMAIN targetInfos] :
          /\ \A l \in done : parent[l] \in Parents(l)
          /\ targetInfos' = [f \in DOMAIN targetInfos |->
                IF f \in done THEN [targetInfos[f] EXCEPT !.parent = parent[f]] ELSE targetInfos[f]]
  BY <1>9
<1>2. /\ DOMAIN targetInfos' = DOMAIN targetInfos
      /\ \A f \in DOMAIN targetInfos :
            /\ targetInfos'[f] \in TargetInfo
            /\ targetInfos'[f].files = targetInfos[f].files
            /\ targetInfos'[f].named = targetInfos[f].named
            /\ targetInfos'[f].linked = targetInfos[f].linked
            /\ targetInfos'[f].parent # NoFile => f \in done /\ targetInfos'[f].parent = parent[f]
  <2>1. DOMAIN targetInfos' = DOMAIN targetInfos
    BY <1>1
  <2>2. ASSUME NEW f \in DOMAIN targetInfos
        PROVE  /\ targetInfos'[f] \in TargetInfo
               /\ targetInfos'[f].files = targetInfos[f].files
               /\ targetInfos'[f].named = targetInfos[f].named
               /\ targetInfos'[f].linked = targetInfos[f].linked
               /\ targetInfos'[f].parent # NoFile => f \in done /\ targetInfos'[f].parent = parent[f]
    <3>1. targetInfos[f] \in TargetInfo /\ targetInfos[f].parent = NoFile
      BY <1>0 DEF BuildInv, BuildTypeOK, ParentsAgree
    <3>2. f \in done => parent[f] \in Targets
      BY <1>1 DEF BuildInv, BuildTypeOK
    <3>3. targetInfos'[f] = IF f \in done THEN [targetInfos[f] EXCEPT !.parent = parent[f]] ELSE targetInfos[f]
      BY <1>1
    <3> QED
      BY <3>1, <3>2, <3>3 DEF TargetInfo
  <2> QED
    BY <2>1, <2>2
<1>3. BuildTypeOK' /\ IndexesAgree' /\ UnitsAgree' /\ FromCommands' /\ FirstIsOfSource' /\ AllLinked'
  <2>1. BuildTypeOK'
    BY <1>0, <1>2 DEF BuildInv, BuildTypeOK
  <2>2. IndexesAgree' /\ FromCommands' /\ FirstIsOfSource' /\ AllLinked'
    BY <1>0, <1>2 DEF BuildInv, IndexesAgree, FromCommands, FirstIsOfSource, AllLinked
  <2>3. UnitsAgree'
    BY <1>0, <1>2 DEF BuildInv, UnitsAgree
  <2> QED
    BY <2>1, <2>2, <2>3
<1>4. ParentsAgree'
  <2> SUFFICES ASSUME NEW l \in DOMAIN targetInfos, targetInfos'[l].parent # NoFile
               PROVE  l \in Libraries /\ targetInfos'[l].parent \in Parents(l)'
    BY <1>0, <1>2 DEF ParentsAgree
  <2>1. l \in done /\ targetInfos'[l].parent = parent[l]
    BY <1>2
  <2>2. l \in Libraries
    BY <2>1 DEF Used
  <2>3. parent[l] \in DOMAIN targetInfos /\ l \in targetInfos[parent[l]].files
    BY <2>1, <1>1 DEF Parents
  <2>4. Parents(l)' = {f \in DOMAIN targetInfos' : l \in targetInfos'[f].files}
    BY DEF Parents
  <2> QED
    BY <2>1, <2>2, <2>3, <2>4, <1>2
<1>5. AnswerIsKept'
  BY <1>0, NotAsked
<1> QED
  BY <1>3, <1>4, <1>5 DEF BuildInv

(* What a recursion comes to: the start, whatever a step leads to, no more. *)
LEMMA ReachedFacts ==
    ASSUME NEW step, NEW t \in DOMAIN step, \A u \in DOMAIN step : step[u] \subseteq DOMAIN step
    PROVE  /\ t \in Reached(t, step) /\ Reached(t, step) \subseteq DOMAIN step
           /\ \A u \in Reached(t, step) : step[u] \subseteq Reached(t, step)
           /\ \A us \in SUBSET DOMAIN step :
                t \in us /\ (\A v \in us : step[v] \subseteq us) => Reached(t, step) \subseteq us
<1>1. t \in Reached(t, step) /\ Reached(t, step) \subseteq DOMAIN step
  BY DEF Reached
<1>2. ASSUME NEW u \in Reached(t, step), NEW v \in step[u]
      PROVE  v \in Reached(t, step)
  <2>1. v \in DOMAIN step
    BY <1>1
  <2>2. ASSUME NEW us \in SUBSET DOMAIN step, t \in us, \A w \in us : step[w] \subseteq us
        PROVE  v \in us
    BY <2>2, <1>2 DEF Reached
  <2> QED
    BY <2>1, <2>2 DEF Reached
<1>3. \A us \in SUBSET DOMAIN step :
         t \in us /\ (\A v \in us : step[v] \subseteq us) => Reached(t, step) \subseteq us
  BY DEF Reached
<1> QED
  BY <1>1, <1>2, <1>3

LEMMA TargetFilesFacts ==
    ASSUME NEW t \in DOMAIN targetInfos
    PROVE  /\ t \in TargetFiles(t) /\ TargetFiles(t) \subseteq DOMAIN targetInfos
           /\ \A u \in TargetFiles(t) : Parts(u) \subseteq TargetFiles(t)
           /\ \A u \in TargetFiles(t) : TargetFiles(u) \subseteq TargetFiles(t)
<1> DEFINE step == [u \in DOMAIN targetInfos |-> Parts(u)]
<1>1. DOMAIN step = DOMAIN targetInfos /\ \A u \in DOMAIN step : step[u] = Parts(u)
  OBVIOUS
<1>2. \A u \in DOMAIN step : step[u] \subseteq DOMAIN step
  BY DEF Parts
<1>3. \A u : TargetFiles(u) = Reached(u, step)
  BY DEF TargetFiles
<1> HIDE DEF step
<1>4. /\ t \in TargetFiles(t) /\ TargetFiles(t) \subseteq DOMAIN targetInfos
      /\ \A u \in TargetFiles(t) : Parts(u) \subseteq TargetFiles(t)
  BY <1>1, <1>2, <1>3, ReachedFacts
<1>5. ASSUME NEW u \in TargetFiles(t)
      PROVE  TargetFiles(u) \subseteq TargetFiles(t)
  <2>1. u \in DOMAIN step /\ TargetFiles(t) \in SUBSET DOMAIN step
    BY <1>1, <1>4
  <2>2. \A v \in TargetFiles(t) : step[v] \subseteq TargetFiles(t)
    BY <1>1, <1>4
  <2> QED
    BY <2>1, <2>2, <1>2, <1>3, ReachedFacts
<1> QED
  BY <1>4, <1>5

LEMMA BelowHasLess ==
    ASSUME NEW t \in DOMAIN targetInfos, NEW u \in TargetFiles(t)
    PROVE  ObjectFiles(u) \subseteq ObjectFiles(t) /\ SourcesOf(u) \subseteq SourcesOf(t)
<1>1. ObjectFiles(u) \subseteq ObjectFiles(t)
  BY TargetFilesFacts DEF ObjectFiles
<1> QED
  BY <1>1 DEF SourcesOf

(* A unit is built into its parent, as a command says. *)
LEMMA ParentIsAbove ==
    ASSUME BuildInv, NEW u \in DOMAIN targetInfos, targetInfos[u].parent # NoFile
    PROVE  /\ targetInfos[u].parent \in DOMAIN targetInfos
           /\ u \in TargetFiles(targetInfos[u].parent)
           /\ \E c \in LinkCommands : c[1] = targetInfos[u].parent /\ u \in c[2] \cup c[3]
<1> DEFINE p == targetInfos[u].parent
<1>1. p \in DOMAIN targetInfos /\ u \in targetInfos[p].files \cap Libraries
  BY DEF BuildInv, ParentsAgree, Parents
<1>2. u \in TargetFiles(p)
  BY <1>1, TargetFilesFacts DEF Parts
<1>3. \E c \in LinkCommands : c[1] = p /\ u \in c[2] \cup c[3]
  BY <1>1 DEF BuildInv, FromCommands, Targets
<1> QED
  BY <1>1, <1>2, <1>3

(* Climbing from a unit ends, at a unit without parents that is built from *)
(* the first.                                                              *)
LEMMA ClimbingEnds ==
    ASSUME BuildInv, NEW t \in DOMAIN targetInfos
    PROVE  \E top \in RootTargets :
              /\ t \in TargetFiles(top)
              /\ Root(t) = IF targetInfos[top].linked THEN top ELSE Throws
<1> DEFINE step == [u \in DOMAIN targetInfos |-> {targetInfos[u].parent} \ {NoFile}]
<1>1. DOMAIN step = DOMAIN targetInfos /\ \A u \in DOMAIN step : step[u] = {targetInfos[u].parent} \ {NoFile}
  OBVIOUS
<1>2. \A u \in DOMAIN step : step[u] \subseteq DOMAIN step
  BY ParentIsAbove
<1>3. Above(t) = Reached(t, step)
  BY DEF Above
<1> HIDE DEF step
<1>4. /\ t \in Above(t) /\ Above(t) \subseteq DOMAIN targetInfos
      /\ \A u \in Above(t) : step[u] \subseteq Above(t)
      /\ \A us \in SUBSET DOMAIN step :
            t \in us /\ (\A v \in us : step[v] \subseteq us) => Above(t) \subseteq us
  <2>1. t \in DOMAIN step
    BY <1>1
  <2> QED
    BY <2>1, <1>1, <1>2, <1>3, ReachedFacts
<1>5. \A u \in Above(t) : t \in TargetFiles(u)
  <2> DEFINE us == {u \in DOMAIN targetInfos : t \in TargetFiles(u)}
  <2>1. ASSUME NEW v \in us, NEW p \in step[v]
        PROVE  p \in us
    <3>1. p = targetInfos[v].parent /\ p # NoFile
      BY <1>1, <2>1
    <3>2. p \in DOMAIN targetInfos /\ v \in TargetFiles(p)
      BY <3>1, ParentIsAbove
    <3> QED
      BY <3>2, TargetFilesFacts
  <2>2. us \in SUBSET DOMAIN step /\ t \in us
    BY <1>1, TargetFilesFacts
  <2> QED
    BY <2>1, <2>2, <1>4
<1>6. \E u \in Above(t) : targetInfos[u].parent = NoFile
  <2>1. Above(t) \in SUBSET Targets /\ Above(t) # {}
    BY <1>4 DEF BuildInv, BuildTypeOK
  <2>2. PICK u \in Above(t) : \A c \in LinkCommands : c[1] \in Above(t) => u \notin c[2] \cup c[3]
    BY <2>1, BuildOrder
  <2>3. ASSUME targetInfos[u].parent # NoFile PROVE FALSE
    <3>1. targetInfos[u].parent \in Above(t)
      BY <2>3, <1>1, <1>4
    <3> QED
      BY <2>2, <2>3, <3>1, <1>4, ParentIsAbove
  <2> QED
    BY <2>3
<1> DEFINE top == CHOOSE u \in Above(t) : targetInfos[u].parent = NoFile
<1>7. top \in Above(t) /\ targetInfos[top].parent = NoFile
  BY <1>6
<1>8. Root(t) = IF targetInfos[top].linked THEN top ELSE Throws
  BY DEF Root
<1> HIDE DEF top
<1> QED
  BY <1>4, <1>5, <1>7, <1>8 DEF RootTargets

LEMMA RequestInv ==
    ASSUME BuildInv, NEW path \in Sources \cup Targets \cup {"auto"}, Request(path)
    PROVE  BuildInv'
<1>0. /\ phase \in {"complete", "partial"} /\ asked = NoFile /\ target = NoFile
      /\ asked' = path /\ path # NoFile
      /\ UNCHANGED <<phase, length, infos, objectFileInfos, sourceFileInfos, first, ignoredOutput, targetInfos>>
  BY BuildAssumption DEF Request, BuildInv, AnswerIsKept, Outputs
<1>1. \A s \in Sources : getRootForSource(s) # Throws =>
         /\ getRootForSource(s) \in DOMAIN targetInfos
         /\ first[s] # 0 /\ infos[first[s]].linkUnit # NoFile
  <2> SUFFICES ASSUME NEW s \in Sources, getRootForSource(s) # Throws
               PROVE  /\ getRootForSource(s) \in DOMAIN targetInfos
                      /\ first[s] # 0 /\ infos[first[s]].linkUnit # NoFile
    OBVIOUS
  <2>1. /\ first[s] # 0 /\ infos[first[s]].linkUnit # NoFile
        /\ getRootForSource(s) = Root(infos[first[s]].linkUnit)
    BY DEF getRootForSource
  <2>2. infos[first[s]].linkUnit \in DOMAIN targetInfos
    BY <2>1 DEF BuildInv, BuildTypeOK, UnitsAgree
  <2> QED
    BY <2>1, <2>2, ClimbingEnds DEF RootTargets
<1>2. CASE UNCHANGED <<target, kept>>
  <2>1. BuildTypeOK'
    BY <1>0, <1>2 DEF BuildInv, BuildTypeOK
  <2>2. AnswerIsKept'
    BY <1>0, <1>2 DEF AnswerIsKept
  <2> QED
    BY <1>0, <1>2, <2>1, <2>2 DEF BuildInv, IndexesAgree, UnitsAgree, FromCommands, FirstIsOfSource,
                                  ParentsAgree, Parents, AllLinked
<1>3. ASSUME NEW t \in Answers(path), t # Throws, target' = t,
             kept' \in [Sources -> {0} \cup {objectFileInfos[o] : o \in ObjectFiles(t)}],
             \A s \in Sources : kept'[s] = 0 => s \notin SourcesOf(t)
      PROVE  BuildInv'
  <2>1. t \in DOMAIN targetInfos /\ (path \in Sources => t = getRootForSource(path))
    BY <1>1, <1>3 DEF Answers, ForSource, ForName, ForAuto
  <2>2. \A o \in ObjectFiles(t) : objectFileInfos[o] \in DOMAIN infos
    BY <2>1, TargetFilesFacts DEF ObjectFiles, BuildInv, BuildTypeOK, UnitsAgree
  <2>3. kept' \in [Sources -> {0} \cup DOMAIN infos]
    BY <2>2, <1>3
  <2>4. BuildTypeOK'
    BY <1>0, <1>3, <2>1, <2>3 DEF BuildInv, BuildTypeOK
  <2>5. /\ \A s : getRootForSource(s)' = getRootForSource(s)
        /\ \A u : SourcesOf(u)' = SourcesOf(u)
    BY <1>0 DEF getRootForSource, Root, Above, Reached, SourcesOf, ObjectFiles, TargetFiles, Parts
  <2>6. AnswerIsKept'
    <3>1. path \in Sources => /\ t = getRootForSource(path)' /\ first[path] # 0
                              /\ infos[first[path]].linkUnit # NoFile
                              /\ kept'[path] = 0 => path \notin SourcesOf(t)'
      BY <1>1, <1>3, <2>1, <2>5
    <3> QED
      BY <1>0, <1>3, <3>1 DEF AnswerIsKept
  <2> QED
    BY <1>0, <2>4, <2>6 DEF BuildInv, IndexesAgree, UnitsAgree, FromCommands, FirstIsOfSource,
                            ParentsAgree, Parents, AllLinked
<1>4. PICK t \in Answers(path) :
         IF t = Throws \/ (t # Throws /\ ~ Whole(t))
         THEN UNCHANGED <<target, kept>>
         ELSE /\ target' = t
              /\ kept' \in [Sources -> {0} \cup {objectFileInfos[o] : o \in ObjectFiles(t)}]
              /\ \A s \in Sources : IF kept'[s] = 0 THEN s \notin SourcesOf(t)
                                                     ELSE infos[kept'[s]].source = s
  BY DEF Request
<1> QED
  BY <1>2, <1>3, <1>4

LEMMA BuildStep == BuildInv /\ [BuildNext]_buildVars => BuildInv'
<1> SUFFICES ASSUME BuildInv, [BuildNext]_buildVars PROVE BuildInv'
  OBVIOUS
<1>1. ASSUME NEW c \in CompileCommands, c[1] \in Sources,
             SkipDuplicate(c[2]) \/ CompileObject(c[1], c[2]) \/ CompileIntoTarget(c[1], c[2])
      PROVE  BuildInv'
  <2>1. c[2] \in Outputs
    BY BuildAssumption
  <2> QED
    BY <1>1, <2>1, IgnoreInv, CompileObjectInv, CompileIntoTargetInv
<1>2. ASSUME NEW c \in CompileCommands, Ignore(c[2])
      PROVE  BuildInv'
  <2>1. c[2] \in Outputs
    BY BuildAssumption
  <2> QED
    BY <1>2, <2>1, IgnoreInv
<1>3. ASSUME NEW c \in LinkCommands, Link(c[1], c[2], c[3]) \/ LinkThrows(c[1], c[2])
      PROVE  BuildInv'
  BY <1>3, LinkInv
<1>4. CASE SortSources \/ Resolve \/ FillParents
  BY <1>4, SortSourcesInv, ResolveInv, FillParentsInv
<1>5. ASSUME NEW path \in Sources \cup Targets \cup {"auto"}, Request(path)
      PROVE  BuildInv'
  BY <1>5, RequestInv
<1>6. CASE UNCHANGED buildVars
  <2>1. UNCHANGED <<phase, length, infos, objectFileInfos, sourceFileInfos, first, ignoredOutput,
                    targetInfos, asked, target, kept>>
    BY <1>6 DEF buildVars
  <2>2. /\ \A s : getRootForSource(s)' = getRootForSource(s)
        /\ \A u : SourcesOf(u)' = SourcesOf(u)
    BY <2>1 DEF getRootForSource, Root, Above, Reached, SourcesOf, ObjectFiles, TargetFiles, Parts
  <2>3. BuildTypeOK' /\ AnswerIsKept'
    BY <2>1, <2>2 DEF BuildInv, BuildTypeOK, AnswerIsKept
  <2> QED
    BY <2>1, <2>3 DEF BuildInv, IndexesAgree, UnitsAgree, FromCommands, FirstIsOfSource,
                      ParentsAgree, Parents, AllLinked
<1> QED
  BY <1>1, <1>2, <1>3, <1>4, <1>5, <1>6 DEF BuildNext

(* The preferred object of a source, when names do not clash: it is found   *)
(* under its name, and it is in a unit when it names one.                   *)
LEMMA PreferredObject ==
    ASSUME BuildInv, phase # "compile", ~ NameClash, NEW s \in Sources, first[s] # 0,
           NEW o, o = infos[first[s]].output, NEW unit, unit = infos[first[s]].linkUnit
    PROVE  /\ first[s] \in sourceFileInfos[s] /\ infos[first[s]].source = s
           /\ o \in DOMAIN objectFileInfos /\ objectFileInfos[o] = first[s]
           /\ unit # NoFile <=> \E t \in DOMAIN targetInfos : o \in targetInfos[t].files \cap Objects
           /\ unit # NoFile => unit \in DOMAIN targetInfos /\ o \in ObjectFiles(unit) /\ s \in SourcesOf(unit)
<1>1. first[s] \in sourceFileInfos[s]
  BY DEF BuildInv, FirstIsOfSource
<1>2. first[s] \in DOMAIN infos /\ infos[first[s]].source = s
  BY <1>1 DEF BuildInv, IndexesAgree
<1>3. o \in DOMAIN objectFileInfos /\ objectFileInfos[o] = first[s]
  <2>1. /\ o \in DOMAIN objectFileInfos /\ objectFileInfos[o] \in DOMAIN infos
        /\ infos[objectFileInfos[o]].output = o
    BY <1>2 DEF BuildInv, BuildTypeOK, IndexesAgree
  <2> QED
    BY <2>1, <1>2 DEF NameClash
<1>4. unit # NoFile => unit \in DOMAIN targetInfos /\ o \in targetInfos[unit].files \cap Objects
  BY <1>2 DEF BuildInv, UnitsAgree
<1>5. (\E t \in DOMAIN targetInfos : o \in targetInfos[t].files \cap Objects) => unit # NoFile
  BY <1>3 DEF BuildInv, UnitsAgree
<1>6. unit # NoFile => o \in ObjectFiles(unit)
  BY <1>4, TargetFilesFacts DEF ObjectFiles
<1>7. unit # NoFile => s \in SourcesOf(unit)
  BY <1>2, <1>3, <1>6 DEF SourcesOf
<1> QED
  BY <1>1, <1>2, <1>3, <1>4, <1>5, <1>6, <1>7

LEMMA RootsAreFound == BuildInv => RootContainsSource
<1> SUFFICES ASSUME BuildInv PROVE RootContainsSource
  OBVIOUS
<1>1. ObjectsAreKnown
  BY DEF ObjectsAreKnown, BuildInv, IndexesAgree, UnitsAgree
<1>2. EverySourceHasARoot
  <2> SUFFICES ASSUME NEW t \in DOMAIN targetInfos, NEW s \in SourcesOf(t)
               PROVE  getTargetsForSourceFile(s) # {}
    BY DEF EverySourceHasARoot
  <2>1. PICK top \in RootTargets : t \in TargetFiles(top)
    BY ClimbingEnds
  <2> QED
    BY <2>1, BelowHasLess DEF RootTargets, getTargetsForSourceFile
<1>3. ASSUME phase = "complete", NEW s \in Sources, first[s] # 0, infos[first[s]].linkUnit # NoFile
      PROVE  \E top \in RootTargets : /\ getRootForSource(s) = top
                                      /\ infos[first[s]].linkUnit \in TargetFiles(top)
  <2>1. infos[first[s]].linkUnit \in DOMAIN targetInfos
    BY <1>3 DEF BuildInv, BuildTypeOK, UnitsAgree
  <2>2. PICK top \in RootTargets :
           /\ infos[first[s]].linkUnit \in TargetFiles(top)
           /\ Root(infos[first[s]].linkUnit) = IF targetInfos[top].linked THEN top ELSE Throws
    BY <2>1, ClimbingEnds
  <2>3. targetInfos[top].linked
    BY <1>3 DEF BuildInv, AllLinked, RootTargets
  <2> QED
    BY <1>3, <2>2, <2>3 DEF getRootForSource
<1>4. ASSUME phase = "complete", ~ NameClash
      PROVE  ClimbingAgreesWithDescending
  <2> SUFFICES ASSUME NEW s \in Sources
               PROVE  LET linked == first[s] # 0 /\ \E t \in DOMAIN targetInfos :
                                       infos[first[s]].output \in targetInfos[t].files \cap Objects
                      IN  IF linked THEN getRootForSource(s) \in getTargetsForSourceFile(s)
                                    ELSE getRootForSource(s) = Throws
    BY DEF ClimbingAgreesWithDescending
  <2>1. CASE first[s] # 0 /\ infos[first[s]].linkUnit # NoFile
    <3>1. PICK top \in RootTargets : /\ getRootForSource(s) = top
                                     /\ infos[first[s]].linkUnit \in TargetFiles(top)
      BY <1>3, <1>4, <2>1
    <3>2. s \in SourcesOf(infos[first[s]].linkUnit)
      BY <1>4, <2>1, PreferredObject
    <3>3. s \in SourcesOf(top)
      BY <3>1, <3>2, BelowHasLess DEF RootTargets
    <3>4. getRootForSource(s) \in getTargetsForSourceFile(s)
      BY <3>1, <3>3 DEF getTargetsForSourceFile
    <3>5. \E t \in DOMAIN targetInfos : infos[first[s]].output \in targetInfos[t].files \cap Objects
      BY <1>4, <2>1, PreferredObject
    <3> QED
      BY <2>1, <3>4, <3>5
  <2>2. CASE first[s] = 0
    BY <2>2 DEF getRootForSource
  <2>3. CASE first[s] # 0 /\ infos[first[s]].linkUnit = NoFile
    <3>1. ~ \E t \in DOMAIN targetInfos : infos[first[s]].output \in targetInfos[t].files \cap Objects
      BY <1>4, <2>3, PreferredObject
    <3> QED
      BY <2>3, <3>1 DEF getRootForSource
  <2> QED
    BY <2>1, <2>2, <2>3
<1>5. ASSUME phase = "complete"
      PROVE  RequestedFileIsLinkable
  <2> SUFFICES ASSUME ~ NameClash, asked \in Sources, target # NoFile
               PROVE  kept[asked] # 0 /\ infos[first[asked]].linkUnit \in TargetFiles(target)
    BY DEF RequestedFileIsLinkable
  <2>1. /\ target = getRootForSource(asked)
        /\ first[asked] # 0 /\ infos[first[asked]].linkUnit # NoFile
        /\ kept[asked] = 0 => asked \notin SourcesOf(target)
    BY DEF BuildInv, AnswerIsKept
  <2>2. target \in RootTargets /\ infos[first[asked]].linkUnit \in TargetFiles(target)
    BY <1>3, <1>5, <2>1
  <2>3. asked \in SourcesOf(infos[first[asked]].linkUnit)
    BY <1>5, <2>1, PreferredObject
  <2> QED
    BY <2>1, <2>2, <2>3, BelowHasLess DEF RootTargets
<1> QED
  BY <1>1, <1>2, <1>4, <1>5 DEF RootContainsSource
-----------------------------------------------------------------------------
(* Linking. *)

(* The one object of a source that is compiled once is in its link unit. *)
LEMMA OnlyObject ==
    ASSUME BuildInv, phase # "compile", CompiledOnce, NEW t \in DOMAIN targetInfos, NEW o \in ObjectFiles(t)
    PROVE  /\ SourceOf(o) \in Sources /\ SourceOf(o) \in SourcesOf(t)
           /\ LinkUnit(SourceOf(o)) \in DOMAIN targetInfos
           /\ o \in ObjectFiles(LinkUnit(SourceOf(o)))
           /\ infos[first[SourceOf(o)]].output = o
<1> DEFINE i == objectFileInfos[o]
           s == SourceOf(o)
<1>1. PICK u \in DOMAIN targetInfos : o \in targetInfos[u].files \cap Objects
  BY TargetFilesFacts DEF ObjectFiles
<1>2. /\ o \in DOMAIN objectFileInfos /\ i \in DOMAIN infos
      /\ infos[i].output = o
  BY <1>1 DEF BuildInv, UnitsAgree, IndexesAgree, BuildTypeOK
<1>3. infos \in Seq(ObjectInfo) /\ DOMAIN infos = 1 .. Len(infos) /\ Len(infos) \in Nat
  BY LenProperties DEF BuildInv, BuildTypeOK
<1>4. s \in Sources /\ infos[i].source = s
  <2>1. infos[i] \in ObjectInfo
    BY <1>2, <1>3, ElementOfSeq
  <2> QED
    BY <2>1 DEF ObjectInfo, SourceOf
<1>5. i \in sourceFileInfos[s]
  BY <1>2, <1>4 DEF BuildInv, IndexesAgree
<1>6. first[s] \in sourceFileInfos[s] /\ first[s] # 0
  <2>1. first[s] \in sourceFileInfos[s]
    BY <1>4, <1>5 DEF BuildInv, FirstIsOfSource
  <2> QED
    BY <2>1, <1>3, <1>4 DEF BuildInv, IndexesAgree
<1>7. first[s] = i
  <2>1. IsFiniteSet(sourceFileInfos[s])
    <3>1. IsFiniteSet(DOMAIN infos)
      BY <1>3, FS_Interval
    <3>2. sourceFileInfos[s] \subseteq DOMAIN infos
      BY <1>4 DEF BuildInv, IndexesAgree
    <3> QED
      BY <3>1, <3>2, FS_Subset
  <2>2. Cardinality(sourceFileInfos[s]) \in Nat /\ Cardinality(sourceFileInfos[s]) <= 1
    BY <2>1, <1>4, FS_CardinalityType DEF CompiledOnce
  <2>3. Cardinality(sourceFileInfos[s]) = 1
    BY <2>1, <2>2, <1>5, FS_EmptySet
  <2>4. PICK x : sourceFileInfos[s] = {x}
    BY <2>1, <2>3, FS_Singleton
  <2> QED
    BY <2>4, <1>5, <1>6
<1>8. LinkUnit(s) # NoFile
  BY <1>1, <1>7 DEF BuildInv, UnitsAgree, LinkUnit
<1>9. LinkUnit(s) \in DOMAIN targetInfos /\ o \in targetInfos[LinkUnit(s)].files \cap Objects
  BY <1>2, <1>7, <1>8 DEF BuildInv, UnitsAgree, LinkUnit
<1>10. o \in ObjectFiles(LinkUnit(s))
  BY <1>9, TargetFilesFacts DEF ObjectFiles
<1>11. s \in SourcesOf(t)
  BY DEF SourcesOf, SourceOf
<1> QED
  BY <1>2, <1>4, <1>7, <1>9, <1>10, <1>11

(* Stubs are made of the objects outside the link unit of what is tested. *)
LEMMA StubsAreElsewhere ==
    ASSUME BuildInv, phase # "compile", CompiledOnce, NEW t \in DOMAIN targetInfos, NEW o \in ObjectFiles(t), NEW s
    PROVE  SourceOf(o) \in excludeFind(s, t) <=> o \notin ObjectFiles(LinkUnit(s)) /\ SourceOf(o) \notin CxxSources
<1>1. ASSUME NEW p \in ObjectFiles(t), SourceOf(p) = SourceOf(o)
      PROVE  p = o
  BY <1>1, OnlyObject
<1> QED
  BY <1>1 DEF excludeFind

(* What the requests have in common. *)
Stubbed(r, o) == SourceOf(o) \in r.stubs
Proper(r) ==
    /\ r.target \in DOMAIN targetInfos
    /\ \A o \in ObjectFiles(r.target) : SourceOf(o) \in r.files => ~ Stubbed(r, o)

LEMMA RequestsAreProper ==
    ASSUME BuildInv, Loaded, CompiledOnce, NEW r \in FileRequests \cup ProjectRequests \cup FolderRequests
    PROVE  Proper(r)
<1>0. phase # "compile"
  BY DEF Loaded
<1>1. ASSUME NEW s, NEW t \in DOMAIN targetInfos, NEW b \in BOOLEAN, r = FileRequest(s, t, b)
      PROVE  Proper(r)
  <2>1. r.target = t /\ r.files = {s} /\ r.stubs \in {excludeFind(s, t), {}}
    BY <1>1 DEF FileRequest
  <2> QED
    BY <2>1, <1>0, OnlyObject, StubsAreElsewhere DEF Proper, Stubbed
<1>2. ASSUME NEW t \in DOMAIN targetInfos, r = ProjectRequest(SourcesOf(t), t)
      PROVE  Proper(r)
  BY <1>2 DEF ProjectRequest, Proper, Stubbed
<1>3. ASSUME NEW s, NEW t \in DOMAIN targetInfos, NEW b \in BOOLEAN,
             r = FolderRequest({x \in SourcesOf(t) : LinkUnit(x) = LinkUnit(s)}, s, t, b)
      PROVE  Proper(r)
  <2>1. /\ r.target = t /\ r.files = {x \in SourcesOf(t) : LinkUnit(x) = LinkUnit(s)}
        /\ r.stubs \in {excludeFind(s, t), {}}
    BY <1>3 DEF FolderRequest
  <2> QED
    BY <2>1, <1>0, OnlyObject, StubsAreElsewhere DEF Proper, Stubbed
<1>4. CASE r \in FileRequests
  <2>1. PICK p \in Tested, b \in BOOLEAN : r = FileRequest(p[1], p[2], b)
    BY <1>4 DEF FileRequests, Linked
  <2> QED
    BY <1>1, <2>1 DEF Tested
<1>5. CASE r \in ProjectRequests
  BY <1>2, <1>5 DEF ProjectRequests, Linked
<1>6. CASE r \in FolderRequests
  <2>1. PICK p \in Tested, b \in BOOLEAN :
           r = FolderRequest({x \in SourcesOf(p[2]) : LinkUnit(x) = LinkUnit(p[1])}, p[1], p[2], b)
    BY <1>6 DEF FolderRequests, Linked
  <2> QED
    BY <1>3, <2>1 DEF Tested
<1> QED
  BY <1>4, <1>5, <1>6

Body(r, o) == IF Stubbed(r, o) THEN "stub" ELSE "source"

LEMMA Bodies ==
    ASSUME NEW r, Proper(r), NEW o \in ObjectFiles(r.target)
    PROVE  Bitcode(r, o).body = Body(r, o) /\ addObjectFile(r, o).body = Body(r, o)
<1>1. addObjectFile(r, o).body = Body(r, o)
  BY DEF addObjectFile, Body, Stubbed
<1>2. CASE SourceOf(o) \in r.files
  BY <1>1, <1>2 DEF Proper, Bitcode, Body
<1>3. CASE SourceOf(o) \in r.stubs \ r.files
  BY <1>1, <1>3 DEF Bitcode, Body, Stubbed
<1>4. CASE SourceOf(o) \notin r.stubs \cup r.files
  BY <1>1, <1>4 DEF Bitcode, Body, Stubbed
<1> QED
  BY <1>2, <1>3, <1>4

LEMMA UnitContents ==
    ASSUME NEW r, Proper(r), NEW u \in TargetFiles(r.target), NEW form
    PROVE  /\ Module(r, u).content = {<<o, Body(r, o)>> : o \in ObjectFiles(u)}
           /\ Native(r, u, form).content = {<<o, Body(r, o)>> : o \in ObjectFiles(u)}
           /\ RootModule(r).content = Module(r, r.target).content
<1>1. ObjectFiles(u) \subseteq ObjectFiles(r.target)
  BY BelowHasLess DEF Proper
<1>2. \A o \in ObjectFiles(u) : Bitcode(r, o).body = Body(r, o) /\ addObjectFile(r, o).body = Body(r, o)
  BY <1>1, Bodies
<1>3. /\ Module(r, u).content = {<<o, Bitcode(r, o).body>> : o \in ObjectFiles(u)}
      /\ Native(r, u, form).content = {<<o, addObjectFile(r, o).body>> : o \in ObjectFiles(u)}
  BY DEF Module, Native, Content
<1>4. RootModule(r).content = Module(r, r.target).content
  BY DEF RootModule, Module
<1> QED
  BY <1>2, <1>3, <1>4

LEMMA TestsAreOfKlee == BuildInv => TestsRunWhatKleeRan
<1> SUFFICES ASSUME BuildInv, Loaded, CompiledOnce,
                    NEW r \in FileRequests \cup ProjectRequests \cup FolderRequests
             PROVE  /\ TestOutput(r).content = RootModule(r).content
                    /\ \A o \in ObjectFiles(r.target) : SourceOf(o) \in r.files =>
                          <<o, "source">> \in TestOutput(r).content
  BY DEF TestsRunWhatKleeRan
<1>1. Proper(r)
  BY RequestsAreProper
<1>2. r.target \in TargetFiles(r.target)
  BY <1>1, TargetFilesFacts DEF Proper
<1>3. /\ TestOutput(r).content = {<<o, Body(r, o)>> : o \in ObjectFiles(r.target)}
      /\ RootModule(r).content = {<<o, Body(r, o)>> : o \in ObjectFiles(r.target)}
  BY <1>1, <1>2, UnitContents DEF TestOutput
<1>4. \A o \in ObjectFiles(r.target) : SourceOf(o) \in r.files => Body(r, o) = "source"
  BY <1>1 DEF Proper, Body
<1> QED
  BY <1>3, <1>4

LEMMA Joins ==
    /\ Join({}) = "none" /\ Join({"no"}) = "no" /\ Join({"all"}) = "all"
    /\ Join({"no", "all"}) = "any"
<1>1. Cardinality({"no"}) = 1 /\ Cardinality({"all"}) = 1 /\ IsFiniteSet({"no"})
  BY FS_Singleton
<1>2. Cardinality({"no"} \cup {"all"}) = 2
  BY <1>1, FS_AddElement
<1>3. {"no"} \cup {"all"} = {"no", "all"} /\ {"no", "all"} # {}
  OBVIOUS
<1> QED
  BY <1>1, <1>2, <1>3 DEF Join

LEMMA UnitTypeTells ==
    ASSUME NEW r, NEW u, UnitType(r, u) # "none"
    PROVE  \/ UnitType(r, u) = "no" /\ \A o \in ObjectFiles(u) : ~ Stubbed(r, o)
           \/ UnitType(r, u) = "all" /\ \A o \in ObjectFiles(u) : Stubbed(r, o)
           \/ UnitType(r, u) = "any" /\ \E o \in ObjectFiles(u) : Stubbed(r, o)
<1> DEFINE types == {ObjectType(r, o) : o \in ObjectFiles(u)}
<1>1. \A o \in ObjectFiles(u) : ObjectType(r, o) = IF Stubbed(r, o) THEN "all" ELSE "no"
  BY DEF ObjectType, Stubbed
<1>2. UnitType(r, u) = Join(types)
  BY DEF UnitType
<1>3. /\ "no" \in types <=> \E o \in ObjectFiles(u) : ~ Stubbed(r, o)
      /\ "all" \in types <=> \E o \in ObjectFiles(u) : Stubbed(r, o)
      /\ types \subseteq {"no", "all"}
  BY <1>1
<1> HIDE DEF types
<1>4. types \in {{}, {"no"}, {"all"}, {"no", "all"}}
  BY <1>3
<1> QED
  BY <1>2, <1>3, <1>4, Joins

(* What a suffix says of an object: stubbed or not. *)
SaidStub(suffix, o) ==
    \/ suffix = StubSuffix
    \/ /\ suffix \notin {NoSuffix, StubSuffix}
       /\ o \notin ObjectFiles(suffix) /\ SourceOf(o) \notin CxxSources

LEMMA SuffixTells ==
    ASSUME BuildInv, Loaded, CompiledOnce, NEW r \in FileRequests \cup ProjectRequests,
           NEW u \in TargetFiles(r.target), NEW o \in ObjectFiles(u)
    PROVE  Stubbed(r, o) <=> SaidStub(Suffix(r, UnitType(r, u)), o)
<1>0. phase # "compile" /\ NoSuffix # StubSuffix
  BY DEF Loaded, NoSuffix, StubSuffix
<1>1. UnitType(r, u) # "none"
  BY DEF FileRequests, ProjectRequests, Linked, CanBeLinked
<1>2. CASE UnitType(r, u) = "no"
  <2>1. Suffix(r, UnitType(r, u)) = NoSuffix /\ ~ Stubbed(r, o)
    BY <1>2, UnitTypeTells DEF Suffix
  <2> QED
    BY <1>0, <2>1 DEF SaidStub
<1>3. CASE UnitType(r, u) = "all"
  <2>1. Suffix(r, UnitType(r, u)) = StubSuffix /\ Stubbed(r, o)
    BY <1>3, UnitTypeTells DEF Suffix
  <2> QED
    BY <1>0, <2>1 DEF SaidStub
<1>4. CASE UnitType(r, u) = "any"
  <2>1. Suffix(r, UnitType(r, u)) = r.suffix /\ \E p \in ObjectFiles(u) : Stubbed(r, p)
    BY <1>4, UnitTypeTells DEF Suffix
  <2>2. r \notin ProjectRequests
    <3>1. r \in ProjectRequests => r.stubs = {}
      BY DEF ProjectRequests, Linked, ProjectRequest
    <3> QED
      BY <2>1, <3>1 DEF Stubbed
  <2>3. PICK p \in Tested, b \in BOOLEAN : r = FileRequest(p[1], p[2], b)
    BY <2>2 DEF FileRequests, Linked
  <2> DEFINE s == p[1]
             t == p[2]
  <2>4. /\ t \in DOMAIN targetInfos /\ s \in SourcesOf(t) /\ r.target = t /\ r.suffix = LinkUnit(s)
        /\ r.stubs \in {excludeFind(s, t), {}}
    BY <2>3 DEF Tested, FileRequest
  <2>5. r.stubs = excludeFind(s, t)
    BY <2>1, <2>4 DEF Stubbed
  <2>6. LinkUnit(s) \in Targets
    <3>1. PICK q \in ObjectFiles(t) : s = SourceOf(q)
      BY <2>4 DEF SourcesOf, SourceOf
    <3> QED
      BY <3>1, <2>4, <1>0, OnlyObject DEF BuildInv, BuildTypeOK
  <2>7. LinkUnit(s) \notin {NoSuffix, StubSuffix}
    BY <2>6, LinkingAssumption DEF NoSuffix, StubSuffix
  <2>8. o \in ObjectFiles(t)
    BY <2>4, BelowHasLess
  <2>9. Stubbed(r, o) <=> o \notin ObjectFiles(LinkUnit(s)) /\ SourceOf(o) \notin CxxSources
    BY <2>4, <2>5, <2>8, <1>0, StubsAreElsewhere DEF Stubbed
  <2> QED
    BY <2>1, <2>4, <2>7, <2>9 DEF SaidStub
<1> QED
  BY <1>1, <1>2, <1>3, <1>4, UnitTypeTells

(* What a name says is in the file, whatever request it was made for. *)
OfOne == {"klee", "bitcode", "stub bitcode", "object", "stub object"}
UnitNamed(name) == IF name[1] \in {"module", "root module"} THEN CHOOSE v \in Targets : Stem[v] = name[2]
                   ELSE name[2]
Told(name) ==
    IF name[1] \in OfOne
    THEN {<<name[2], IF name[1] \in {"stub bitcode", "stub object"} THEN "stub" ELSE "source">>}
    ELSE {<<o, IF SaidStub(name[3], o) THEN "stub" ELSE "source">> : o \in ObjectFiles(UnitNamed(name))}

LEMMA ObjectTells ==
    ASSUME BuildInv, Loaded, CompiledOnce, NEW r \in FileRequests \cup ProjectRequests,
           NEW o \in ObjectFiles(r.target),
           NEW m, m \in {Bitcode(r, o), addObjectFile(r, o)}
    PROVE  {<<m.name[2], m.body>>} = Told(m.name)
<1>1. r.suffix = NoSuffix => r.stubs = {}
  <2>1. CASE r \in ProjectRequests
    BY <2>1 DEF ProjectRequests, Linked, ProjectRequest
  <2>2. CASE r \in FileRequests
    <3>1. PICK p \in Tested, b \in BOOLEAN : r = FileRequest(p[1], p[2], b)
      BY <2>2 DEF FileRequests, Linked
    <3>2. PICK q \in ObjectFiles(p[2]) : p[1] = SourceOf(q)
      BY DEF Tested, SourcesOf, SourceOf
    <3>3. LinkUnit(p[1]) \in Targets
      BY <3>2, OnlyObject DEF Tested, BuildInv, BuildTypeOK, Loaded
    <3>4. r.suffix = LinkUnit(p[1])
      BY <3>1 DEF FileRequest
    <3> QED
      BY <3>3, <3>4, LinkingAssumption DEF NoSuffix
  <2> QED
    BY <2>1, <2>2
<1>2. CASE m = addObjectFile(r, o)
  BY <1>2 DEF addObjectFile, Told, OfOne
<1>3. CASE m = Bitcode(r, o)
  <2>1. CASE SourceOf(o) \in r.files
    BY <1>3, <2>1 DEF Bitcode, Told, OfOne
  <2>2. CASE SourceOf(o) \in r.stubs \ r.files
    <3>1. m = [name |-> <<"stub bitcode", SourceOf(o)>>, body |-> "stub"]
      BY <1>1, <1>3, <2>2 DEF Bitcode
    <3> QED
      BY <3>1 DEF Told, OfOne
  <2>3. CASE SourceOf(o) \notin r.stubs \cup r.files
    BY <1>3, <2>3 DEF Bitcode, Told, OfOne
  <2> QED
    BY <2>1, <2>2, <2>3
<1> QED
  BY <1>2, <1>3

LEMMA UnitTells ==
    ASSUME BuildInv, Loaded, CompiledOnce, NEW r \in FileRequests \cup ProjectRequests,
           NEW u \in TargetFiles(r.target),
           NEW f, \/ f = Module(r, u)
                  \/ f = RootModule(r) /\ u = r.target
                  \/ \E form \in Forms(r, u) : f = Native(r, u, form)
    PROVE  f.content = Told(f.name)
<1> DEFINE suffix == Suffix(r, UnitType(r, u))
           said == {<<o, IF SaidStub(suffix, o) THEN "stub" ELSE "source">> : o \in ObjectFiles(u)}
<1>1. Proper(r)
  BY RequestsAreProper
<1>2. u \in Targets
  BY <1>1, TargetFilesFacts DEF Proper, BuildInv, BuildTypeOK
<1>3. \A o \in ObjectFiles(u) : Body(r, o) = IF SaidStub(suffix, o) THEN "stub" ELSE "source"
  BY SuffixTells DEF Body
<1>4. f.content = said
  <2>1. f.content = {<<o, Body(r, o)>> : o \in ObjectFiles(u)}
    BY <1>1, UnitContents
  <2> HIDE DEF suffix
  <2> QED
    BY <2>1, <1>3
<1>5. (CHOOSE v \in Targets : Stem[v] = Stem[u]) = u
  BY <1>2, LinkingAssumption
<1> HIDE DEF suffix
<1>6. ASSUME NEW name, name[1] \notin OfOne, UnitNamed(name) = u, name[3] = suffix, f.name = name
      PROVE  f.content = Told(f.name)
  BY <1>4, <1>6 DEF Told
<1>7. CASE f = Module(r, u)
  <2>1. f.name = <<"module", Stem[u], suffix>>
    BY <1>7 DEF Module, suffix
  <2>2. UnitNamed(<<"module", Stem[u], suffix>>) = u
    BY <1>5 DEF UnitNamed
  <2>3. <<"module", Stem[u], suffix>>[1] \notin OfOne
    BY DEF OfOne
  <2> QED
    BY <1>6, <2>1, <2>2, <2>3
<1>8. CASE f = RootModule(r) /\ u = r.target
  <2>1. CASE r.target \in Programs
    BY <1>7, <1>8, <2>1 DEF RootModule
  <2>2. CASE r.target \notin Programs
    <3>1. Module(r, u).name = <<"module", Stem[u], suffix>>
      BY DEF Module, suffix
    <3>2. f.name = <<"root module", Module(r, u).name[2], Module(r, u).name[3]>>
      BY <1>8, <2>2 DEF RootModule
    <3>3. Module(r, u).name[2] = Stem[u]
      BY <3>1
    <3>4. Module(r, u).name[3] = suffix
      BY <3>1
    <3>5. f.name = <<"root module", Stem[u], suffix>>
      BY <3>2, <3>3, <3>4
    <3>6. UnitNamed(<<"root module", Stem[u], suffix>>) = u
      BY <1>5 DEF UnitNamed
    <3>7. <<"root module", Stem[u], suffix>>[1] \notin OfOne
      BY DEF OfOne
    <3> QED
      BY <1>6, <3>5, <3>6, <3>7
  <2> QED
    BY <2>1, <2>2
<1>9. ASSUME NEW form \in Forms(r, u), f = Native(r, u, form)
      PROVE  f.content = Told(f.name)
  <2>1. form \in {"shared", "relocatable", "library"}
    BY DEF Forms
  <2>2. f.name = <<form, u, suffix>>
    BY <1>9 DEF Native, suffix
  <2>3. UnitNamed(<<form, u, suffix>>) = u
    BY <2>1 DEF UnitNamed
  <2>4. <<form, u, suffix>>[1] \notin OfOne
    BY <2>1 DEF OfOne
  <2> QED
    BY <1>6, <2>2, <2>3, <2>4
<1> QED
  BY <1>7, <1>8, <1>9

LEMMA NamesTell == BuildInv => NamesTellContents
<1> SUFFICES ASSUME BuildInv, Loaded, CompiledOnce,
                    NEW r \in FileRequests \cup ProjectRequests, NEW f \in Built(r)
             PROVE  f.content = Told(f.name)
  BY DEF NamesTellContents
<1>1. r.target \in TargetFiles(r.target)
  BY RequestsAreProper, TargetFilesFacts DEF Proper
<1>2. ASSUME NEW o \in ObjectFiles(r.target), NEW m \in {Bitcode(r, o), addObjectFile(r, o)},
             f = [name |-> m.name, content |-> {<<m.name[2], m.body>>}]
      PROVE  f.content = Told(f.name)
  BY <1>2, ObjectTells
<1>3. ASSUME NEW s, f = [name |-> <<"bitcode", s>>, content |-> {<<s, "source">>}]
      PROVE  f.content = Told(f.name)
  BY <1>3 DEF Told, OfOne
<1>4. ASSUME NEW u \in TargetFiles(r.target),
             f = Module(r, u) \/ \E form \in Forms(r, u) : f = Native(r, u, form)
      PROVE  f.content = Told(f.name)
  BY <1>4, UnitTells
<1>5. CASE f = RootModule(r)
  BY <1>1, <1>5, UnitTells
<1>6. \/ \E o \in ObjectFiles(r.target) : \E m \in {Bitcode(r, o), addObjectFile(r, o)} :
            f = [name |-> m.name, content |-> {<<m.name[2], m.body>>}]
      \/ \E s : f = [name |-> <<"bitcode", s>>, content |-> {<<s, "source">>}]
      \/ \E u \in TargetFiles(r.target) :
            f = Module(r, u) \/ \E form \in Forms(r, u) : f = Native(r, u, form)
      \/ f = RootModule(r)
  BY DEF Built
<1> QED
  BY <1>2, <1>3, <1>4, <1>5, <1>6
-----------------------------------------------------------------------------
(* The whole. *)

LEMMA ImportIsBuild == [ImportNext]_importVars => [BuildNext]_buildVars
  BY DEF ImportNext, OpenJsonFiles, importVars

(* What the IDE calls configured is until somebody changes the directory,  *)
(* between requests no file there is of a build that broke off, and whoever *)
(* opens the two files opens those of one build that has gone through:      *)
(* UserProjectConfiguration.cpp and the dialogs of both IDEs.               *)
THEOREM ConfigurationIsComplete == ImportSpec => []ConfiguredIsComplete
<1>1. ConfigInv => ConfiguredIsComplete
  <2> SUFFICES ASSUME ConfigInv PROVE ConfiguredIsComplete
    OBVIOUS
  <2>1. SaysTheTruth
    BY DEF SaysTheTruth, ConfigInv, ShowsTheLast, LastIsTrue
  <2>2. NothingIsHalfBuilt
    BY DEF NothingIsHalfBuilt, ConfigInv, DiskIsConsistent, HalfBuilt, Idle
  <2> QED
    BY <2>1, <2>2 DEF ConfiguredIsComplete, ConfigInv
<1> QED
  BY <1>1, InitConfig, ConfigStep, PTL DEF ImportSpec

LEMMA DatabaseIsConsistent == ImportSpec => []BuildInv
<1>1. ImportInit => BuildInv
  BY InitBuildInv DEF ImportInit
<1>2. BuildInv /\ [ImportNext]_importVars => BuildInv'
  BY ImportIsBuild, BuildStep
<1> QED
  BY <1>1, <1>2, PTL DEF ImportSpec

(* The tables of the database agree, every linked source has a root target, *)
(* climbing from a source and descending to it agree, and the file that is  *)
(* asked for can be linked with what its database keeps                     *)
(* (ProjectBuildDatabase, getRootForSource, TargetBuildDatabase).           *)
THEOREM RootsContainSources == ImportSpec => []RootContainsSource
  BY DatabaseIsConsistent, RootsAreFound, PTL

(* The program a test runs is made of the bodies KLEE has run, and what is *)
(* tested is in it itself (Linker, NativeMakefilePrinter).                 *)
THEOREM KleeRanWhatTestsRun == ImportSpec => []TestsRunWhatKleeRan
  BY DatabaseIsConsistent, TestsAreOfKlee, PTL

(* What the server makes of the command lines of a project compiles and links *)
(* what it should, whatever the lines are (CommandsProofs): KleeGenerator,     *)
(* Linker and NativeMakefilePrinter.                                          *)
THEOREM CommandsAreRight == ImportSpec => []CommandsDoTheirTask
<1>1. CommandsDoTheirTask
  BY CompileLinesAreRight, LinkLinesAreRight DEF CommandsDoTheirTask
<1> QED
  BY <1>1, PTL

(* Whatever request a file was made for, its name tells what is in it, so *)
(* that later requests can reuse it (LinkerUtils::applySuffix, Paths).    *)
THEOREM ContentsAreTold == ImportSpec => []NamesTellContents
  BY DatabaseIsConsistent, NamesTell, PTL
=============================================================================
