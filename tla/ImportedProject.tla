--------------------------- MODULE ImportedProject ---------------------------
(***************************************************************************)
(* A project from its configuration to the answer for a target: what the   *)
(* dialogs of the IDE leave on the disk is what the database is read from. *)
(* The request that reads it comes from the same IDE, whose lock it takes; *)
(* gen.run sends it whatever its own check of the project has come to.     *)
(***************************************************************************)
EXTENDS Linking, ProjectConfiguration, Requests

VARIABLE loading   \* a ProjectBuildDatabase has opened its files

importVars == <<configVars, buildVars, loading>>

ImportInit == ConfigInit /\ BuildInit /\ loading = FALSE

(* The constructor of ProjectBuildDatabase, which refuses missing files. *)
OpenJsonFiles ==
    /\ ~ loading /\ Idle
    /\ disk.compile # "none" /\ disk.link # "none"
    /\ loading' = TRUE
    /\ UNCHANGED <<configVars, buildVars>>

ImportNext ==
    \/ ~ loading /\ ConfigNext /\ UNCHANGED <<buildVars, loading>>
    \/ OpenJsonFiles
    \/ loading /\ BuildNext /\ UNCHANGED <<configVars, loading>>

ImportSpec == ImportInit /\ [][ImportNext]_importVars

(***************************************************************************)
(* What the IDE calls configured is, and whoever reads the two files reads *)
(* those of one build that has gone through.                               *)
(***************************************************************************)
ConfiguredIsComplete ==
    /\ SaysTheTruth
    /\ NothingIsHalfBuilt
    /\ loading => Complete
-----------------------------------------------------------------------------
AtOpening == loading /\ phase = "compile" /\ length = 0

(* The command lines of a database, before any of them is read: what is made *)
(* of them compiles and links what it should (CompileLinesDoTheirTask and    *)
(* LinkLinesDoTheirTask of Commands).                                        *)
CommandsDoTheirTask ==
    AtOpening => CompileLinesDoTheirTask /\ LinkLinesDoTheirTask

(* The names Linking takes for distinct, and those by which the files of *)
(* a request are found later (Paths): every source has files of its own but  *)
(* those that are named without its extension, tests and stubs lead back to  *)
(* their sources, what is cleared from the stubs is only old stubs, and what  *)
(* is cleaned before tests are run is only coverage.                         *)
NamesAreOwn ==
    AtOpening =>
        /\ \A c \in ProjectContexts :
              /\ FilesAreOwn(c) /\ SourcesAreFound(c) /\ OnlyOldStubsAreRemoved(c)
              /\ SymbolsAreOwn(c) /\ ReportsAreFound(c) /\ OnlyCoverageIsCleaned(c)
        /\ LibrariesAreOwn

(* What the server makes of a message is what was typed or chosen (Requests): *)
(* whatever the working directory, and wherever the server has the project,   *)
(* it opens that project with commands of its files, tests the files that were meant, for the target     *)
(* that was meant if it is still there, within the limits that were set, and  *)
(* runs the tests that were meant and no others.                              *)
RequestsMeanWhatIsChosen ==
    AtOpening =>
        /\ SettingsMean
        /\ \A c \in ProjectContexts :
              /\ CommandLinesMean(c) /\ ChoicesMean(c) /\ TargetsAreFound(c) /\ RunsMean(c)
              /\ CommandsAreMoved(c)
=============================================================================
