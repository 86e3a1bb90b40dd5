------------------------ MODULE ProjectConfiguration ------------------------
(***************************************************************************)
(* How a project gets the two files its database is read from: the dialog  *)
(* of the IDE (projectConfig.ts, ProjectConfigurationHandler.kt) and the   *)
(* handler ConfigureProject of the server (UserProjectConfiguration).      *)
(*                                                                         *)
(* One IDE works on the project, several of its dialogs at a time.  The    *)
(* user changes the build directory between requests only.                 *)
(***************************************************************************)
EXTENDS Sequences, SequencesExt

CONSTANTS Dialogs,       \* dialogs of the IDE
          MaxChanges     \* bound on the user's changes to the directory

Ides == {"VS Code", "CLion"}
Commands == {<<"script">>, <<"cmake", "make">>, <<"make">>}
Contents == {"none", "partial", "whole"}
Statuses == {"IS_OK", "BUILD_DIR_NOT_FOUND", "COMPILE_COMMANDS_JSON_NOT_FOUND", "LINK_COMMANDS_JSON_NOT_FOUND",
             "BUILD_DIR_CREATION_FAILED", "RUN_JSON_GENERATION_FAILED", "BUILD_DIR_SAME_AS_PROJECT"}
Modes == {"CHECK", "CREATE_BUILD_DIR", "GENERATE_JSON_FILES", "ALL"}

VARIABLES project,   \* what does not change: the IDE, commands, and whether the directory is in the project
          disk,      \* the build directory and its compile_commands.json and link_commands.json
          dialog,    \* [d] the mode asked for, and what the user sees
          handler,   \* [d] where the server is with the request of d
          todo,      \* [d] commands left to run; <<"failed">> after an exception
          answers,   \* [d] what the server has written
          current,   \* [d] history: nothing has changed since the server's last answer
          changes    \* changes the user has made

configVars == <<project, disk, dialog, handler, todo, answers, current, changes>>

ConfigTypeOK ==
    /\ project \in [ide : Ides, commands : Commands, inside : BOOLEAN]
    /\ disk \in [dir : BOOLEAN, compile : Contents, link : Contents]
    /\ dialog \in [Dialogs -> [mode : Modes, shows : {"nothing", "progress", "dirMissing", "jsonMissing", "configured", "failed"}]]
    /\ handler \in [Dialogs -> {"none", "waiting", "check", "remove", "create", "run", "conclude", "done"}]
    /\ \A d \in Dialogs : answers[d] \in Seq(Statuses)

ConfigInit ==
    /\ project \in [ide : Ides, commands : Commands, inside : BOOLEAN]
    /\ disk = [dir |-> FALSE, compile |-> "none", link |-> "none"]
    /\ dialog = [d \in Dialogs |-> [mode |-> "CHECK", shows |-> "nothing"]]
    /\ handler = [d \in Dialogs |-> "none"]
    /\ todo = [d \in Dialogs |-> <<>>] /\ answers = todo
    /\ current = [d \in Dialogs |-> FALSE] /\ changes = 0

(* acquireLock: one request of a client at a time. *)
Idle == \A d \in Dialogs : handler[d] \in {"none", "waiting", "done"}
-----------------------------------------------------------------------------
(* The IDE. *)

Send(d, mode) ==
    /\ dialog' = [dialog EXCEPT ![d] = [mode |-> mode, shows |-> "progress"]]
    /\ handler' = [handler EXCEPT ![d] = "waiting"]
    /\ answers' = [answers EXCEPT ![d] = <<>>]
    /\ todo' = [todo EXCEPT ![d] = <<>>]
    /\ current' = [current EXCEPT ![d] = FALSE]
    /\ UNCHANGED <<project, disk, changes>>

Free(d) == handler[d] \in {"none", "done"}

(* configure(configMode): a command of the user, or the first connection. *)
configure(d, mode) ==
    /\ dialog[d].shows \in {"nothing", "configured", "failed"} /\ Free(d)
    /\ Send(d, mode)

(* VS Code resolves its promise with the first answer that is no progress, *)
(* CLion handles the last one of the stream.                               *)
Answer(d) == IF project.ide = "VS Code" THEN Head(answers[d]) ELSE Last(answers[d])
Answered(d) ==
    /\ dialog[d].shows = "progress"
    /\ answers[d] # <<>>
    /\ project.ide = "CLion" => handler[d] = "done"

Show(d, what) ==
    /\ dialog' = [dialog EXCEPT ![d].shows = what]
    /\ UNCHANGED <<project, disk, handler, todo, answers, current, changes>>

(* CheckProjectConfigurationHandler, GenerateJsonHandler, CreateBuildDirHandler *)
Seen(mode, answer) ==
    CASE answer = "IS_OK" -> "configured"
      [] mode \in {"CHECK", "ALL"} /\ answer = "BUILD_DIR_NOT_FOUND" -> "dirMissing"
      [] mode \in {"CHECK", "ALL"} /\ answer \in {"COMPILE_COMMANDS_JSON_NOT_FOUND", "LINK_COMMANDS_JSON_NOT_FOUND"} ->
            "jsonMissing"
      [] OTHER -> "failed"
TakeAnswer(d) ==
    /\ Answered(d)
    /\ ~ (dialog[d].mode = "CREATE_BUILD_DIR" /\ Answer(d) = "IS_OK")
    /\ Show(d, Seen(dialog[d].mode, Answer(d)))

(* Whoever has had the directory created goes on to check the project. *)
handleBuildDirCreationRequest(d) ==
    /\ Answered(d) /\ Free(d)
    /\ dialog[d].mode = "CREATE_BUILD_DIR" /\ Answer(d) = "IS_OK"
    /\ Send(d, "CHECK")

handleBuildDirNotFound(d) == dialog[d].shows = "dirMissing" /\ Free(d) /\ Send(d, "CREATE_BUILD_DIR")
handleJsonFilesNotFound(d) == dialog[d].shows = "jsonMissing" /\ Free(d) /\ Send(d, "GENERATE_JSON_FILES")

(* The user declines, or cancels a request; the server goes on. *)
Decline(d) == dialog[d].shows \in {"progress", "dirMissing", "jsonMissing"} /\ Show(d, "failed")

Outdated(ds) == [d \in Dialogs |-> current[d] /\ d \notin ds]
UserChanges ==
    /\ Idle /\ changes < MaxChanges /\ changes' = changes + 1
    /\ disk' \in {[dir |-> FALSE, compile |-> "none", link |-> "none"],
                  [dir |-> TRUE, compile |-> "whole", link |-> "whole"]}
                 \cup (IF disk.dir THEN {[disk EXCEPT !.compile = "none"], [disk EXCEPT !.link = "none"]} ELSE {})
    /\ current' = Outdated(Dialogs)
    /\ UNCHANGED <<project, dialog, handler, todo, answers>>
-----------------------------------------------------------------------------
(* The server: ConfigureProject. *)

FirstStep(mode) == CASE mode = "CHECK" -> "check" [] mode = "CREATE_BUILD_DIR" -> "create"
                     [] mode = "GENERATE_JSON_FILES" -> "run" [] OTHER -> "remove"
Begin(d) ==
    /\ handler[d] = "waiting" /\ Idle
    /\ handler' = [handler EXCEPT ![d] = FirstStep(dialog[d].mode)]
    /\ todo' = [todo EXCEPT ![d] = project.commands]
    /\ UNCHANGED <<project, disk, dialog, answers, current, changes>>

(* A step of the handler of d: the answers it writes, where it goes on, what *)
(* it makes of the directory.                                                *)
Step(d, at, said, next, after) ==
    /\ handler[d] = at
    /\ handler' = [handler EXCEPT ![d] = next]
    /\ answers' = [answers EXCEPT ![d] = @ \o said]
    /\ disk' = after
    /\ current' = IF after # disk THEN [Outdated(Dialogs) EXCEPT ![d] = said # <<>>]
                  ELSE [current EXCEPT ![d] = @ \/ said # <<>>]
    /\ UNCHANGED <<project, dialog, changes>>

CheckProjectConfiguration(d) ==
    /\ Step(d, "check", <<CASE ~ disk.dir -> "BUILD_DIR_NOT_FOUND"
                            [] disk.dir /\ disk.compile = "none" -> "COMPILE_COMMANDS_JSON_NOT_FOUND"
                            [] disk.dir /\ disk.compile # "none" /\ disk.link = "none" -> "LINK_COMMANDS_JSON_NOT_FOUND"
                            [] OTHER -> "IS_OK">>, "done", disk)
    /\ UNCHANGED todo

(* createBuildDirectory, for two modes. *)
createBuildDirectory(d) ==
    /\ \/ Step(d, "create", <<"IS_OK">>, IF dialog[d].mode = "ALL" THEN "run" ELSE "done", [disk EXCEPT !.dir = TRUE])
       \/ Step(d, "create", <<"BUILD_DIR_CREATION_FAILED">>, "done", disk)
    /\ UNCHANGED todo

(* The start of RunProjectReConfigurationCommands: a directory outside the   *)
(* project is not removed, which is reported; removing may fail half-way.    *)
RemoveBuildDir(d) ==
    /\ IF project.inside
       THEN \/ Step(d, "remove", <<>>, "create", [dir |-> FALSE, compile |-> "none", link |-> "none"])
            \/ \E after \in {disk, [disk EXCEPT !.compile = "none"], [disk EXCEPT !.link = "none"]} :
                  disk.dir /\ Step(d, "remove", <<"BUILD_DIR_CREATION_FAILED">>, "done", after)
       ELSE Step(d, "remove", <<"BUILD_DIR_SAME_AS_PROJECT">>, "create", disk)
    /\ UNCHANGED todo

(* One command; the build runs under bear, which writes both files when it   *)
(* ends, also when some of the build failed, but not when it is killed.      *)
RunProjectConfigurationCommand(d) ==
    /\ todo[d] # <<>>
    /\ LET bear == Head(todo[d]) # "cmake"
           Written(content) == [disk EXCEPT !.compile = content, !.link = content]
       IN  \/ /\ disk.dir
              /\ Step(d, "run", <<>>, IF Len(todo[d]) = 1 THEN "conclude" ELSE "run",
                      IF bear THEN Written("whole") ELSE disk)
              /\ todo' = [todo EXCEPT ![d] = Tail(@)]
           \/ /\ \E after \in {disk} \cup (IF bear /\ disk.dir THEN {Written("partial")} ELSE {}) :
                    Step(d, "run", <<>>, "conclude", after)
              /\ todo' = [todo EXCEPT ![d] = <<"failed">>]

(* Mutant of Conclusion: what a failed build has left is kept. *)
KeepPartial(failed) == IF failed THEN [said |-> "RUN_JSON_GENERATION_FAILED", disk |-> disk]
                       ELSE [said |-> "IS_OK", disk |-> disk]

(* The end of RunProjectConfigurationCommands and its catch clause. *)
Conclusion(failed) ==
    IF failed THEN [said |-> "RUN_JSON_GENERATION_FAILED", disk |-> [disk EXCEPT !.compile = "none", !.link = "none"]]
    ELSE [said |-> "IS_OK", disk |-> disk]
RunProjectConfigurationCommands(d) ==
    LET end == Conclusion(todo[d] # <<>>)
    IN  /\ Step(d, "conclude", <<end.said>>, "done", end.disk)
        /\ todo' = [todo EXCEPT ![d] = <<>>]

ConfigNext ==
    \/ \E d \in Dialogs :
          \/ \E mode \in {"CHECK", "ALL"} : configure(d, mode)
          \/ TakeAnswer(d) \/ handleBuildDirCreationRequest(d) \/ handleBuildDirNotFound(d)
          \/ handleJsonFilesNotFound(d) \/ Decline(d)
          \/ Begin(d) \/ CheckProjectConfiguration(d) \/ createBuildDirectory(d) \/ RemoveBuildDir(d)
          \/ RunProjectConfigurationCommand(d) \/ RunProjectConfigurationCommands(d)
    \/ UserChanges

ConfigSpec == ConfigInit /\ [][ConfigNext]_configVars
-----------------------------------------------------------------------------
Complete == disk.dir /\ disk.compile = "whole" /\ disk.link = "whole"

(* What the IDE has called configured is so until somebody changes it.  VS   *)
(* Code calls a project configured before it has been configured again: the *)
(* first answer to ALL is that of createBuildDirectory.                      *)
SaysTheTruth ==
    \A d \in Dialogs :
        dialog[d].shows = "configured" /\ current[d]
        /\ (project.ide = "VS Code" => dialog[d].mode # "ALL")
            => Complete

(* Between requests the files of the directory are of a build that has gone *)
(* through, whatever has failed or was cancelled before.                    *)
NothingIsHalfBuilt == Idle => disk.compile # "partial" /\ disk.link # "partial"
=============================================================================
