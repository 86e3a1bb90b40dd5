----------------------------- MODULE MCForkTask -----------------------------
(* The kinds of tasks of the server. *)
EXTENDS ForkTask

(* RunKleeTask: KLEE writes its tests when it catches SIGTERM. *)
KleeTask == [signals |-> <<"TERM", "TERM", "KILL">>, timed |-> TRUE, handlesTerm |-> TRUE,
             logs |-> TRUE, retain |-> FALSE, codes |-> {0, 1}]

(* ShellExecTask: the run of a test, with a timeout. *)
TestTask == [signals |-> <<"KILL">>, timed |-> TRUE, handlesTerm |-> FALSE,
             logs |-> FALSE, retain |-> FALSE, codes |-> {0, 1}]

(* ShellExecTask: the export of the coverage, whose output is a result. *)
ExportTask == [TestTask EXCEPT !.timed = FALSE, !.retain = TRUE]

AllTasks == {KleeTask, TestTask, ExportTask}
=============================================================================
