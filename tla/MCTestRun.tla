------------------------------ MODULE MCTestRun ------------------------------
(* A project with two tests of one file, and one with two files that both   *)
(* have a test of the same name, run from elsewhere; a project with one     *)
(* test that is open in VS Code, whose answers are shown.                   *)
EXTENDS ResultsView

First == [file |-> "a", name |-> "f_test_1"]
Second == [file |-> "a", name |-> "f_test_2"]
Other == [file |-> "b", name |-> "f_test_1"]
TwoProjects == {{First, Second}, {First, Other}}
Open == {{First}}
ThreeProjects == TwoProjects \cup Open
=============================================================================
