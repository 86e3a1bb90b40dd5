--------------------------- MODULE MCBuildDatabase ---------------------------
(***************************************************************************)
(* A project of two C files, one in C++ and one in assembler: a library    *)
(* that is archived and one that is shared, programs of one and of several *)
(* sources, with and without the libraries, and a source that is compiled  *)
(* for 32 and for 64 bits.                                                 *)
(***************************************************************************)
EXTENDS ImportedProject

MCTemporary == [s \in Sources |-> CASE s = "a.c" -> "a.o" [] s = "b.c" -> "b.o" [] OTHER -> "c.o"]
MCOrder == [f \in Outputs |-> CASE f = "a64.o" -> 1 [] f = "a.o" -> 2 [] f = "b.o" -> 3 [] OTHER -> 4]

MCStem == [t \in Targets |-> CASE t = "lib.a" -> "lib" [] t = "dyn.so" -> "dyn" [] OTHER -> t]

MCCompile == {<<"a.c", "a.o">>, <<"a.c", "a64.o">>, <<"b.c", "b.o">>, <<"c.cpp", "c.o">>, <<"s.S", "s.o">>,
              <<"a.c", "prog">>, <<"b.c", "prog">>, <<"b.c", "dyn.so">>}

MCLink == {<<"lib.a", {"a.o", "s.o"}, {}>>, <<"lib.a", {"b.o", "c.o"}, {}>>,
           <<"dyn.so", {"a64.o", "lib.a"}, {}>>, <<"dyn.so", {"b.o", "s.o"}, {}>>,
           <<"prog", {"b.o", "lib.a"}, {}>>, <<"prog", {"b.o"}, {"dyn.so"}>>,
           <<"test", {"a.o", "a64.o"}, {}>>, <<"test", {"a.o", "dyn.so"}, {"lib.a"}>>}
-----------------------------------------------------------------------------
(* Command lines: their options in every order. *)
Lines(blocks) == {FlattenSeq(s) : s \in SetToSeqs(blocks)}
UpTo(n, S) == {T \in SUBSET S : Cardinality(T) <= n}
Tool(name) == <<Arg("tool", name)>>

CompileSwitches == {<<Arg("-Werror", "")>>, <<Level("2")>>, <<Arg("-std", "c99")>>, <<Arg("-p", "")>>,
                    <<Arg("-fPIE", "")>>, <<Arg("-I", "include")>>, <<Flag("-c")>>}
MCCompileLines ==
    {Tool("gcc") \o l : l \in UNION {Lines(S \cup out \cup {<<SourceFile>>}) :
                                        S \in UpTo(2, CompileSwitches), out \in {{}, {<<DashO, ObjectFile>>}}}}

Archive == Arg("static", "lib.a")
Shared == Arg("shared", "dyn.so")
Program == Arg("program", "prog")
AnObject == Arg("object", "b.o")
Of(files, output) == [files |-> files, installed |-> {}, output |-> output]
Archived == {<<Archive>>, <<Arg("-l", "lib.a")>>, <<Arg("-l", ""), Arg("word", "lib.a")>>}
LinkSwitches == {<<Level("2")>>, <<Arg("-L", "dir")>>, <<Arg("-Wl", "-z")>>, <<Arg("-static", "")>>}
Sonames == {<<Arg("-Wl", "-soname,name")>>, <<Arg("-Wl", "-soname"), Arg("-Wl", "name")>>}

MCLinkLines ==
    {[line |-> Tool("gcc") \o l, target |-> Of({ObjectFile, Archive}, Program)] :
        l \in UNION {Lines({<<DashO, Program>>, <<ObjectFile>>, lib} \cup S) :
                       lib \in Archived, S \in UpTo(1, LinkSwitches) \cup {{<<Level("2")>>, <<Arg("-static", "")>>}}}}
    \cup {[line |-> Tool("gcc") \o l, target |-> Of({ObjectFile, Archive}, Arg("program", "a.out"))] :
        l \in UNION {Lines({<<ObjectFile>>, <<Archive>>} \cup S) : S \in UpTo(1, LinkSwitches)}}
    \cup {[line |-> Tool("gcc") \o l, target |-> Of({ObjectFile, Archive}, Shared)] :
        l \in UNION {Lines({<<DashO, Shared>>, <<ObjectFile>>, <<Archive>>, <<Arg("-shared", "")>>} \cup S) :
                       S \in UpTo(1, Sonames \cup LinkSwitches)}}
    \cup {[line |-> Tool("ar") \o <<Arg("option", "rcs"), Archive>> \o l, target |-> Of({ObjectFile, AnObject}, Archive)] :
        l \in Lines({<<ObjectFile>>, <<AnObject>>})}
-----------------------------------------------------------------------------
(* Paths: a build directory in the project and one beside it; a source in no *)
(* directory of the project, and names that look like names of artifacts.    *)
Home == <<"home">>
Project == <<Home, <<"p">>>>
MCContexts ==
    {[projectPath |-> Project, testDirRelPath |-> <<<<"tests">>>>, buildDirRelPath |-> <<<<"build">>>>],
     [projectPath |-> Project, testDirRelPath |-> <<<<"tests">>, <<"unit">>>>, buildDirRelPath |-> <<Up, <<"build">>>>]}
Directories == {Project, Project \o <<<<"lib">>>>, Project \o <<<<"lib">>, <<"stubs">>>>,
                Project \o <<<<"lib", "-", "s">>>>, <<Home, <<"lib">>>>}
SourceStems == {<<"a">>, <<"b">>, <<"a", "_test">>, <<"a", "_stub">>, <<"a", "_wrapper">>, <<"a", "_klee">>,
                <<"a", "_dot_", "c">>, <<"a", ".", "c">>, <<"a", "_", "c">>}
MCSourceFiles == [c \in MCContexts |-> {Append(d, n \o e) : d \in Directories, n \in SourceStems,
                                                           e \in CxxExtensions \cup {CExtension}}]
MCProgramNames == {<<"prog">>, <<"prog", "2">>, <<"test">>, <<"a", ".", "out">>, <<"x">>, <<"lib", "x", ".", "so">>,
                   <<"dyn", ".", "so">>, <<"dyn", ".", "so", ".", "1", ".", "2">>, <<"x", ".", "a">>}
-----------------------------------------------------------------------------
(* Requests: the command line is used in the project, above it and in its    *)
(* build directory; a test of f_test is named like one of f.                 *)
MCLocalProject == <<<<"c">>, <<"work">>, <<"q">>>>
MCWorkingDirectories == {Project, <<Home>>, Project \o <<<<"build">>>>}
MCFunctionNames == {<<"f">>, <<"f", "_test">>, <<"g">>}
-----------------------------------------------------------------------------
(* How the two files came about does not matter once they are being read: no *)
(* step of BuildNext reads the variables of the configuration.               *)
FromOpening == IF loading THEN <<disk, buildVars>> ELSE <<disk, configVars>>
=============================================================================
