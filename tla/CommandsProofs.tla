--------------------------- MODULE CommandsProofs ---------------------------
(***************************************************************************)
(* Proofs about Commands, for any compile and link lines that keep         *)
(* CompileLinesAssumption and LinkLinesAssumption.                         *)
(*                                                                         *)
(* A command is Sound when its iterators are at what they are for: one is  *)
(* at the file behind the only "-o", one at the only level or nowhere, and *)
(* the tool comes first.  Does(c, inputs, output, level) adds which files  *)
(* it reads and writes.  Every edit of a command is shown once to lead     *)
(* from one Does to another: an argument is replaced (Replaces), some are  *)
(* erased or put between the others (Carries: what stays, and where it     *)
(* goes).  A command of the server is then a chain of such edits.          *)
(*                                                                         *)
(* Two facts need more than Does.  What a linker does with names is in the *)
(* Marks of a line: "-Wl," and "-shared".  And the commands that are       *)
(* written anew, argument by argument (RenewedBy, Archived), keep the      *)
(* files of the target (HoldsFiles) and turn its output into the new one.  *)
(*                                                                         *)
(* Reading a line comes before all that: words are joined with what names  *)
(* them (MergedBy), and a line without "-o" is opened for one (Opened).    *)
(***************************************************************************)
EXTENDS Commands, FiniteSetTheorems, SequenceTheorems, TLAPS

-----------------------------------------------------------------------------
(* Edits: what they do to the places of the arguments, and to Does. *)

LEMMA RankFacts ==
    ASSUME NEW n \in Nat, NEW places \in SUBSET (1 .. n)
    PROVE  /\ Cardinality(places) \in 0 .. n
           /\ \A i \in places : Rank(places, i) \in 1 .. Cardinality(places) /\ Rank(places, i) <= i
           /\ \A i, j \in places : i < j => Rank(places, i) < Rank(places, j)
           /\ \A i \in places : i + 1 \in places => Rank(places, i + 1) = Rank(places, i) + 1
           /\ \A i \in places : 1 .. i \subseteq places => Rank(places, i) = i
<1> DEFINE Low(i) == {j \in places : j <= i}
<1>0. \A i \in places : i \in Int /\ 1 <= i
  OBVIOUS
<1>1. IsFiniteSet(places) /\ Cardinality(places) \in 0 .. n
  <2>1. IsFiniteSet(1 .. n) /\ Cardinality(1 .. n) = n
    BY FS_Interval
  <2>2. IsFiniteSet(places) /\ Cardinality(places) <= n
    BY <2>1, FS_Subset
  <2> QED
    BY <2>2, FS_CardinalityType
<1>2. \A i \in places : IsFiniteSet(Low(i)) /\ Cardinality(Low(i)) \in Nat
                        /\ Cardinality(Low(i)) <= Cardinality(places) /\ Cardinality(Low(i)) # 0
  <2> TAKE i \in places
  <2>1. Low(i) \in SUBSET places /\ i \in Low(i)
    OBVIOUS
  <2> HIDE DEF Low
  <2>2. IsFiniteSet(Low(i)) /\ Cardinality(Low(i)) <= Cardinality(places)
    BY <1>1, <2>1, FS_Subset
  <2> QED
    BY <2>1, <2>2, FS_CardinalityType, FS_EmptySet
<1>3. \A i \in places : Cardinality(Low(i)) <= i
  <2> TAKE i \in places
  <2>1. i \in 1 .. n
    OBVIOUS
  <2>a. \A j \in Low(i) : j \in 1 .. i
    BY <1>0, <2>1
  <2>2. Low(i) \in SUBSET (1 .. i)
    <3> HIDE DEF Low
    <3> QED BY <2>a
  <2>3. IsFiniteSet(1 .. i) /\ Cardinality(1 .. i) = i
    BY <2>1, FS_Interval
  <2> HIDE DEF Low
  <2> QED
    BY <2>2, <2>3, FS_Subset
<1>4. ASSUME NEW i \in places, NEW j \in places, i < j
      PROVE  Cardinality(Low(i)) < Cardinality(Low(j))
  <2>a. (\A k \in Low(i) : k \in Low(j)) /\ j \in Low(j) /\ j \notin Low(i)
    BY <1>0, <1>4
  <2>1. Low(i) \in SUBSET Low(j) /\ j \in Low(j) /\ j \notin Low(i)
    <3> HIDE DEF Low
    <3> QED BY <2>a
  <2> HIDE DEF Low
  <2>2. Cardinality(Low(i)) <= Cardinality(Low(j)) /\ Cardinality(Low(i)) # Cardinality(Low(j))
    BY <1>2, <2>1, FS_Subset
  <2> QED
    BY <1>2, <2>2
<1>5. ASSUME NEW i \in places, i + 1 \in places
      PROVE  Cardinality(Low(i + 1)) = Cardinality(Low(i)) + 1
  <2>a. \A j : j \in Low(i + 1) <=> j \in Low(i) \/ j = i + 1
    <3>1. \A j \in places : j <= i + 1 <=> j <= i \/ j = i + 1
      BY <1>0
    <3> QED
      BY <1>5, <3>1
  <2>b. i + 1 \notin Low(i)
    BY <1>0
  <2>1. Low(i + 1) = Low(i) \cup {i + 1}
    <3> HIDE DEF Low
    <3> QED BY <2>a
  <2> HIDE DEF Low
  <2> QED
    BY <1>2, <2>b, <2>1, FS_AddElement
<1>6. ASSUME NEW i \in places, 1 .. i \subseteq places
      PROVE  Cardinality(Low(i)) = i
  <2>1. i \in 1 .. n
    OBVIOUS
  <2>a. \A j : j \in Low(i) <=> j \in 1 .. i
    <3>1. \A j \in places : j <= i => j \in 1 .. i
      BY <1>0, <2>1
    <3>2. \A j \in 1 .. i : j \in places /\ j <= i
      BY <1>6, <2>1
    <3> QED
      BY <3>1, <3>2
  <2>2. Low(i) = 1 .. i
    <3> HIDE DEF Low
    <3> QED BY <2>a
  <2> HIDE DEF Low
  <2> QED
    BY <2>1, <2>2, FS_Interval
<1> QED
  BY <1>1, <1>2, <1>3, <1>4, <1>5, <1>6 DEF Rank

(* Every place of what is kept is that of one argument. *)
LEMMA RankOnto ==
    ASSUME NEW n \in Nat, NEW places \in SUBSET (1 .. n), NEW m \in 1 .. Cardinality(places)
    PROVE  \E i \in places : Rank(places, i) = m
<1> DEFINE r == [i \in places |-> Rank(places, i)]
<1>1. IsFiniteSet(places) /\ Cardinality(places) \in Nat
  <2>1. IsFiniteSet(1 .. n)
    BY FS_Interval
  <2> QED
    BY <2>1, FS_Subset, FS_CardinalityType
<1>2. IsFiniteSet(1 .. Cardinality(places)) /\ Cardinality(1 .. Cardinality(places)) = Cardinality(places)
  BY <1>1, FS_Interval
<1>3. r \in [places -> 1 .. Cardinality(places)] /\ \A i, j \in places : r[i] = r[j] => i = j
  <2>1. \A i \in places : i \in Nat
    OBVIOUS
  <2>2. /\ \A i \in places : Rank(places, i) \in 1 .. Cardinality(places)
        /\ \A i, j \in places : i < j => Rank(places, i) < Rank(places, j)
    BY RankFacts
  <2>3. ASSUME NEW i \in places, NEW j \in places, Rank(places, i) = Rank(places, j)
        PROVE  i = j
    <3>1. ~ (i < j) /\ ~ (j < i)
      BY <1>1, <2>2, <2>3
    <3> QED
      BY <2>1, <3>1
  <2> QED
    BY <2>2, <2>3
<1>4. r \in Injection(places, 1 .. Cardinality(places))
  BY <1>3, Zenon DEF Injection, IsInjective
<1>5. r \in Surjection(places, 1 .. Cardinality(places))
  BY <1>1, <1>2, <1>4, FS_Injection
<1> QED
  BY <1>5 DEF Surjection

LEMMA KeptFacts ==
    ASSUME NEW S, NEW line \in Seq(S), NEW places \in SUBSET DOMAIN line
    PROVE  /\ Kept(line, places) \in Seq(S) /\ Len(Kept(line, places)) = Cardinality(places)
           /\ DOMAIN Kept(line, places) = 1 .. Cardinality(places)
           /\ Cardinality(places) \in 0 .. Len(line)
           /\ \A i \in places : Kept(line, places)[Rank(places, i)] = line[i]
<1>1. DOMAIN line = 1 .. Len(line) /\ Len(line) \in Nat
  OBVIOUS
<1>2. Cardinality(places) \in 0 .. Len(line)
  BY <1>1, RankFacts
<1>3. \A m \in 1 .. Cardinality(places) :
         LET i == CHOOSE i \in places : Rank(places, i) = m IN i \in places /\ Rank(places, i) = m
  BY <1>1, RankOnto
<1>4. ASSUME NEW i \in places, NEW j \in places, Rank(places, i) = Rank(places, j)
      PROVE  i = j
  <2>1. ~ (i < j) /\ ~ (j < i)
    BY <1>1, <1>2, <1>4, RankFacts
  <2> QED
    BY <1>1, <2>1
<1>5. Kept(line, places) \in Seq(S) /\ Len(Kept(line, places)) = Cardinality(places)
  BY <1>1, <1>2, <1>3 DEF Kept
<1>6. ASSUME NEW i \in places
      PROVE  Kept(line, places)[Rank(places, i)] = line[i]
  <2>1. Rank(places, i) \in 1 .. Cardinality(places)
    BY <1>1, RankFacts
  <2>2. (CHOOSE j \in places : Rank(places, j) = Rank(places, i)) = i
    BY <1>3, <1>4, <2>1
  <2> QED
    BY <2>1, <2>2 DEF Kept
<1> QED
  BY <1>2, <1>5, <1>6

-----------------------------------------------------------------------------
(* Commands. *)

(* The kinds and names the server writes are strings, which the provers do not know. *)
WrittenKinds == {"nothing", "tool", "flag", "-o", "-O", "-I", "-shared", "object", "static", "shared", "program", "source", "option"}
WrittenNames ==
    {"", "0", "clang", "gcc", "g++", "ld", "ar", "ld.gold", "-emit-llvm", "-c", "-iquote", "-fPIC", "-g", "-MT",
     "googletest", "r", "-r", "-relocatable", "--plugin", "--whole-archive", "--no-whole-archive", "$(LDFLAGS)",
     "$(STUB_OBJECT_FILES)", "gtest.o", "test.o", "under test.so", "a.out", "a.c", "a.o", "new a.c", "new a.o", "new"}
Names == STRING \cup WrittenNames \cup {"new " \o n : n \in STRING}
Argument == [kind : STRING \cup WrittenKinds, name : Names]
Command == [line : Seq(Argument), sourcePath : Nat, output : Nat, optimizationLevel : Nat]

(* The iterators of a command point to its output and its level. *)
Sound(c) ==
    /\ c \in Command
    /\ c.output \in 3 .. Len(c.line) /\ c.line[c.output - 1] = DashO
    /\ c.optimizationLevel \in {0} \cup 2 .. Len(c.line)
    /\ c.line[1].kind = "tool" /\ c.line[c.output].kind \in FileKinds
    /\ \A i \in 1 .. Len(c.line) :
          /\ c.line[i].kind = "-o" => i = c.output - 1
          /\ c.line[i].kind = "-O" <=> i = c.optimizationLevel

OutputOf(c) == c.line[c.output]
LevelOf(c) == IF c.optimizationLevel = 0 THEN Nothing ELSE c.line[c.optimizationLevel]
FilePlaces(c) == {i \in 1 .. Len(c.line) : c.line[i].kind \in FileKinds}
Inputs(c) == {c.line[i] : i \in FilePlaces(c) \ {c.output}}

Does(c, inputs, output, level) ==
    Sound(c) /\ Inputs(c) = inputs /\ OutputOf(c) = output /\ LevelOf(c) = level

(* A command that compiles: its iterator is at its only input. *)
OneSource(c) ==
    /\ FilePlaces(c) \ {c.output} = {c.sourcePath}
    /\ \A i \in 1 .. Len(c.line) : c.line[i].kind # "-Wl"

LEMMA Literals ==
    /\ \A k \in STRING \cup WrittenKinds, n \in STRING \cup WrittenNames :
          Arg(k, n) \in Argument /\ Arg(k, n).kind = k /\ Arg(k, n).name = n
    /\ \A n \in WrittenNames : Flag(n) \in Argument /\ Flag(n).kind = "flag"
    /\ Nothing \in Argument /\ DashO \in Argument /\ Nought \in Argument
    /\ Nothing.kind = "nothing" /\ DashO.kind = "-o" /\ Nought.kind = "-O"
<1>1. \A n \in STRING \cup WrittenNames : n \in Names
  BY Zenon DEF Names
<1>2. \A k \in STRING \cup WrittenKinds, n \in STRING \cup WrittenNames :
         Arg(k, n) \in Argument /\ Arg(k, n).kind = k /\ Arg(k, n).name = n
  BY <1>1 DEF Argument, Arg
<1>3. Nothing = Arg("nothing", "") /\ DashO = Arg("-o", "") /\ Nought = Arg("-O", "0")
  BY DEF Nothing, DashO, Nought, Level
<1>4. "nothing" \in WrittenKinds /\ "-o" \in WrittenKinds /\ "-O" \in WrittenKinds /\ "flag" \in WrittenKinds
  BY DEF WrittenKinds
<1>5. "" \in WrittenNames /\ "0" \in WrittenNames
  BY DEF WrittenNames
<1> QED
  BY <1>2, <1>3, <1>4, <1>5 DEF Flag

LEMMA EffectOfSound ==
    ASSUME NEW c, Sound(c)
    PROVE  /\ Effect(c.line).inputs = Inputs(c)
           /\ Effect(c.line).output = {OutputOf(c)}
           /\ c.optimizationLevel # 0 => Effect(c.line).level = {LevelOf(c)}
<1>1. c.line \in Seq(Argument) /\ DOMAIN c.line = 1 .. Len(c.line) /\ Len(c.line) \in Nat
  BY DEF Sound, Command
<1>2. AfterDashO(c.line) = {c.output}
  <2>1. {i \in DOMAIN c.line : c.line[i] = DashO} = {c.output - 1}
    BY <1>1, Literals DEF Sound
  <2> QED
    BY <2>1 DEF AfterDashO, Sound
<1>3. Effect(c.line).inputs = Inputs(c)
  BY <1>1, <1>2 DEF Effect, Inputs, FilePlaces
<1>4. Effect(c.line).output = {OutputOf(c)}
  BY <1>2 DEF Effect, OutputOf
<1>5. ASSUME c.optimizationLevel # 0
      PROVE  Effect(c.line).level = {LevelOf(c)}
  <2>1. {i \in DOMAIN c.line : c.line[i].kind = "-O"} = {c.optimizationLevel}
    BY <1>1, <1>5 DEF Sound
  <2>2. {i \in {c.optimizationLevel} : \A j \in {c.optimizationLevel} : j <= i} = {c.optimizationLevel}
    BY DEF Sound
  <2> QED
    BY <1>5, <2>1, <2>2 DEF Effect, LevelOf
<1> QED
  BY <1>3, <1>4, <1>5

LEMMA SoundFacts ==
    ASSUME NEW c, Sound(c)
    PROVE  /\ c \in Command /\ c.line \in Seq(Argument) /\ Len(c.line) \in Nat
           /\ c.output \in 3 .. Len(c.line)
           /\ c.line[1].kind = "tool" /\ c.line[c.output - 1] = DashO /\ c.line[c.output].kind \in FileKinds
           /\ c.optimizationLevel \in Nat /\ c.optimizationLevel # 1 /\ c.optimizationLevel <= Len(c.line)
           /\ \A i \in 1 .. Len(c.line) : c.line[i].kind = "-o" <=> i = c.output - 1
           /\ \A i \in 1 .. Len(c.line) : c.line[i].kind = "-O" <=> i = c.optimizationLevel
<1>1. DashO.kind = "-o"
  BY Literals
<1>2. c \in Command /\ c.line \in Seq(Argument) /\ Len(c.line) \in Nat
  BY DEF Sound, Command
<1>3. /\ c.output \in 3 .. Len(c.line)
      /\ c.line[1].kind = "tool" /\ c.line[c.output - 1] = DashO /\ c.line[c.output].kind \in FileKinds
  BY DEF Sound
<1>4. c.optimizationLevel \in Nat /\ c.optimizationLevel # 1 /\ c.optimizationLevel <= Len(c.line)
  BY <1>2 DEF Sound
<1>5. \A i \in 1 .. Len(c.line) : c.line[i].kind = "-o" <=> i = c.output - 1
  BY <1>1, <1>3 DEF Sound
<1>6. \A i \in 1 .. Len(c.line) : c.line[i].kind = "-O" <=> i = c.optimizationLevel
  BY DEF Sound
<1> QED
  BY <1>2, <1>3, <1>4, <1>5, <1>6

(* What replaces arguments by such of the same kind, as far as it matters. *)
LEMMA SamePlaces ==
    ASSUME NEW c, NEW d \in Command, Sound(c), Len(d.line) = Len(c.line),
           d.output = c.output, d.optimizationLevel = c.optimizationLevel,
           d.line[1].kind = "tool", d.line[c.output].kind \in FileKinds, d.line[c.output - 1] = DashO,
           \A i \in 1 .. Len(c.line) : d.line[i].kind = "-o" <=> c.line[i].kind = "-o",
           \A i \in 1 .. Len(c.line) : d.line[i].kind = "-O" <=> c.line[i].kind = "-O"
    PROVE  Sound(d)
BY DEF Sound

LEMMA SetFacts ==
    ASSUME NEW c \in Command, NEW i \in 1 .. Len(c.line), NEW a \in Argument
    PROVE  /\ Set(c, i, a) \in Command /\ Len(Set(c, i, a).line) = Len(c.line)
           /\ Set(c, i, a).line[i] = a
           /\ \A j \in 1 .. Len(c.line) : j # i => Set(c, i, a).line[j] = c.line[j]
           /\ Set(c, i, a).output = c.output /\ Set(c, i, a).sourcePath = c.sourcePath
           /\ Set(c, i, a).optimizationLevel = c.optimizationLevel
BY DEF Set, Command

LEMMA SetOutput ==
    ASSUME NEW c, NEW ins, NEW out, NEW lev, Does(c, ins, out, lev), NEW a \in Argument, a.kind \in FileKinds
    PROVE  /\ Does(setOutput(c, a), ins, a, lev)
           /\ OneSource(c) => OneSource(setOutput(c, a))
           /\ NoStray(c.line) => NoStray(setOutput(c, a).line)
<1> DEFINE d == setOutput(c, a)
<1>0. a.kind \notin {"-o", "-O", "-Wl"} /\ c.line[c.output].kind \notin {"-o", "-O", "-Wl"}
  BY DEF FileKinds, Does, Sound
<1>1. c \in Command /\ c.output \in 3 .. Len(c.line) /\ Len(c.line) \in Nat
  BY SoundFacts DEF Does
<1>2. /\ d \in Command /\ Len(d.line) = Len(c.line) /\ d.line[c.output] = a
      /\ \A j \in 1 .. Len(c.line) : j # c.output => d.line[j] = c.line[j]
      /\ d.output = c.output /\ d.sourcePath = c.sourcePath
      /\ d.optimizationLevel = c.optimizationLevel
  BY <1>1, SetFacts DEF setOutput
<1> HIDE DEF d
<1>3. Sound(d)
  <2>1. \A j \in 1 .. Len(c.line) : d.line[j].kind = "-o" <=> c.line[j].kind = "-o"
    BY <1>0, <1>1, <1>2
  <2>2. \A j \in 1 .. Len(c.line) : d.line[j].kind = "-O" <=> c.line[j].kind = "-O"
    BY <1>0, <1>1, <1>2
  <2>3. d.line[1] = c.line[1] /\ d.line[c.output - 1] = c.line[c.output - 1]
    <3>1. PICK p : p = c.output - 1
      OBVIOUS
    <3>2. 1 \in 1 .. Len(c.line) /\ 1 # c.output /\ p \in 1 .. Len(c.line) /\ p # c.output
      BY <1>1, <3>1
    <3>3. d.line[1] = c.line[1] /\ d.line[p] = c.line[p]
      BY <1>2, <3>2
    <3> QED
      BY <3>1, <3>3
  <2>4. d.line[1].kind = "tool" /\ d.line[c.output - 1] = DashO
    BY <2>3, SoundFacts DEF Does
  <2> QED
    BY <1>2, <2>1, <2>2, <2>4, SamePlaces DEF Does
<1>4. FilePlaces(d) = FilePlaces(c) /\ c.optimizationLevel # c.output
  <2>1. c.line[c.output].kind \in FileKinds /\ c.line[c.output].kind # "-O"
    BY <1>0 DEF Does, Sound
  <2>2. \A j \in 1 .. Len(c.line) : d.line[j].kind \in FileKinds <=> c.line[j].kind \in FileKinds
    BY <1>2, <2>1
  <2>3. FilePlaces(d) = FilePlaces(c)
    BY <1>2, <2>2 DEF FilePlaces
  <2>4. c.output \in 1 .. Len(c.line)
    BY <1>1
  <2>5. \A j \in 1 .. Len(c.line) : c.line[j].kind = "-O" <=> j = c.optimizationLevel
    BY SoundFacts DEF Does
  <2> QED
    BY <2>1, <2>3, <2>4, <2>5
<1>5. Does(d, ins, a, lev)
  <2>1. Inputs(d) = Inputs(c)
    <3>1. \A j \in FilePlaces(c) \ {c.output} : d.line[j] = c.line[j]
      BY <1>2 DEF FilePlaces
    <3> QED
      BY <1>2, <1>4, <3>1 DEF Inputs
  <2>2. LevelOf(d) = LevelOf(c)
    <3>1. c.optimizationLevel \in Nat /\ c.optimizationLevel <= Len(c.line)
      BY SoundFacts DEF Does
    <3>2. c.optimizationLevel # 0 => c.optimizationLevel \in 1 .. Len(c.line)
      BY <1>1, <3>1
    <3>3. c.optimizationLevel # 0 => d.line[c.optimizationLevel] = c.line[c.optimizationLevel]
      BY <1>2, <1>4, <3>2
    <3> QED
      BY <1>2, <3>3 DEF LevelOf
  <2>3. OutputOf(d) = a
    BY <1>2 DEF OutputOf
  <2> QED
    BY <1>3, <2>1, <2>2, <2>3 DEF Does
<1>6. OneSource(c) => OneSource(d)
  BY <1>1, <1>2, <1>4 DEF OneSource, FileKinds
<1>7. NoStray(c.line) => NoStray(d.line)
  <2> SUFFICES ASSUME NoStray(c.line), NEW j \in 1 .. Len(d.line), d.line[j].kind = "-Wl"
               PROVE  \/ d.line[j].name \in {"-z", "-soname,name", "-soname"}
                      \/ j > 1 /\ d.line[j - 1] = Soname
    BY DEF NoStray
  <2>1. d.line[j] = c.line[j]
    BY <1>0, <1>2
  <2>2. j > 1 /\ c.line[j - 1] = Soname => d.line[j - 1] = c.line[j - 1]
    BY <1>0, <1>1, <1>2 DEF Arg, Soname
  <2> QED
    BY <1>2, <2>1, <2>2 DEF NoStray
<1> QED
  BY <1>5, <1>6, <1>7 DEF d

LEMMA SetBuildTool ==
    ASSUME NEW c, NEW ins, NEW out, NEW lev, Does(c, ins, out, lev), NEW name \in WrittenNames
    PROVE  /\ Does(setBuildTool(c, name), ins, out, lev) /\ setBuildTool(c, name).line[1] = Arg("tool", name)
           /\ OneSource(c) => OneSource(setBuildTool(c, name))
           /\ NoStray(c.line) => NoStray(setBuildTool(c, name).line)
           /\ \A j \in 2 .. Len(c.line) : setBuildTool(c, name).line[j] = c.line[j]
<1> DEFINE d == setBuildTool(c, name)
           a == Arg("tool", name)
<1>0. a \in Argument /\ a.kind = "tool"
  BY Literals DEF WrittenKinds
<1>1. /\ c \in Command /\ c.output \in 3 .. Len(c.line) /\ Len(c.line) \in Nat /\ 1 \in 1 .. Len(c.line)
      /\ c.line[1].kind = "tool"
  BY SoundFacts DEF Does
<1>2. /\ d \in Command /\ Len(d.line) = Len(c.line) /\ d.line[1] = a
      /\ \A j \in 1 .. Len(c.line) : j # 1 => d.line[j] = c.line[j]
      /\ d.output = c.output /\ d.sourcePath = c.sourcePath
      /\ d.optimizationLevel = c.optimizationLevel
  BY <1>0, <1>1, SetFacts DEF setBuildTool
<1> HIDE DEF d, a
<1>3. Sound(d)
  <2>1. \A j \in 1 .. Len(c.line) : d.line[j].kind = "-o" <=> c.line[j].kind = "-o"
    BY <1>0, <1>1, <1>2
  <2>2. \A j \in 1 .. Len(c.line) : d.line[j].kind = "-O" <=> c.line[j].kind = "-O"
    BY <1>0, <1>1, <1>2
  <2>3. d.line[c.output] = c.line[c.output] /\ d.line[c.output - 1] = c.line[c.output - 1]
    BY <1>1, <1>2
  <2>4. d.line[1].kind = "tool" /\ d.line[c.output].kind \in FileKinds /\ d.line[c.output - 1] = DashO
    BY <1>0, <1>2, <2>3, SoundFacts DEF Does
  <2> QED
    BY <1>2, <2>1, <2>2, <2>4, SamePlaces DEF Does
<1>4. FilePlaces(d) = FilePlaces(c) /\ 1 \notin FilePlaces(c) /\ c.optimizationLevel # 1
  BY <1>0, <1>1, <1>2, SoundFacts DEF FilePlaces, FileKinds, Does
<1>5. Does(d, ins, out, lev)
  <2>1. \A i \in FilePlaces(c) : d.line[i] = c.line[i]
    BY <1>2, <1>4 DEF FilePlaces
  <2>2. Inputs(d) = ins
    BY <1>2, <1>4, <2>1 DEF Does, Inputs
  <2>3. OutputOf(d) = out /\ LevelOf(d) = lev
    BY <1>1, <1>2, <1>4, SoundFacts DEF Does, OutputOf, LevelOf
  <2> QED
    BY <1>3, <2>2, <2>3 DEF Does
<1>6. OneSource(c) => OneSource(d)
  BY <1>0, <1>1, <1>2, <1>4 DEF OneSource
<1>7. NoStray(c.line) => NoStray(d.line)
  <2> SUFFICES ASSUME NoStray(c.line), NEW j \in 1 .. Len(d.line), d.line[j].kind = "-Wl"
               PROVE  \/ d.line[j].name \in {"-z", "-soname,name", "-soname"}
                      \/ j > 1 /\ d.line[j - 1] = Soname
    BY DEF NoStray
  <2>1. d.line[j] = c.line[j]
    BY <1>0, <1>2
  <2>2. j > 1 /\ c.line[j - 1] = Soname => d.line[j - 1] = c.line[j - 1]
    BY <1>0, <1>1, <1>2 DEF Arg, Soname
  <2> QED
    BY <1>2, <2>1, <2>2 DEF NoStray
<1> QED
  BY <1>1, <1>2, <1>5, <1>6, <1>7 DEF d, a

LEMMA SetSourcePath ==
    ASSUME NEW c, NEW ins, NEW out, NEW lev, Does(c, ins, out, lev), OneSource(c),
           NEW a \in Argument, a.kind \in FileKinds
    PROVE  Does(setSourcePath(c, a), {a}, out, lev) /\ OneSource(setSourcePath(c, a))
<1> DEFINE d == setSourcePath(c, a)
<1>0. a.kind \notin {"-o", "-O", "-Wl", "tool"}
  BY DEF FileKinds
<1>1. /\ c \in Command /\ c.output \in 3 .. Len(c.line) /\ Len(c.line) \in Nat
      /\ c.sourcePath \in 1 .. Len(c.line) /\ c.sourcePath # c.output /\ c.line[c.sourcePath].kind \in FileKinds
  BY SoundFacts DEF Does, OneSource, FilePlaces
<1>2. /\ d \in Command /\ Len(d.line) = Len(c.line) /\ d.line[c.sourcePath] = a
      /\ \A j \in 1 .. Len(c.line) : j # c.sourcePath => d.line[j] = c.line[j]
      /\ d.output = c.output /\ d.sourcePath = c.sourcePath
      /\ d.optimizationLevel = c.optimizationLevel
  BY <1>1, SetFacts DEF setSourcePath
<1> HIDE DEF d
<1>3. c.line[c.sourcePath].kind \notin {"-o", "-O", "-Wl", "tool"}
  BY <1>1 DEF FileKinds
<1>4. Sound(d)
  <2>1. \A j \in 1 .. Len(c.line) : d.line[j].kind = "-o" <=> c.line[j].kind = "-o"
    BY <1>0, <1>1, <1>2, <1>3
  <2>2. \A j \in 1 .. Len(c.line) : d.line[j].kind = "-O" <=> c.line[j].kind = "-O"
    BY <1>0, <1>1, <1>2, <1>3
  <2>3. c.sourcePath # 1 /\ c.sourcePath # c.output - 1
    BY <1>3, Literals, SoundFacts DEF Does
  <2>4. d.line[c.output] = c.line[c.output] /\ d.line[c.output - 1] = c.line[c.output - 1] /\ d.line[1] = c.line[1]
    <3>1. PICK p : p = c.output - 1
      OBVIOUS
    <3>2. /\ 1 \in 1 .. Len(c.line) /\ p \in 1 .. Len(c.line) /\ c.output \in 1 .. Len(c.line)
          /\ 1 # c.sourcePath /\ p # c.sourcePath /\ c.output # c.sourcePath
      BY <1>1, <2>3, <3>1
    <3>3. d.line[c.output] = c.line[c.output] /\ d.line[p] = c.line[p] /\ d.line[1] = c.line[1]
      BY <1>2, <3>2
    <3> QED
      BY <3>1, <3>3
  <2>5. d.line[1].kind = "tool" /\ d.line[c.output].kind \in FileKinds /\ d.line[c.output - 1] = DashO
    BY <1>0, <1>2, <2>4, SoundFacts DEF Does
  <2> QED
    BY <1>2, <2>1, <2>2, <2>5, SamePlaces DEF Does
<1>5. FilePlaces(d) = FilePlaces(c) /\ c.optimizationLevel # c.sourcePath
  <2>1. \A j \in 1 .. Len(c.line) : d.line[j].kind \in FileKinds <=> c.line[j].kind \in FileKinds
    BY <1>0, <1>1, <1>2
  <2>2. FilePlaces(d) = FilePlaces(c)
    BY <1>2, <2>1 DEF FilePlaces
  <2>3. \A j \in 1 .. Len(c.line) : c.line[j].kind = "-O" <=> j = c.optimizationLevel
    BY SoundFacts DEF Does
  <2> QED
    BY <1>1, <1>3, <2>2, <2>3
<1>6. Does(d, {a}, out, lev)
  <2>1. Inputs(d) = {a}
    BY <1>2, <1>5 DEF Inputs, OneSource
  <2> QED
    BY <1>1, <1>2, <1>4, <1>5, <2>1, SoundFacts DEF Does, OutputOf, LevelOf
<1>7. OneSource(d)
  BY <1>0, <1>1, <1>2, <1>5 DEF OneSource
<1> QED
  BY <1>6, <1>7 DEF d

LEMMA Joined3 == ASSUME NEW S, NEW s \in Seq(S), NEW t \in Seq(S), NEW u \in Seq(S)
  PROVE /\ s \o t \o u \in Seq(S) /\ Len(s \o t \o u) = Len(s) + Len(t) + Len(u)
        /\ \A i \in 1 .. Len(s) : (s \o t \o u)[i] = s[i]
        /\ \A i \in 1 .. Len(t) : (s \o t \o u)[Len(s) + i] = t[i]
        /\ \A i \in 1 .. Len(u) : (s \o t \o u)[Len(s) + Len(t) + i] = u[i]
<1> DEFINE f == s \o t
<1>0. Len(s) \in Nat /\ Len(t) \in Nat /\ Len(u) \in Nat
  OBVIOUS
<1>1. f \in Seq(S) /\ Len(f) = Len(s) + Len(t)
  BY ConcatProperties
<1>2. /\ \A i \in 1 .. Len(s) : f[i] = s[i]
      /\ \A i \in 1 .. Len(t) : f[Len(s) + i] = t[i]
  BY <1>0, ConcatProperties
<1> HIDE DEF f
<1>3. f \o u \in Seq(S) /\ Len(f \o u) = Len(f) + Len(u)
  BY <1>1, ConcatProperties
<1>4. /\ \A i \in 1 .. Len(f) : (f \o u)[i] = f[i]
      /\ \A i \in 1 .. Len(u) : (f \o u)[Len(f) + i] = u[i]
  BY <1>0, <1>1, ConcatProperties
<1> QED
  BY <1>0, <1>1, <1>2, <1>3, <1>4 DEF f

Inserted(s, at, t) == SubSeq(s, 1, at - 1) \o t \o SubSeq(s, at, Len(s))

LEMMA InsertedAt ==
  ASSUME NEW S, NEW s \in Seq(S), NEW t \in Seq(S), NEW at \in 1 .. Len(s) + 1
  PROVE  LET r == Inserted(s, at, t)
         IN  /\ r \in Seq(S) /\ Len(r) = Len(s) + Len(t)
             /\ \A i \in 1 .. at - 1 : r[i] = s[i]
             /\ \A i \in 1 .. Len(t) : r[at - 1 + i] = t[i]
             /\ \A i \in at .. Len(s) : r[i + Len(t)] = s[i]
<1> DEFINE low == SubSeq(s, 1, at - 1)
           high == SubSeq(s, at, Len(s))
           r == low \o t \o high
<1>1. Len(s) \in Nat /\ Len(t) \in Nat /\ at \in Nat
  OBVIOUS
<1>2. low \in Seq(S) /\ Len(low) = at - 1 /\ \A i \in 1 .. at - 1 : low[i] = s[i]
  BY <1>1
<1>3. high \in Seq(S) /\ Len(high) = Len(s) - at + 1
  BY <1>1
<1>4. \A i \in at .. Len(s) : high[i - at + 1] = s[i]
  BY <1>1
<1> HIDE DEF low, high
<1>5. /\ r \in Seq(S) /\ Len(r) = Len(low) + Len(t) + Len(high)
      /\ \A i \in 1 .. Len(low) : r[i] = low[i]
      /\ \A i \in 1 .. Len(t) : r[Len(low) + i] = t[i]
      /\ \A i \in 1 .. Len(high) : r[Len(low) + Len(t) + i] = high[i]
  <2>1. low \in Seq(S) /\ high \in Seq(S)
    BY <1>2, <1>3
  <2> QED
    BY <2>1, Joined3
<1> HIDE DEF r
<1>6. Len(r) = Len(s) + Len(t)
  BY <1>1, <1>2, <1>3, <1>5
<1>7. \A i \in 1 .. at - 1 : r[i] = s[i]
  BY <1>2, <1>5
<1>8. \A i \in 1 .. Len(t) : r[at - 1 + i] = t[i]
  BY <1>2, <1>5
<1>9. \A i \in at .. Len(s) : r[i + Len(t)] = s[i]
  <2> TAKE i \in at .. Len(s)
  <2>1. i - at + 1 \in 1 .. Len(high)
    BY <1>1, <1>3
  <2>2. r[Len(low) + Len(t) + (i - at + 1)] = high[i - at + 1]
    BY <1>5, <2>1
  <2>3. Len(low) + Len(t) + (i - at + 1) = i + Len(t)
    BY <1>1, <1>2
  <2> QED
    BY <1>4, <2>2, <2>3
<1> QED
  BY <1>5, <1>6, <1>7, <1>8, <1>9 DEF r, low, high, Inserted

LEMMA InsertFacts ==
    ASSUME NEW c \in Command, NEW at \in 1 .. Len(c.line) + 1, NEW args \in Seq(Argument)
    PROVE  LET d == Insert(c, at, args)
               Moved(i) == IF i >= at THEN i + Len(args) ELSE i
           IN  /\ d \in Command /\ Len(d.line) = Len(c.line) + Len(args) /\ Len(args) \in Nat
               /\ \A i \in 1 .. at - 1 : d.line[i] = c.line[i]
               /\ \A i \in 1 .. Len(args) : d.line[at - 1 + i] = args[i]
               /\ \A i \in at .. Len(c.line) : d.line[i + Len(args)] = c.line[i]
               /\ d.sourcePath = Moved(c.sourcePath) /\ d.output = Moved(c.output)
               /\ d.optimizationLevel = Moved(c.optimizationLevel)
<1> DEFINE d == Insert(c, at, args)
<1>1. c.line \in Seq(Argument) /\ Len(args) \in Nat /\ at \in Nat
  BY DEF Command
<1>2. d.line = Inserted(c.line, at, args)
  BY DEF Insert, Inserted
<1> HIDE DEF d
<1>3. /\ d.line \in Seq(Argument) /\ Len(d.line) = Len(c.line) + Len(args)
      /\ \A i \in 1 .. at - 1 : d.line[i] = c.line[i]
      /\ \A i \in 1 .. Len(args) : d.line[at - 1 + i] = args[i]
      /\ \A i \in at .. Len(c.line) : d.line[i + Len(args)] = c.line[i]
  <2> DEFINE s == c.line
             r == Inserted(s, at, args)
  <2>1. s \in Seq(Argument) /\ at \in 1 .. Len(s) + 1
    BY <1>1
  <2> HIDE DEF s
  <2>2. /\ r \in Seq(Argument) /\ Len(r) = Len(s) + Len(args)
        /\ \A i \in 1 .. at - 1 : r[i] = s[i]
        /\ \A i \in 1 .. Len(args) : r[at - 1 + i] = args[i]
        /\ \A i \in at .. Len(s) : r[i + Len(args)] = s[i]
    BY <2>1, InsertedAt
  <2> QED
    BY <1>2, <2>2 DEF s
<1>4. /\ d = [line |-> d.line, sourcePath |-> d.sourcePath, output |-> d.output, optimizationLevel |-> d.optimizationLevel]
      /\ d.sourcePath = IF c.sourcePath >= at THEN c.sourcePath + Len(args) ELSE c.sourcePath
      /\ d.output = IF c.output >= at THEN c.output + Len(args) ELSE c.output
      /\ d.optimizationLevel = IF c.optimizationLevel >= at THEN c.optimizationLevel + Len(args) ELSE c.optimizationLevel
  BY DEF d, Insert
<1>5. d \in Command
  BY <1>1, <1>3, <1>4 DEF Command
<1> QED
  BY <1>1, <1>3, <1>4, <1>5 DEF d

(* What an edit that takes arguments away, or puts some in, does to the places  *)
(* of those that stay: "to" says where each of them goes.                      *)
Carries(c, d, kept, to) ==
    /\ kept \subseteq 1 .. Len(c.line) /\ to \in [kept -> 1 .. Len(d.line)]
    /\ \A i \in kept : d.line[to[i]] = c.line[i]
    /\ \A i, j \in kept : to[i] = to[j] => i = j
    /\ \A i \in kept : i > 2 /\ i - 1 \in kept => to[i - 1] = to[i] - 1
    /\ 1 \in kept /\ to[1] = 1
    /\ c.output \in kept /\ c.output - 1 \in kept /\ d.output = to[c.output]
    /\ c.optimizationLevel = 0 => d.optimizationLevel = 0
    /\ c.optimizationLevel # 0 => c.optimizationLevel \in kept /\ d.optimizationLevel = to[c.optimizationLevel]

Staying(kept, to) == {to[i] : i \in kept}
Harmless(arg) == arg.kind \notin {"-o", "-O", "-Wl"}
PutIn(d, kept, to) == {d.line[n] : n \in (1 .. Len(d.line)) \ Staying(kept, to)}
HarmlessIn(d, kept, to) == \A a \in PutIn(d, kept, to) : Harmless(a)
NoFileIn(d, kept, to) == \A a \in PutIn(d, kept, to) : a.kind \notin FileKinds
ReadAre(c, d, kept, to, ins) ==
    /\ \A i \in kept \ {c.output} : c.line[i].kind \in FileKinds => c.line[i] \in ins
    /\ \A a \in PutIn(d, kept, to) : a.kind \in FileKinds => a \in ins
    /\ \A a \in ins : a.kind \in FileKinds /\ (a \in PutIn(d, kept, to) \/ \E i \in kept \ {c.output} : c.line[i] = a)

LEMMA CarriedSound ==
    ASSUME NEW c, NEW d \in Command, NEW kept, NEW to, Sound(c), Carries(c, d, kept, to), HarmlessIn(d, kept, to)
    PROVE  Sound(d) /\ OutputOf(d) = OutputOf(c) /\ LevelOf(d) = LevelOf(c) /\ d.line[1] = c.line[1]
<1>1. /\ c.output \in 3 .. Len(c.line) /\ Len(c.line) \in Nat
      /\ c.line[1].kind = "tool" /\ c.line[c.output - 1] = DashO /\ c.line[c.output].kind \in FileKinds
      /\ c.optimizationLevel # 1
  BY SoundFacts
<1>2. to \in [kept -> 1 .. Len(d.line)] /\ Len(d.line) \in Nat
  BY DEF Carries, Command
<1>3. /\ d.output \in 3 .. Len(d.line) /\ d.line[d.output] = c.line[c.output]
      /\ to[c.output - 1] = d.output - 1 /\ d.line[d.output - 1] = DashO
  <2>1. /\ c.output \in kept /\ c.output - 1 \in kept /\ 1 \in kept /\ c.output - 1 # 1 /\ c.output > 2
        /\ d.output = to[c.output]
    BY <1>1 DEF Carries
  <2>2. to[c.output - 1] = to[c.output] - 1 /\ to[c.output - 1] # to[1] /\ to[1] = 1
    BY <2>1 DEF Carries
  <2>3. to[c.output - 1] \in 1 .. Len(d.line) /\ to[c.output] \in 1 .. Len(d.line)
    BY <1>2, <2>1
  <2>4. d.line[to[c.output]] = c.line[c.output] /\ d.line[to[c.output - 1]] = c.line[c.output - 1]
    BY <2>1 DEF Carries
  <2> QED
    BY <1>1, <1>2, <2>1, <2>2, <2>3, <2>4
<1>4. d.line[1] = c.line[1]
  BY DEF Carries
<1>5. ASSUME c.optimizationLevel = 0
      PROVE  d.optimizationLevel = 0
  BY <1>5 DEF Carries
<1>6. ASSUME c.optimizationLevel # 0
      PROVE  d.optimizationLevel \in 2 .. Len(d.line) /\ d.line[d.optimizationLevel] = c.line[c.optimizationLevel]
  <2>1. /\ c.optimizationLevel \in kept /\ d.optimizationLevel = to[c.optimizationLevel] /\ 1 \in kept /\ to[1] = 1
        /\ to[c.optimizationLevel] # to[1] /\ d.line[to[c.optimizationLevel]] = c.line[c.optimizationLevel]
    BY <1>1, <1>6 DEF Carries
  <2> QED
    BY <1>2, <2>1
<1>7. ASSUME NEW n \in 1 .. Len(d.line)
      PROVE  /\ d.line[n].kind = "-o" => n = d.output - 1
             /\ d.line[n].kind = "-O" <=> n = d.optimizationLevel
  <2>1. CASE n \in Staying(kept, to)
    <3>1. PICK i \in kept : n = to[i]
      BY <2>1 DEF Staying
    <3>2. i \in 1 .. Len(c.line) /\ d.line[n] = c.line[i]
      BY <3>1 DEF Carries
    <3>3. c.line[i].kind = "-o" => n = d.output - 1
      BY <1>3, <3>1, <3>2, SoundFacts
    <3>4. c.line[i].kind = "-O" <=> i = c.optimizationLevel
      BY <3>2, SoundFacts
    <3>5. i = c.optimizationLevel => n = d.optimizationLevel
      BY <1>1, <3>1, <3>2 DEF Carries
    <3>6. n = d.optimizationLevel => i = c.optimizationLevel
      <4>1. c.optimizationLevel = 0 => n # d.optimizationLevel
        BY <1>5
      <4>2. c.optimizationLevel # 0 /\ to[c.optimizationLevel] = to[i] => i = c.optimizationLevel
        BY DEF Carries
      <4>3. c.optimizationLevel # 0 => d.optimizationLevel = to[c.optimizationLevel]
        BY DEF Carries
      <4> QED
        BY <3>1, <4>1, <4>2, <4>3
    <3> QED
      BY <3>2, <3>3, <3>4, <3>5, <3>6
  <2>2. CASE n \notin Staying(kept, to)
    <3>1. d.line[n].kind \notin {"-o", "-O"}
      BY <2>2 DEF Harmless, HarmlessIn, PutIn
    <3>2. n # d.optimizationLevel
      <4>1. c.optimizationLevel = 0 => n # d.optimizationLevel
        BY <1>5
      <4>0. \A i \in kept : to[i] \in Staying(kept, to)
        BY DEF Staying
      <4>2. c.optimizationLevel # 0 => d.optimizationLevel \in Staying(kept, to)
        BY <4>0 DEF Carries
      <4> QED
        BY <2>2, <4>1, <4>2
    <3> QED
      BY <3>1, <3>2
  <2> QED
    BY <2>1, <2>2
<1>8. Sound(d)
  BY <1>1, <1>3, <1>4, <1>5, <1>6, <1>7 DEF Sound, Carries
<1> QED
  BY <1>3, <1>4, <1>5, <1>6, <1>8 DEF OutputOf, LevelOf, Carries

(* What is read is what stays and what is put in. *)
LEMMA CarriedInputs ==
    ASSUME NEW c, NEW d \in Command, NEW kept, NEW to, NEW ins, Carries(c, d, kept, to), Sound(d),
           ReadAre(c, d, kept, to, ins)
    PROVE  Inputs(d) = ins
<1>1. \A n \in FilePlaces(d) \ {d.output} : d.line[n] \in ins
  <2> TAKE n \in FilePlaces(d) \ {d.output}
  <2>0. n \in 1 .. Len(d.line) /\ d.line[n].kind \in FileKinds /\ n # d.output
    BY DEF FilePlaces
  <2>1. CASE n \in Staying(kept, to)
    <3>1. PICK i \in kept : n = to[i]
      BY <2>1 DEF Staying
    <3>2. d.line[n] = c.line[i] /\ i # c.output
      BY <2>0, <3>1 DEF Carries
    <3> QED
      BY <2>0, <3>1, <3>2 DEF ReadAre
  <2>2. CASE n \notin Staying(kept, to)
    BY <2>0, <2>2 DEF ReadAre, PutIn
  <2> QED
    BY <2>1, <2>2
<1>2. ASSUME NEW a \in ins
      PROVE  \E n \in FilePlaces(d) \ {d.output} : d.line[n] = a
  <2>1. ASSUME NEW i \in kept \ {c.output}, c.line[i] = a, a.kind \in FileKinds
        PROVE  to[i] \in FilePlaces(d) \ {d.output} /\ d.line[to[i]] = a
    <3>1. /\ to[i] \in 1 .. Len(d.line) /\ d.line[to[i]] = c.line[i]
          /\ to[i] = to[c.output] => i = c.output
          /\ d.output = to[c.output]
      BY DEF Carries
    <3> QED
      BY <2>1, <3>1 DEF FilePlaces
  <2>2. ASSUME NEW n \in 1 .. Len(d.line), n \notin Staying(kept, to), d.line[n] = a, a.kind \in FileKinds
        PROVE  n \in FilePlaces(d) \ {d.output} /\ d.line[n] = a
    <3>1. d.output \in Staying(kept, to)
      BY DEF Carries, Staying
    <3> QED
      BY <2>2, <3>1 DEF FilePlaces
  <2>3. a \in PutIn(d, kept, to) => \E n \in 1 .. Len(d.line) : n \notin Staying(kept, to) /\ d.line[n] = a
    BY DEF PutIn
  <2> QED
    BY <2>1, <2>2, <2>3 DEF ReadAre
<1> QED
  BY <1>1, <1>2 DEF Inputs

LEMMA CarriedOneSource ==
    ASSUME NEW c, NEW d \in Command, NEW kept, NEW to, Sound(c), OneSource(c), Carries(c, d, kept, to),
           c.sourcePath \in kept, d.sourcePath = to[c.sourcePath], HarmlessIn(d, kept, to), NoFileIn(d, kept, to)
    PROVE  OneSource(d)
<1>1. /\ c.sourcePath \in FilePlaces(c) /\ c.sourcePath # c.output
      /\ \A i \in FilePlaces(c) : i \in {c.sourcePath, c.output}
  BY DEF OneSource
<1>2. d.sourcePath \in FilePlaces(d) /\ d.sourcePath # d.output
  <2>1. /\ to[c.sourcePath] \in 1 .. Len(d.line) /\ d.line[to[c.sourcePath]] = c.line[c.sourcePath]
        /\ to[c.sourcePath] = to[c.output] => c.sourcePath = c.output
        /\ d.output = to[c.output]
    BY DEF Carries
  <2> QED
    BY <1>1, <2>1 DEF FilePlaces
<1>3. ASSUME NEW n \in FilePlaces(d)
      PROVE  n \in {d.sourcePath, d.output}
  <2>0. n \in 1 .. Len(d.line) /\ d.line[n].kind \in FileKinds
    BY DEF FilePlaces
  <2>1. PICK i \in kept : n = to[i]
    BY <2>0 DEF Staying, NoFileIn, PutIn
  <2>2. i \in FilePlaces(c)
    BY <2>0, <2>1 DEF Carries, FilePlaces
  <2> QED
    BY <1>1, <2>1, <2>2 DEF Carries
<1>4. ASSUME NEW n \in 1 .. Len(d.line)
      PROVE  d.line[n].kind # "-Wl"
  <2>1. CASE n \in Staying(kept, to)
    <3>1. PICK i \in kept : n = to[i]
      BY <2>1 DEF Staying
    <3> QED
      BY <3>1 DEF Carries, OneSource
  <2>2. CASE n \notin Staying(kept, to)
    BY <2>2 DEF Harmless, HarmlessIn, PutIn
  <2> QED
    BY <2>1, <2>2
<1> QED
  BY <1>2, <1>3, <1>4 DEF OneSource

KeepsWl(c, kept) == \A i \in 1 .. Len(c.line) : c.line[i].kind = "-Wl" => i \in kept

LEMMA CarriedNoStray ==
    ASSUME NEW c, NEW d \in Command, NEW kept, NEW to, Sound(c), NoStray(c.line), Carries(c, d, kept, to),
           KeepsWl(c, kept), HarmlessIn(d, kept, to)
    PROVE  NoStray(d.line)
<1> SUFFICES ASSUME NEW n \in 1 .. Len(d.line), d.line[n].kind = "-Wl"
             PROVE  \/ d.line[n].name \in {"-z", "-soname,name", "-soname"}
                    \/ n > 1 /\ d.line[n - 1] = Soname
  BY DEF NoStray
<1>1. PICK i \in kept : n = to[i]
  BY DEF Harmless, HarmlessIn, PutIn, Staying
<1>2. i \in 1 .. Len(c.line) /\ d.line[n] = c.line[i] /\ c.line[1].kind = "tool" /\ Len(c.line) \in Nat
  BY <1>1, SoundFacts DEF Carries
<1>3. ASSUME i > 1, c.line[i - 1] = Soname
      PROVE  n > 1 /\ d.line[n - 1] = Soname
  <2>1. c.line[i - 1].kind = "-Wl"
    BY <1>3 DEF Arg, Soname
  <2>2. i - 1 # 1
    BY <1>2, <2>1
  <2>3. i - 1 \in kept /\ i > 2
    BY <1>2, <1>3, <2>1, <2>2 DEF KeepsWl
  <2>4. to[i - 1] = n - 1 /\ to[i - 1] \in 1 .. Len(d.line)
    BY <1>1, <2>3 DEF Carries
  <2>5. d.line[to[i - 1]] = c.line[i - 1]
    BY <2>3 DEF Carries
  <2> QED
    BY <1>3, <2>4, <2>5
<1> QED
  BY <1>2, <1>3 DEF NoStray

(* Insert, behind the tool or at the end. *)
Shift(c, at, k) == [i \in 1 .. Len(c.line) |-> IF i >= at THEN i + k ELSE i]

Inserts(c, d, at, args) ==
    /\ d \in Command /\ Carries(c, d, 1 .. Len(c.line), Shift(c, at, Len(args)))
    /\ d.sourcePath = IF c.sourcePath >= at THEN c.sourcePath + Len(args) ELSE c.sourcePath
    /\ PutIn(d, 1 .. Len(c.line), Shift(c, at, Len(args))) = {args[i] : i \in 1 .. Len(args)}

LEMMA InsertCarries ==
    ASSUME NEW c, Sound(c), NEW at \in {2, Len(c.line) + 1}, NEW args \in Seq(Argument), NEW d, d = Insert(c, at, args)
    PROVE  Inserts(c, d, at, args)
<1> DEFINE k == Len(args)
           kept == 1 .. Len(c.line)
           to == Shift(c, at, k)
<1>1. /\ c \in Command /\ c.output \in 3 .. Len(c.line) /\ Len(c.line) \in Nat
      /\ c.optimizationLevel \in 0 .. Len(c.line) /\ c.optimizationLevel # 1
  BY SoundFacts
<1>2. at \in 2 .. Len(c.line) + 1 /\ at \in 1 .. Len(c.line) + 1 /\ (at = 2 \/ at = Len(c.line) + 1)
  BY <1>1
<1>3. /\ d \in Command /\ Len(d.line) = Len(c.line) + k /\ k \in Nat
      /\ \A i \in 1 .. at - 1 : d.line[i] = c.line[i]
      /\ \A i \in 1 .. k : d.line[at - 1 + i] = args[i]
      /\ \A i \in at .. Len(c.line) : d.line[i + k] = c.line[i]
      /\ d.sourcePath = IF c.sourcePath >= at THEN c.sourcePath + k ELSE c.sourcePath
      /\ d.output = IF c.output >= at THEN c.output + k ELSE c.output
      /\ d.optimizationLevel = IF c.optimizationLevel >= at THEN c.optimizationLevel + k ELSE c.optimizationLevel
  BY <1>1, <1>2, InsertFacts
<1> HIDE DEF k
<1>4. \A i \in kept : to[i] = IF i >= at THEN i + k ELSE i
  BY DEF Shift
<1>5a. at \in Nat /\ k \in Nat /\ at >= 2 /\ at <= Len(c.line) + 1
  BY <1>1, <1>2, <1>3
<1>5. to \in [kept -> 1 .. Len(d.line)]
  BY <1>1, <1>2, <1>3 DEF Shift
<1> HIDE DEF to
<1>6. \A i \in kept : d.line[to[i]] = c.line[i]
  <2> TAKE i \in kept
  <2>1. CASE i >= at
    <3>1. i \in at .. Len(c.line) /\ to[i] = i + k
      BY <1>1, <1>4, <1>5a, <2>1
    <3> QED
      BY <1>3, <3>1
  <2>2. CASE i < at
    <3>1. i \in 1 .. at - 1 /\ to[i] = i
      BY <1>1, <1>4, <1>5a, <2>2
    <3> QED
      BY <1>3, <3>1
  <2> QED
    BY <1>1, <1>5a, <2>1, <2>2
<1>7. \A i, j \in kept : to[i] = to[j] => i = j
  BY <1>1, <1>4, <1>5a
<1>8. \A i \in kept : i > 2 /\ i - 1 \in kept => to[i - 1] = to[i] - 1
  <2> SUFFICES ASSUME NEW i \in kept, i > 2, i - 1 \in kept
               PROVE  to[i - 1] = to[i] - 1
    OBVIOUS
  <2>1. PICK j : j = i - 1
    OBVIOUS
  <2>2. /\ to[j] = IF j >= at THEN j + k ELSE j
        /\ to[i] = IF i >= at THEN i + k ELSE i
    BY <1>4, <2>1
  <2>3. i \in Nat /\ i <= Len(c.line)
    BY <1>1
  <2>4. at = 2 \/ i < at
    BY <1>1, <1>2, <2>3
  <2>5. to[j] = to[i] - 1
    BY <1>5a, <2>1, <2>2, <2>3, <2>4
  <2> QED
    BY <2>1, <2>5
<1>9. 1 \in kept /\ to[1] = 1 /\ c.output \in kept /\ c.output - 1 \in kept /\ d.output = to[c.output]
  <2>1. 1 \in kept /\ c.output \in kept /\ c.output - 1 \in kept
    BY <1>1
  <2>2. to[1] = 1
    BY <1>4, <1>5a, <2>1
  <2>3. d.output = to[c.output]
    BY <1>3, <1>4, <2>1
  <2> QED
    BY <2>1, <2>2, <2>3
<1>10. /\ c.optimizationLevel = 0 => d.optimizationLevel = 0
       /\ c.optimizationLevel # 0 => c.optimizationLevel \in kept /\ d.optimizationLevel = to[c.optimizationLevel]
  <2>1. PICK o, q : o = c.optimizationLevel /\ q = d.optimizationLevel
    OBVIOUS
  <2>2. o \in 0 .. Len(c.line) /\ q = IF o >= at THEN o + k ELSE o
    BY <1>1, <1>3, <2>1
  <2>3. o = 0 => q = 0
    BY <1>5a, <2>2
  <2>4. o # 0 => o \in kept
    BY <1>1, <2>2
  <2>5. o # 0 => q = to[o]
    BY <1>4, <2>2, <2>4
  <2> QED
    BY <2>1, <2>3, <2>4, <2>5
<1>11. Carries(c, d, kept, to)
  BY <1>5, <1>6, <1>7, <1>8, <1>9, <1>10 DEF Carries
<1>12. ASSUME NEW n \in 1 .. Len(d.line), n \notin Staying(kept, to)
       PROVE  \E i \in 1 .. k : d.line[n] = args[i]
  <2>1. \A i \in kept : n # to[i]
    BY <1>12 DEF Staying
  <2>2. n >= at
    BY <1>1, <1>2, <1>4, <2>1
  <2>3. n < at + k
    <3>1. ASSUME n >= at + k
          PROVE  FALSE
      <4>1. n - k \in kept /\ n - k >= at
        BY <1>1, <1>2, <1>3, <3>1
      <4>2. to[n - k] = n
        BY <1>3, <1>4, <4>1
      <4> QED
        BY <2>1, <4>1, <4>2
    <3> QED
      BY <1>2, <1>3, <3>1
  <2>4. n - at + 1 \in 1 .. k /\ at - 1 + (n - at + 1) = n
    BY <1>5a, <2>2, <2>3
  <2> QED
    BY <1>3, <2>4
<1>13. ASSUME NEW i \in 1 .. k
       PROVE  at - 1 + i \in 1 .. Len(d.line) /\ at - 1 + i \notin Staying(kept, to)
  <2>1. \A j \in kept : at - 1 + i # to[j]
    BY <1>1, <1>4, <1>5a
  <2>2. at - 1 + i \in 1 .. Len(d.line)
    BY <1>1, <1>3, <1>5a
  <2> QED
    BY <2>1, <2>2 DEF Staying
<1>14. PutIn(d, kept, to) = {args[i] : i \in 1 .. k}
  <2>1. \A a \in PutIn(d, kept, to) : a \in {args[i] : i \in 1 .. k}
    BY <1>12 DEF PutIn
  <2>2. ASSUME NEW i \in 1 .. k
        PROVE  args[i] \in PutIn(d, kept, to)
    <3>1. d.line[at - 1 + i] = args[i] /\ at - 1 + i \in (1 .. Len(d.line)) \ Staying(kept, to)
      BY <1>3, <1>13
    <3> QED
      BY <3>1 DEF PutIn
  <2> QED
    BY <2>1, <2>2
<1> QED
  BY <1>3, <1>11, <1>14 DEF k, to, Inserts

(* Files that are put in are read as well; other arguments change nothing. *)
FilesIn(args) == {args[i] : i \in {i \in 1 .. Len(args) : args[i].kind \in FileKinds}}

AtAnEnd(c, d, args) == \E at \in {2, Len(c.line) + 1} : d = Insert(c, at, args)
AllHarmless(args) == \A i \in 1 .. Len(args) : Harmless(args[i])

LEMMA InsertHarmless ==
    ASSUME NEW c, NEW ins, NEW out, NEW lev, Does(c, ins, out, lev),
           NEW args \in Seq(Argument), AllHarmless(args), NEW d, AtAnEnd(c, d, args)
    PROVE  /\ Does(d, ins \cup FilesIn(args), out, lev) /\ d.line[1] = c.line[1]
           /\ FilesIn(args) = {} /\ OneSource(c) => OneSource(d)
           /\ NoStray(c.line) => NoStray(d.line)
<1>a. PICK at \in {2, Len(c.line) + 1} : d = Insert(c, at, args)
  BY DEF AtAnEnd
<1> DEFINE kept == 1 .. Len(c.line)
           to == Shift(c, at, Len(args))
<1>1. Sound(c) /\ Inputs(c) = ins /\ OutputOf(c) = out /\ LevelOf(c) = lev
  BY DEF Does
<1>2. /\ d \in Command /\ Carries(c, d, kept, to)
      /\ d.sourcePath = IF c.sourcePath >= at THEN c.sourcePath + Len(args) ELSE c.sourcePath
      /\ PutIn(d, kept, to) = {args[i] : i \in 1 .. Len(args)}
  <2>1. Inserts(c, d, at, args)
    BY <1>a, <1>1, InsertCarries
  <2> QED
    BY <2>1 DEF Inserts
<1>3. c.sourcePath \in kept => d.sourcePath = to[c.sourcePath]
  BY <1>2 DEF Shift
<1> HIDE DEF to
<1>4. HarmlessIn(d, kept, to)
  BY <1>2 DEF HarmlessIn, AllHarmless
<1>5. Sound(d) /\ OutputOf(d) = out /\ LevelOf(d) = lev /\ d.line[1] = c.line[1]
  BY <1>1, <1>2, <1>4, CarriedSound
<1>6. Inputs(d) = ins \cup FilesIn(args)
  <2>1. ReadAre(c, d, kept, to, ins \cup FilesIn(args))
    BY <1>1, <1>2 DEF ReadAre, Inputs, FilePlaces, FilesIn
  <2> QED
    BY <1>2, <1>5, <2>1, CarriedInputs
<1>7. ASSUME FilesIn(args) = {}, OneSource(c)
      PROVE  OneSource(d)
  <2>1. c.sourcePath \in kept
    BY <1>7 DEF OneSource, FilePlaces
  <2>2. NoFileIn(d, kept, to)
    BY <1>2, <1>7 DEF FilesIn, NoFileIn
  <2> QED
    BY <1>1, <1>2, <1>3, <1>4, <1>7, <2>1, <2>2, CarriedOneSource
<1>8. ASSUME NoStray(c.line)
      PROVE  NoStray(d.line)
  BY <1>1, <1>2, <1>4, <1>8, CarriedNoStray DEF KeepsWl
<1> QED
  BY <1>5, <1>6, <1>7, <1>8 DEF Does

(* What EraseIf leaves. *)
Left(c, args) == {i \in DOMAIN c.line : c.line[i] \notin args}
Ranks(places) == [i \in places |-> Rank(places, i)]

LEMMA EraseIfCarries ==
    ASSUME NEW c, Sound(c), NEW args, NEW d, d = EraseIf(c, args),
           \A a \in args : a.kind \notin {"tool", "-o", "-O"}, OutputOf(c) \notin args
    PROVE  /\ d \in Command /\ Carries(c, d, Left(c, args), Ranks(Left(c, args)))
           /\ PutIn(d, Left(c, args), Ranks(Left(c, args))) = {}
           /\ c.sourcePath \in Left(c, args) => d.sourcePath = Ranks(Left(c, args))[c.sourcePath]
<1> DEFINE kept == Left(c, args)
           to == Ranks(kept)
<1>1. /\ c \in Command /\ c.line \in Seq(Argument) /\ c.output \in 3 .. Len(c.line) /\ Len(c.line) \in Nat
      /\ c.optimizationLevel \in 0 .. Len(c.line) /\ c.optimizationLevel # 1 /\ DOMAIN c.line = 1 .. Len(c.line)
  BY SoundFacts
<1>2. /\ 1 \in kept /\ c.output \in kept /\ c.output - 1 \in kept
      /\ c.optimizationLevel # 0 => c.optimizationLevel \in kept
      /\ kept \in SUBSET (1 .. Len(c.line)) /\ kept \in SUBSET DOMAIN c.line
  <2>1. /\ c.line[1].kind = "tool" /\ c.line[c.output - 1].kind = "-o"
        /\ c.optimizationLevel # 0 => c.line[c.optimizationLevel].kind = "-O"
    BY <1>1, Literals, SoundFacts
  <2>2. /\ 1 \in 1 .. Len(c.line) /\ c.output \in 1 .. Len(c.line) /\ c.output - 1 \in 1 .. Len(c.line)
        /\ c.optimizationLevel # 0 => c.optimizationLevel \in 1 .. Len(c.line)
    BY <1>1
  <2>3. c.line[c.output] \notin args
    BY DEF OutputOf
  <2> QED
    BY <1>1, <2>1, <2>2, <2>3 DEF Left
<1>3. d = [line |-> Kept(c.line, kept),
           sourcePath |-> IF c.sourcePath \in kept THEN Rank(kept, c.sourcePath) ELSE 0,
           output |-> IF c.output \in kept THEN Rank(kept, c.output) ELSE 0,
           optimizationLevel |-> IF c.optimizationLevel \in kept THEN Rank(kept, c.optimizationLevel) ELSE 0]
  BY DEF EraseIf, Left
<1> HIDE DEF kept
<1>4. /\ Kept(c.line, kept) \in Seq(Argument) /\ Len(Kept(c.line, kept)) = Cardinality(kept)
      /\ Cardinality(kept) \in Nat
      /\ \A i \in kept : Kept(c.line, kept)[Rank(kept, i)] = c.line[i]
  BY <1>1, <1>2, KeptFacts
<1>5. /\ \A i \in kept : Rank(kept, i) \in 1 .. Cardinality(kept) /\ Rank(kept, i) <= i
      /\ \A i, j \in kept : i < j => Rank(kept, i) < Rank(kept, j)
      /\ \A i \in kept : i + 1 \in kept => Rank(kept, i + 1) = Rank(kept, i) + 1
  BY <1>1, <1>2, RankFacts
<1>6. \A m \in 1 .. Cardinality(kept) : \E i \in kept : Rank(kept, i) = m
  BY <1>1, <1>2, RankOnto
<1>7. d \in Command /\ Len(d.line) = Cardinality(kept)
  BY <1>3, <1>4, <1>5 DEF Command
<1>8. \A i \in kept : to[i] = Rank(kept, i) /\ i \in Nat
  BY <1>2 DEF Ranks
<1>9. to \in [kept -> 1 .. Len(d.line)]
  BY <1>5, <1>7 DEF Ranks
<1> HIDE DEF to
<1>10. \A i \in kept : d.line[to[i]] = c.line[i]
  BY <1>3, <1>4, <1>8
<1>11. ASSUME NEW i \in kept, NEW j \in kept, to[i] = to[j]
       PROVE  i = j
  <2>1. ~ (i < j) /\ ~ (j < i)
    BY <1>4, <1>5, <1>8, <1>11
  <2> QED
    BY <1>8, <2>1
<1>12. ASSUME NEW i \in kept, i > 2, i - 1 \in kept
       PROVE  to[i - 1] = to[i] - 1
  <2>1. (i - 1) + 1 = i /\ i - 1 \in Nat
    BY <1>8, <1>12
  <2>2. Rank(kept, i) = Rank(kept, i - 1) + 1 /\ Rank(kept, i - 1) \in 1 .. Cardinality(kept)
    BY <1>5, <1>12, <2>1
  <2> QED
    BY <1>4, <1>8, <1>12, <2>2
<1>13. to[1] = 1
  BY <1>2, <1>4, <1>5, <1>8
<1>14. d.output = to[c.output] /\ (c.sourcePath \in kept => d.sourcePath = to[c.sourcePath])
  BY <1>2, <1>3, <1>8
<1>15. /\ c.optimizationLevel = 0 => d.optimizationLevel = 0
       /\ c.optimizationLevel # 0 => d.optimizationLevel = to[c.optimizationLevel]
  <2>1. 0 \notin kept
    BY <1>2
  <2> QED
    BY <1>2, <1>3, <1>8, <2>1
<1>16. Carries(c, d, kept, to)
  BY <1>2, <1>9, <1>10, <1>11, <1>12, <1>13, <1>14, <1>15 DEF Carries
<1>17. PutIn(d, kept, to) = {}
  <2>1. \A n \in 1 .. Len(d.line) : n \in Staying(kept, to)
    BY <1>6, <1>7, <1>8 DEF Staying
  <2> QED
    BY <2>1 DEF PutIn
<1> QED
  BY <1>7, <1>14, <1>16, <1>17 DEF kept, to

(* Arguments that are erased are not read, the others change nothing. *)
LEMMA EraseIfEffect ==
    ASSUME NEW c, NEW ins, NEW out, NEW lev, Does(c, ins, out, lev), NEW args, NEW d, d = EraseIf(c, args),
           \A a \in args : a.kind \notin {"tool", "-o", "-O"}, out \notin args
    PROVE  /\ Does(d, ins \ args, out, lev) /\ d.line[1] = c.line[1]
           /\ OneSource(c) /\ ins \cap args = {} => OneSource(d)
           /\ NoStray(c.line) /\ (\A a \in args : a.kind # "-Wl") => NoStray(d.line)
<1> DEFINE kept == Left(c, args)
           to == Ranks(kept)
<1>1. Sound(c) /\ Inputs(c) = ins /\ OutputOf(c) = out /\ LevelOf(c) = lev
  BY DEF Does
<1>2. /\ d \in Command /\ Carries(c, d, kept, to) /\ PutIn(d, kept, to) = {}
      /\ c.sourcePath \in kept => d.sourcePath = to[c.sourcePath]
  BY <1>1, EraseIfCarries
<1>3. \A i \in 1 .. Len(c.line) : i \in kept <=> c.line[i] \notin args
  BY <1>1, SoundFacts DEF Left
<1>4. kept \subseteq 1 .. Len(c.line)
  BY <1>2 DEF Carries
<1> HIDE DEF kept, to
<1>5. HarmlessIn(d, kept, to) /\ NoFileIn(d, kept, to)
  BY <1>2 DEF HarmlessIn, NoFileIn
<1>6. Sound(d) /\ OutputOf(d) = out /\ LevelOf(d) = lev /\ d.line[1] = c.line[1]
  BY <1>1, <1>2, <1>5, CarriedSound
<1>7. Inputs(d) = ins \ args
  <2>1. ReadAre(c, d, kept, to, ins \ args)
    BY <1>1, <1>2, <1>3, <1>4 DEF ReadAre, Inputs, FilePlaces
  <2> QED
    BY <1>2, <1>6, <2>1, CarriedInputs
<1>8. ASSUME OneSource(c), ins \cap args = {}
      PROVE  OneSource(d)
  <2>1. c.sourcePath \in kept
    BY <1>1, <1>3, <1>8 DEF OneSource, FilePlaces, Inputs
  <2> QED
    BY <1>1, <1>2, <1>5, <1>8, <2>1, CarriedOneSource
<1>9. ASSUME NoStray(c.line), \A a \in args : a.kind # "-Wl"
      PROVE  NoStray(d.line)
  BY <1>1, <1>2, <1>3, <1>5, <1>9, CarriedNoStray DEF KeepsWl
<1> QED
  BY <1>6, <1>7, <1>8, <1>9 DEF Does

LEMMA SetGives ==
    ASSUME NEW c \in Command, NEW i \in 1 .. Len(c.line), NEW a \in Argument, NEW d, d = Set(c, i, a)
    PROVE  /\ d \in Command /\ Len(d.line) = Len(c.line) /\ d.line[i] = a
           /\ \A j \in 1 .. Len(c.line) : j # i => d.line[j] = c.line[j]
           /\ d.output = c.output /\ d.sourcePath = c.sourcePath /\ d.optimizationLevel = c.optimizationLevel
BY SetFacts

LEMMA InsertOne ==
    ASSUME NEW c \in Command, Len(c.line) >= 1, NEW a \in Argument, NEW d, d = Insert(c, 2, <<a>>)
    PROVE  /\ d \in Command /\ Len(d.line) = Len(c.line) + 1 /\ d.line[1] = c.line[1] /\ d.line[2] = a
           /\ \A i \in 2 .. Len(c.line) : d.line[i + 1] = c.line[i]
           /\ d.sourcePath = IF c.sourcePath >= 2 THEN c.sourcePath + 1 ELSE c.sourcePath
           /\ d.output = IF c.output >= 2 THEN c.output + 1 ELSE c.output
           /\ d.optimizationLevel = IF c.optimizationLevel >= 2 THEN c.optimizationLevel + 1 ELSE c.optimizationLevel
<1> DEFINE args == <<a>>
<1>1. args \in Seq(Argument) /\ 2 \in 1 .. Len(c.line) + 1 /\ Len(args) = 1 /\ args[1] = a
  BY DEF Command
<1> HIDE DEF args
<1>2. /\ d \in Command /\ Len(d.line) = Len(c.line) + Len(args)
      /\ \A i \in 1 .. 2 - 1 : d.line[i] = c.line[i]
      /\ \A i \in 1 .. Len(args) : d.line[2 - 1 + i] = args[i]
      /\ \A i \in 2 .. Len(c.line) : d.line[i + Len(args)] = c.line[i]
      /\ d.sourcePath = IF c.sourcePath >= 2 THEN c.sourcePath + Len(args) ELSE c.sourcePath
      /\ d.output = IF c.output >= 2 THEN c.output + Len(args) ELSE c.output
      /\ d.optimizationLevel = IF c.optimizationLevel >= 2 THEN c.optimizationLevel + Len(args) ELSE c.optimizationLevel
  BY <1>1, InsertFacts DEF args
<1> QED
  BY <1>1, <1>2

(* Only one argument is replaced. *)
Differ(c, d, i) ==
    /\ i \in 2 .. Len(c.line) /\ Len(d.line) = Len(c.line)
    /\ \A j \in 1 .. Len(c.line) : j # i => d.line[j] = c.line[j]
    /\ d.output = c.output /\ d.sourcePath = c.sourcePath

LEMMA LevelPlaced ==
    ASSUME NEW c, NEW ins, NEW out, NEW lev, Does(c, ins, out, lev), NEW d \in Command, NEW i, Differ(c, d, i),
           c.line[i].kind \notin FileKinds \cup {"-o", "-Wl"}, c.optimizationLevel \in {0, i},
           d.line[i] = Nought, d.optimizationLevel = i
    PROVE  /\ Does(d, ins, out, Nought) /\ d.line[1] = c.line[1]
           /\ OneSource(c) => OneSource(d)
           /\ NoStray(c.line) => NoStray(d.line)
<1>1. /\ Sound(c) /\ c.output \in 3 .. Len(c.line) /\ Len(c.line) \in Nat
      /\ c.line[1].kind = "tool" /\ c.line[c.output - 1] = DashO /\ c.line[c.output].kind \in FileKinds
      /\ DashO.kind = "-o" /\ Nought.kind = "-O"
  BY SoundFacts, Literals DEF Does
<1>2. /\ i \in 2 .. Len(c.line) /\ Len(d.line) = Len(c.line)
      /\ \A j \in 1 .. Len(c.line) : j # i => d.line[j] = c.line[j]
      /\ d.output = c.output /\ d.sourcePath = c.sourcePath
  BY DEF Differ
<1>3. i # c.output /\ i # c.output - 1 /\ i # 1
  BY <1>1, <1>2
<1>4. c.output \in 1 .. Len(c.line) /\ c.output - 1 \in 1 .. Len(c.line) /\ 1 \in 1 .. Len(c.line)
  BY <1>1
<1>5. /\ d.line[1] = c.line[1] /\ d.line[c.output] = c.line[c.output] /\ d.line[c.output - 1] = c.line[c.output - 1]
  BY <1>2, <1>3, <1>4
<1>6. ASSUME NEW j \in 1 .. Len(d.line)
      PROVE  /\ d.line[j].kind = "-o" => j = d.output - 1
             /\ d.line[j].kind = "-O" <=> j = d.optimizationLevel
  <2>1. /\ c.line[j].kind = "-o" <=> j = c.output - 1
        /\ c.line[j].kind = "-O" <=> j = c.optimizationLevel
    BY <1>1, <1>2, SoundFacts
  <2> QED
    BY <1>1, <1>2, <1>3, <2>1
<1>7. Sound(d)
  BY <1>1, <1>2, <1>3, <1>5, <1>6 DEF Sound
<1>8. FilePlaces(d) = FilePlaces(c) /\ i \notin FilePlaces(c)
  BY <1>1, <1>2 DEF FilePlaces, FileKinds
<1>9. \A j \in FilePlaces(c) : d.line[j] = c.line[j]
  BY <1>2, <1>8 DEF FilePlaces
<1>10. Inputs(d) = ins
  BY <1>2, <1>8, <1>9 DEF Inputs, Does
<1>11. Does(d, ins, out, Nought)
  BY <1>2, <1>3, <1>5, <1>7, <1>10 DEF Does, OutputOf, LevelOf
<1>12. OneSource(c) => OneSource(d)
  BY <1>1, <1>2, <1>8 DEF OneSource
<1>13. ASSUME NoStray(c.line), NEW n \in 1 .. Len(d.line), d.line[n].kind = "-Wl"
       PROVE  \/ d.line[n].name \in {"-z", "-soname,name", "-soname"}
              \/ n > 1 /\ d.line[n - 1] = Soname
  <2>1. d.line[n] = c.line[n]
    BY <1>1, <1>2, <1>13
  <2>2. ASSUME n > 1, c.line[n - 1] = Soname
        PROVE  d.line[n - 1] = Soname
    <3>1. n - 1 \in 1 .. Len(c.line) /\ c.line[n - 1].kind = "-Wl"
      BY <1>1, <1>2, <2>2 DEF Arg, Soname
    <3> QED
      BY <1>2, <2>2, <3>1
  <2> QED
    BY <1>2, <1>13, <2>1, <2>2 DEF NoStray
<1> QED
  BY <1>5, <1>11, <1>12, <1>13 DEF NoStray

(* A command without a level is one that holds nothing where the level is put. *)
LEMMA SetOptimizationLevel ==
    ASSUME NEW c, NEW ins, NEW out, NEW lev, Does(c, ins, out, lev), NEW d, d = setOptimizationLevel(c, Nought)
    PROVE  /\ Does(d, ins, out, Nought) /\ d.optimizationLevel # 0 /\ d.line[1] = c.line[1]
           /\ OneSource(c) => OneSource(d)
           /\ NoStray(c.line) => NoStray(d.line)
<1>1. /\ Sound(c) /\ c \in Command /\ c.line \in Seq(Argument) /\ Len(c.line) \in Nat /\ c.output \in 3 .. Len(c.line)
      /\ Nought \in Argument /\ Nought.kind = "-O" /\ Nothing \in Argument /\ Nothing.kind = "nothing"
  BY SoundFacts, Literals DEF Does
<1>2. CASE c.optimizationLevel # 0
  <2>1. c.optimizationLevel \in 2 .. Len(c.line) /\ c.optimizationLevel \in 1 .. Len(c.line)
    BY <1>2, <1>1, SoundFacts
  <2>2. d = Set(c, c.optimizationLevel, Nought)
    BY <1>2 DEF setOptimizationLevel
  <2>3. c.line[c.optimizationLevel].kind \notin FileKinds \cup {"-o", "-Wl"}
    <3>1. c.line[c.optimizationLevel].kind = "-O"
      BY <1>1, <2>1, SoundFacts
    <3> QED
      BY <3>1 DEF FileKinds
  <2>4. /\ d \in Command /\ Len(d.line) = Len(c.line) /\ d.line[c.optimizationLevel] = Nought
        /\ \A j \in 1 .. Len(c.line) : j # c.optimizationLevel => d.line[j] = c.line[j]
        /\ d.output = c.output /\ d.sourcePath = c.sourcePath /\ d.optimizationLevel = c.optimizationLevel
    BY <1>1, <2>1, <2>2, SetGives
  <2>5. Differ(c, d, c.optimizationLevel)
    BY <2>1, <2>4 DEF Differ
  <2> QED
    BY <1>2, <2>1, <2>3, <2>4, <2>5, LevelPlaced
<1>3. CASE c.optimizationLevel = 0
  <2>1. PICK e : e = Insert(c, 2, <<Nothing>>)
    OBVIOUS
  <2>2. PICK f : f = Insert(c, 2, <<Nought>>)
    OBVIOUS
  <2>3. /\ e \in Command /\ Len(e.line) = Len(c.line) + 1 /\ e.line[1] = c.line[1] /\ e.line[2] = Nothing
        /\ \A i \in 2 .. Len(c.line) : e.line[i + 1] = c.line[i]
        /\ e.sourcePath = IF c.sourcePath >= 2 THEN c.sourcePath + 1 ELSE c.sourcePath
        /\ e.output = IF c.output >= 2 THEN c.output + 1 ELSE c.output
        /\ e.optimizationLevel = IF c.optimizationLevel >= 2 THEN c.optimizationLevel + 1 ELSE c.optimizationLevel
    BY <1>1, <2>1, InsertOne
  <2>4. /\ f \in Command /\ Len(f.line) = Len(c.line) + 1 /\ f.line[1] = c.line[1] /\ f.line[2] = Nought
        /\ \A i \in 2 .. Len(c.line) : f.line[i + 1] = c.line[i]
        /\ f.sourcePath = IF c.sourcePath >= 2 THEN c.sourcePath + 1 ELSE c.sourcePath
        /\ f.output = IF c.output >= 2 THEN c.output + 1 ELSE c.output
    BY <1>1, <2>2, InsertOne
  <2>5. d = [f EXCEPT !.optimizationLevel = 2]
    BY <1>3, <2>2 DEF setOptimizationLevel, addFlagsToBegin
  <2>6. Does(e, ins, out, lev) /\ (OneSource(c) => OneSource(e)) /\ (NoStray(c.line) => NoStray(e.line))
    <3> DEFINE args == <<Nothing>>
    <3>1. args \in Seq(Argument) /\ AllHarmless(args) /\ FilesIn(args) = {}
      BY <1>1 DEF AllHarmless, Harmless, FilesIn, FileKinds
    <3>2. AtAnEnd(c, e, args)
      BY <2>1 DEF AtAnEnd
    <3> HIDE DEF args
    <3>3. /\ Does(e, ins \cup FilesIn(args), out, lev)
          /\ FilesIn(args) = {} /\ OneSource(c) => OneSource(e)
          /\ NoStray(c.line) => NoStray(e.line)
      BY <3>1, <3>2, InsertHarmless
    <3> QED
      BY <3>1, <3>3
  <2>7. /\ d \in Command /\ d.optimizationLevel = 2 /\ d.output = e.output /\ d.sourcePath = e.sourcePath
        /\ Len(d.line) = Len(e.line) /\ d.line[2] = Nought /\ d.line = f.line
    <3>1. d.line = f.line /\ d.output = f.output /\ d.sourcePath = f.sourcePath /\ d.optimizationLevel = 2
      BY <2>4, <2>5 DEF Command
    <3>2. d \in Command
      BY <2>4, <2>5 DEF Command
    <3> QED
      BY <2>3, <2>4, <3>1, <3>2
  <2>8. ASSUME NEW j \in 1 .. Len(e.line), j # 2
        PROVE  d.line[j] = e.line[j]
    <3>1. CASE j = 1
      BY <2>3, <2>4, <2>7, <3>1
    <3>2. CASE j > 2
      <4>1. j - 1 \in 2 .. Len(c.line) /\ (j - 1) + 1 = j
        BY <1>1, <2>3, <3>2
      <4>2. e.line[(j - 1) + 1] = c.line[j - 1] /\ f.line[(j - 1) + 1] = c.line[j - 1]
        BY <2>3, <2>4, <4>1
      <4> QED
        BY <2>7, <4>1, <4>2
    <3> QED
      BY <2>8, <3>1, <3>2
  <2>9. e.line[2].kind \notin FileKinds \cup {"-o", "-Wl"} /\ e.optimizationLevel \in {0, 2}
    BY <1>1, <1>3, <2>3 DEF FileKinds
  <2>10. Differ(e, d, 2)
    BY <1>1, <2>3, <2>7, <2>8 DEF Differ
  <2>11. /\ Does(d, ins, out, Nought) /\ d.line[1] = e.line[1]
         /\ OneSource(e) => OneSource(d)
         /\ NoStray(e.line) => NoStray(d.line)
    BY <2>6, <2>7, <2>9, <2>10, LevelPlaced
  <2> QED
    BY <2>3, <2>6, <2>7, <2>11
<1> QED
  BY <1>2, <1>3

-----------------------------------------------------------------------------
(* The first argument of its kind. *)

LEMMA LeastNumber ==
    ASSUME NEW S \in SUBSET Nat, S # {}
    PROVE  \E n \in S : \A m \in S : n <= m
<1>1. PICK x \in S : \A y \in S : ~ (<<y, x>> \in OpToRel(<, Nat))
  BY NatLessThanWellFounded, WFMin
<1>2. \A y \in S : <<y, x>> \in Nat \X Nat
  OBVIOUS
<1>3. \A y \in S : ~ (y < x)
  BY <1>1, <1>2 DEF OpToRel
<1> QED
  BY <1>3

LEMMA MinIs ==
    ASSUME NEW S \in SUBSET Nat, NEW n \in S, \A m \in S : n <= m
    PROVE  Min(S) = n
<1>1. \A x \in S : (\A y \in S : x <= y) => x = n
  <2> SUFFICES ASSUME NEW x \in S, \A y \in S : x <= y
               PROVE  x = n
    OBVIOUS
  <2>1. x <= n /\ n <= x /\ x \in Nat /\ n \in Nat
    OBVIOUS
  <2> QED
    BY <2>1
<1>2. n \in S /\ \A y \in S : n =< y
  OBVIOUS
<1> QED
  BY <1>1, <1>2, Zenon DEF Min

LEMMA FindFacts ==
    ASSUME NEW S, NEW line \in Seq(S), NEW kinds
    PROVE  /\ (\A i \in 1 .. Len(line) : line[i].kind \notin kinds) => Find(line, kinds) = 0
           /\ \A p \in 1 .. Len(line) :
                 line[p].kind \in kinds /\ (\A i \in 1 .. Len(line) : line[i].kind \in kinds => p <= i) => Find(line, kinds) = p
<1> DEFINE I == {i \in 1 .. Len(line) : line[i].kind \in kinds}
<1>1. Find(line, kinds) = IF I # {} THEN Min(I) ELSE 0
  BY DEF Find, SelectInSeq
<1>2. I \in SUBSET Nat
  OBVIOUS
<1>3. ASSUME \A i \in 1 .. Len(line) : line[i].kind \notin kinds
      PROVE  Find(line, kinds) = 0
  BY <1>1, <1>3
<1>4. ASSUME NEW p \in 1 .. Len(line), line[p].kind \in kinds, \A i \in 1 .. Len(line) : line[i].kind \in kinds => p <= i
      PROVE  Find(line, kinds) = p
  <2>1. p \in I /\ \A m \in I : p <= m
    BY <1>4
  <2> HIDE DEF I
  <2> QED
    BY <1>1, <1>2, <2>1, MinIs
<1> QED
  BY <1>3, <1>4

-----------------------------------------------------------------------------
(* Commands that are made of a line. *)

(* The output of a line is not known yet; its level is. *)
Unfinished(b) ==
    /\ b \in Command /\ b.line # <<>> /\ b.line[1].kind = "tool"
    /\ b.optimizationLevel \in 0 .. Len(b.line)
    /\ \A i \in 1 .. Len(b.line) : b.line[i].kind = "-O" <=> i = b.optimizationLevel

LEMMA BaseFacts ==
    ASSUME NEW line \in Seq(Argument), line # <<>>, line[1].kind = "tool",
           \A i, j \in DOMAIN line : line[i].kind \in {"-o", "-O"} /\ line[j].kind = line[i].kind => i = j,
           NEW b, b = Base(line)
    PROVE  /\ Unfinished(b) /\ b.line = line /\ b.sourcePath = 0
           /\ (\A i \in 1 .. Len(line) : line[i].kind # "-o") => b.output = 0
           /\ \A p \in 1 .. Len(line) : line[p].kind = "-o" => b.output = p + 1
<1>1. Len(line) \in Nat /\ DOMAIN line = 1 .. Len(line)
  OBVIOUS
<1>2. \A i, j \in 1 .. Len(line) : line[i].kind = "-O" /\ line[j].kind = "-O" => i = j
  BY <1>1
<1>3. \A i, j \in 1 .. Len(line) : line[i].kind = "-o" /\ line[j].kind = "-o" => i = j
  BY <1>1
<1>4. /\ (\A i \in 1 .. Len(line) : line[i].kind # "-o") => Find(line, {"-o"}) = 0
      /\ \A p \in 1 .. Len(line) : line[p].kind = "-o" => Find(line, {"-o"}) = p
  BY <1>1, <1>3, FindFacts
<1>5. /\ (\A i \in 1 .. Len(line) : line[i].kind # "-O") => Find(line, {"-O"}) = 0
      /\ \A p \in 1 .. Len(line) : line[p].kind = "-O" => Find(line, {"-O"}) = p
  BY <1>1, <1>2, FindFacts
<1>6. /\ Find(line, {"-o"}) \in 0 .. Len(line) /\ Find(line, {"-O"}) \in 0 .. Len(line)
      /\ \A i \in 1 .. Len(line) : line[i].kind = "-O" <=> i = Find(line, {"-O"})
  BY <1>1, <1>4, <1>5
<1>7. b = [line |-> line, sourcePath |-> 0, optimizationLevel |-> Find(line, {"-O"}),
           output |-> IF Find(line, {"-o"}) = 0 THEN 0 ELSE Find(line, {"-o"}) + 1]
  BY DEF Base
<1>8. b \in Command
  BY <1>6, <1>7 DEF Command
<1> QED
  BY <1>4, <1>6, <1>7, <1>8 DEF Unfinished

FilesOf(b) == {b.line[i] : i \in FilePlaces(b)}

(* A line that names its output. *)
LEMMA OutputThere ==
    ASSUME NEW b, Unfinished(b), NEW p \in 1 .. Len(b.line), b.output = p + 1, p < Len(b.line), b.line[p] = DashO,
           \A i \in 1 .. Len(b.line) : b.line[i].kind = "-o" => i = p,
           b.line[p + 1].kind \in FileKinds
    PROVE  Does(b, Inputs(b), b.line[p + 1], LevelOf(b))
<1>1. Len(b.line) \in Nat /\ DashO.kind = "-o" /\ b \in Command
  BY Literals DEF Unfinished, Command
<1>2. p # 1 /\ b.optimizationLevel # 1
  BY <1>1 DEF Unfinished
<1>3. Sound(b)
  BY <1>1, <1>2 DEF Sound, Unfinished
<1> QED
  BY <1>3 DEF Does, Inputs, OutputOf

(* A line that does not is given one. *)
Outputless(b) == \A i \in 1 .. Len(b.line) : b.line[i].kind # "-o"
NoWl(line) == \A i \in 1 .. Len(line) : line[i].kind # "-Wl"
Moved2(b, d) ==
    /\ d.output = 3 /\ FilePlaces(d) \ {3} = {i + 2 : i \in FilePlaces(b)}
    /\ b.sourcePath >= 2 => d.sourcePath = b.sourcePath + 2

LEMMA OutputInserted ==
    ASSUME NEW b, Unfinished(b), Outputless(b), NEW a \in Argument, a.kind \in FileKinds, NEW d, d = AddOutput(b, a)
    PROVE  /\ Does(d, FilesOf(b), a, LevelOf(b)) /\ d.line[1] = b.line[1] /\ Moved2(b, d)
           /\ NoWl(b.line) => NoWl(d.line)
           /\ NoStray(b.line) => NoStray(d.line)
<1> DEFINE args == <<DashO, a>>
           n == Len(b.line)
<1>1. /\ n \in Nat /\ n >= 1 /\ DashO.kind = "-o" /\ b \in Command /\ b.line[1].kind = "tool"
      /\ b.optimizationLevel \in 0 .. n /\ b.optimizationLevel # 1
      /\ \A i \in 1 .. n : b.line[i].kind = "-O" <=> i = b.optimizationLevel
  BY Literals DEF Unfinished, Command
<1>2. args \in Seq(Argument) /\ Len(args) = 2 /\ args[1] = DashO /\ args[2] = a
  BY Literals
<1>3. 2 \in 1 .. n + 1
  BY <1>1
<1> HIDE DEF args
<1>4. PICK e : e = Insert(b, 2, args)
  OBVIOUS
<1>5. /\ e \in Command /\ Len(e.line) = n + 2 /\ e.line[1] = b.line[1]
      /\ e.line[2] = DashO /\ e.line[3] = a
      /\ \A i \in 2 .. n : e.line[i + 2] = b.line[i]
      /\ e.sourcePath = IF b.sourcePath >= 2 THEN b.sourcePath + 2 ELSE b.sourcePath
      /\ e.optimizationLevel = IF b.optimizationLevel >= 2 THEN b.optimizationLevel + 2 ELSE b.optimizationLevel
  <2>1. /\ e \in Command /\ Len(e.line) = Len(b.line) + Len(args)
        /\ \A i \in 1 .. 2 - 1 : e.line[i] = b.line[i]
        /\ \A i \in 1 .. Len(args) : e.line[2 - 1 + i] = args[i]
        /\ \A i \in 2 .. Len(b.line) : e.line[i + Len(args)] = b.line[i]
        /\ e.sourcePath = IF b.sourcePath >= 2 THEN b.sourcePath + Len(args) ELSE b.sourcePath
        /\ e.optimizationLevel = IF b.optimizationLevel >= 2 THEN b.optimizationLevel + Len(args) ELSE b.optimizationLevel
    BY <1>1, <1>2, <1>3, <1>4, InsertFacts
  <2> QED
    BY <1>1, <1>2, <2>1
<1>6. /\ d \in Command /\ d.line = e.line /\ d.output = 3 /\ d.sourcePath = e.sourcePath
      /\ d.optimizationLevel = e.optimizationLevel
  BY <1>4, <1>5 DEF args, AddOutput, addFlagsToBegin, Command
<1> HIDE DEF n
<1>7. \A j \in 1 .. n + 2 : j \in {1, 2, 3} \/ (j - 2 \in 2 .. n /\ d.line[j] = b.line[j - 2])
  <2> TAKE j \in 1 .. n + 2
  <2>1. ASSUME j > 3
        PROVE  j - 2 \in 2 .. n /\ d.line[j] = b.line[j - 2]
    <3>1. j - 2 \in 2 .. n /\ (j - 2) + 2 = j
      BY <1>1, <2>1
    <3> QED
      BY <1>5, <1>6, <3>1
  <2> QED
    BY <1>1, <2>1
<1>8. d.line[1] = b.line[1] /\ d.line[2] = DashO /\ d.line[3] = a /\ Len(d.line) = n + 2
  BY <1>5, <1>6
<1>9. ASSUME NEW j \in 1 .. n + 2
      PROVE  /\ d.line[j].kind = "-o" => j = d.output - 1
             /\ d.line[j].kind = "-O" <=> j = d.optimizationLevel
  <2>0. a.kind \notin {"-o", "-O", "tool"}
    BY DEF FileKinds
  <2>1. CASE j \in {1, 2, 3}
    BY <1>1, <1>5, <1>6, <1>8, <2>0, <2>1
  <2>2. CASE j - 2 \in 2 .. n /\ d.line[j] = b.line[j - 2]
    <3>1. b.line[j - 2].kind # "-o" /\ (b.line[j - 2].kind = "-O" <=> j - 2 = b.optimizationLevel)
      BY <1>1, <2>2 DEF n, Outputless
    <3>2. d.line[j].kind # "-o" /\ (d.line[j].kind = "-O" <=> j - 2 = b.optimizationLevel)
      BY <2>2, <3>1
    <3>3. d.optimizationLevel = IF b.optimizationLevel >= 2 THEN b.optimizationLevel + 2 ELSE b.optimizationLevel
      BY <1>5, <1>6
    <3>4. j - 2 = b.optimizationLevel <=> j = d.optimizationLevel
      BY <1>1, <2>2, <3>3
    <3> QED
      BY <3>2, <3>4
  <2> QED
    BY <1>7, <2>1, <2>2
<1>10. Sound(d)
  <2>1. d.optimizationLevel \in {0} \cup 2 .. Len(d.line) /\ d.output \in 3 .. Len(d.line)
    BY <1>1, <1>5, <1>6
  <2>2. d.line[d.output - 1] = DashO /\ d.line[d.output].kind \in FileKinds /\ d.line[1].kind = "tool"
    BY <1>1, <1>6, <1>8
  <2> QED
    BY <1>6, <1>8, <1>9, <2>1, <2>2 DEF Sound
<1>11. FilePlaces(d) \ {3} = {i + 2 : i \in FilePlaces(b)} /\ \A i \in FilePlaces(b) : d.line[i + 2] = b.line[i]
  <2>0. DashO.kind \notin FileKinds /\ b.line[1].kind \notin FileKinds
    BY <1>1 DEF FileKinds
  <2>1. \A i \in FilePlaces(b) : i \in 2 .. n /\ b.line[i].kind \in FileKinds
    BY <1>1, <2>0 DEF FilePlaces, n
  <2>2. ASSUME NEW i \in FilePlaces(b)
        PROVE  i + 2 \in FilePlaces(d) \ {3} /\ d.line[i + 2] = b.line[i]
    <3>0. i \in 2 .. n
      BY <2>1
    <3>1. e.line[i + 2] = b.line[i]
      BY <1>5, <3>0
    <3>2. i + 2 \in 1 .. n + 2 /\ i + 2 # 3
      BY <1>1, <3>0
    <3> QED
      BY <1>6, <1>8, <2>1, <3>1, <3>2 DEF FilePlaces
  <2>3. ASSUME NEW j \in FilePlaces(d) \ {3}
        PROVE  \E i \in FilePlaces(b) : j = i + 2
    <3>1. j \in 1 .. n + 2 /\ d.line[j].kind \in FileKinds /\ j # 1 /\ j # 2
      BY <1>8, <2>0 DEF FilePlaces
    <3>2. j - 2 \in 2 .. n /\ d.line[j] = b.line[j - 2]
      BY <1>7, <3>1
    <3>3. j - 2 \in FilePlaces(b) /\ j = (j - 2) + 2
      BY <1>1, <3>1, <3>2 DEF FilePlaces, n
    <3> QED
      BY <3>3
  <2> QED
    BY <2>2, <2>3
<1>12. Inputs(d) = FilesOf(b)
  <2>1. Inputs(d) = {d.line[j] : j \in {i + 2 : i \in FilePlaces(b)}}
    BY <1>6, <1>11 DEF Inputs
  <2> QED
    BY <1>11, <2>1 DEF FilesOf
<1>13. LevelOf(d) = LevelOf(b)
  <2>1. b.optimizationLevel # 0 => b.optimizationLevel \in 2 .. n
    BY <1>1
  <2> QED
    BY <1>5, <1>6, <2>1 DEF LevelOf
<1>14. (\A i \in 1 .. n : b.line[i].kind # "-Wl") => \A i \in 1 .. n + 2 : d.line[i].kind # "-Wl"
  <2>1. a.kind # "-Wl"
    BY DEF FileKinds
  <2>2. \A i \in 2 .. n : i \in 1 .. n
    BY <1>1
  <2> QED
    BY <1>1, <1>7, <1>8, <2>1, <2>2
<1>15. NoStray(b.line) => NoStray(d.line)
  <2> SUFFICES ASSUME NoStray(b.line), NEW j \in 1 .. n + 2, d.line[j].kind = "-Wl"
               PROVE  \/ d.line[j].name \in {"-z", "-soname,name", "-soname"}
                      \/ j > 1 /\ d.line[j - 1] = Soname
    BY <1>8 DEF NoStray
  <2>1. a.kind # "-Wl"
    BY DEF FileKinds
  <2>2. j - 2 \in 2 .. n /\ d.line[j] = b.line[j - 2]
    BY <1>1, <1>7, <1>8, <2>1
  <2>3. ASSUME b.line[j - 2 - 1] = Soname
        PROVE  j > 1 /\ d.line[j - 1] = Soname
    <3>1. j - 2 # 2
      BY <1>1, <2>2, <2>3 DEF Arg, Soname
    <3>2. j - 3 \in 2 .. n /\ j - 3 + 2 = j - 1 /\ j - 2 - 1 = j - 3 /\ j > 1
      BY <1>1, <2>2, <3>1
    <3>3. e.line[j - 3 + 2] = b.line[j - 3]
      BY <1>5, <3>2
    <3> QED
      BY <1>6, <2>3, <3>2, <3>3
  <2>4. j - 2 \in 1 .. n /\ b.line[j - 2].kind = "-Wl"
    BY <1>1, <2>2
  <2> QED
    BY <2>2, <2>3, <2>4 DEF NoStray, n
<1> QED
  BY <1>5, <1>6, <1>8, <1>10, <1>11, <1>12, <1>13, <1>14, <1>15 DEF Does, OutputOf, n, NoWl, Moved2

-----------------------------------------------------------------------------
(* Reading a compile line. *)

LEMMA SeqOfMore ==
    ASSUME NEW S, NEW T, S \subseteq T, NEW s \in Seq(S)
    PROVE  s \in Seq(T)
<1>1. Len(s) \in Nat /\ s \in [1 .. Len(s) -> S]
  OBVIOUS
<1>2. s \in [1 .. Len(s) -> T]
  BY <1>1
<1> QED
  BY <1>1, <1>2

LEMMA ReadArguments == [kind : STRING, name : STRING] \subseteq Argument
BY DEF Argument, Names

LEMMA CompileCommandDoes ==
    ASSUME NEW line \in CompileLines, NEW c, c = CompileCommand(line, SourceFile, ObjectFile)
    PROVE  \E lev : Does(c, {SourceFile}, ObjectFile, lev) /\ OneSource(c)
<1>0. /\ SourceFile \in Argument /\ SourceFile.kind = "source" /\ SourceFile.name = "a.c"
      /\ ObjectFile \in Argument /\ ObjectFile.kind = "object" /\ DashO.kind = "-o"
  <2>1. {"source", "object"} \subseteq WrittenKinds /\ {"a.c", "a.o"} \subseteq WrittenNames
    BY DEF WrittenKinds, WrittenNames
  <2>2. SourceFile = Arg("source", "a.c") /\ ObjectFile = Arg("object", "a.o")
    BY DEF SourceFile, ObjectFile
  <2> QED
    BY <2>1, <2>2, Literals
<1>1. /\ line \in Seq(Argument) /\ line # <<>> /\ line[1].kind = "tool" /\ Len(line) \in Nat
      /\ DOMAIN line = 1 .. Len(line)
      /\ \A i, j \in DOMAIN line : line[i].kind \in {"-o", "-O"} /\ line[j].kind = line[i].kind => i = j
      /\ \A i \in DOMAIN line : line[i].kind = "-o" => line[i] = DashO /\ i < Len(line) /\ line[i + 1] = ObjectFile
  <2>1. line \in Seq([kind : STRING, name : STRING])
    BY CompileLinesAssumption DEF WellFormed
  <2>2. line \in Seq(Argument)
    BY <2>1, ReadArguments, SeqOfMore
  <2> QED
    BY <2>2, CompileLinesAssumption DEF WellFormed, OutputIs
<1>2. PICK s \in 1 .. Len(line) : /\ line[s] = SourceFile
                                 /\ \A i \in 1 .. Len(line) : line[i].name = SourceFile.name => i = s
  BY <1>1, CompileLinesAssumption
<1>3. /\ \A i \in 1 .. Len(line) : line[i].kind \in FileKinds => line[i] = SourceFile \/ IsOutput(line, i)
      /\ \A i \in 1 .. Len(line) : line[i].kind # "-Wl"
  BY <1>1, CompileLinesAssumption
<1>4. SelectInSeq(line, LAMBDA a : a.name = SourceFile.name) = s
  <2> DEFINE I == {i \in 1 .. Len(line) : line[i].name = SourceFile.name}
  <2>1. SelectInSeq(line, LAMBDA a : a.name = SourceFile.name) = IF I # {} THEN Min(I) ELSE 0
    BY DEF SelectInSeq
  <2>2. I \in SUBSET Nat /\ s \in I /\ \A m \in I : s <= m
    BY <1>1, <1>2
  <2> HIDE DEF I
  <2> QED
    BY <2>1, <2>2, MinIs
<1>5. PICK e : e = Base(line)
  OBVIOUS
<1>6. /\ Unfinished(e) /\ e.line = line
      /\ (\A i \in 1 .. Len(line) : line[i].kind # "-o") => e.output = 0
      /\ \A p \in 1 .. Len(line) : line[p].kind = "-o" => e.output = p + 1
  BY <1>1, <1>5, BaseFacts
<1>7. PICK b : b = [e EXCEPT !.sourcePath = s]
  OBVIOUS
<1>8. b.line = line /\ b.sourcePath = s /\ b.output = e.output /\ b.optimizationLevel = e.optimizationLevel /\ b \in Command
  BY <1>1, <1>2, <1>6, <1>7 DEF Unfinished, Command
<1>9. Unfinished(b)
  BY <1>6, <1>8 DEF Unfinished
<1>10. c = InitOutput(b, ObjectFile)
  BY <1>4, <1>5, <1>7 DEF CompileCommand
<1>11. s # 1 /\ s \in FilePlaces(b)
  BY <1>0, <1>1, <1>2, <1>8 DEF FilePlaces, FileKinds
<1>12. CASE \E p \in 1 .. Len(line) : line[p].kind = "-o"
  <2>1. PICK p \in 1 .. Len(line) : line[p].kind = "-o"
    BY <1>12
  <2>2. /\ b.output = p + 1 /\ p < Len(line) /\ line[p] = DashO /\ line[p + 1] = ObjectFile
        /\ \A i \in 1 .. Len(line) : line[i].kind = "-o" => i = p
    BY <1>1, <1>6, <1>8, <2>1
  <2>3. c = b
    BY <1>10, <2>2 DEF InitOutput
  <2>4. FilePlaces(b) \ {p + 1} = {s}
    <3>1. s # p + 1
      BY <1>0, <1>2, <2>2
    <3>2. ASSUME NEW i \in FilePlaces(b), i # s
          PROVE  i = p + 1
      <4>1. i \in 1 .. Len(line) /\ line[i].kind \in FileKinds
        BY <1>8 DEF FilePlaces
      <4>2. line[i] # SourceFile
        BY <1>2, <3>2, <4>1
      <4>3. i > 1 /\ line[i - 1] = DashO
        BY <1>3, <4>1, <4>2 DEF IsOutput
      <4>4. i - 1 \in 1 .. Len(line)
        BY <1>1, <4>1, <4>3
      <4> QED
        BY <1>0, <2>2, <4>1, <4>3, <4>4
    <3> QED
      BY <1>11, <3>1, <3>2
  <2>5. Does(b, Inputs(b), ObjectFile, LevelOf(b))
    <3>1. b.line[p + 1].kind \in FileKinds
      BY <1>0, <1>8, <2>2 DEF FileKinds
    <3> QED
      BY <1>8, <1>9, <2>2, <3>1, OutputThere
  <2>6. Inputs(b) = {SourceFile}
    BY <1>2, <1>8, <2>2, <2>4 DEF Inputs
  <2>7. OneSource(c)
    BY <1>3, <1>8, <2>2, <2>3, <2>4 DEF OneSource
  <2> QED
    BY <2>3, <2>5, <2>6, <2>7
<1>13. CASE \A i \in 1 .. Len(line) : line[i].kind # "-o"
  <2>1. c = AddOutput(b, ObjectFile)
    BY <1>6, <1>8, <1>10, <1>13 DEF InitOutput
  <2>2. FilePlaces(b) = {s}
    <3>1. ASSUME NEW i \in FilePlaces(b)
          PROVE  i = s
      <4>1. i \in 1 .. Len(line) /\ line[i].kind \in FileKinds
        BY <1>8 DEF FilePlaces
      <4>2. ~ IsOutput(line, i)
        <5>1. ASSUME i > 1, line[i - 1] = DashO
              PROVE  FALSE
          <6>1. i - 1 \in 1 .. Len(line)
            BY <1>1, <4>1, <5>1
          <6> QED
            BY <1>0, <1>13, <5>1, <6>1
        <5> QED
          BY <5>1 DEF IsOutput
      <4> QED
        BY <1>2, <1>3, <4>1, <4>2
    <3> QED
      BY <1>11, <3>1
  <2>3. ObjectFile.kind \in FileKinds
    BY <1>0 DEF FileKinds
  <2>4. Does(c, FilesOf(b), ObjectFile, LevelOf(b)) /\ Moved2(b, c) /\ (NoWl(b.line) => NoWl(c.line))
    <3>1. Outputless(b)
      BY <1>8, <1>13 DEF Outputless
    <3> QED
      BY <1>0, <1>9, <2>1, <2>3, <3>1, OutputInserted
  <2>5. FilesOf(b) = {SourceFile}
    BY <1>2, <1>8, <2>2 DEF FilesOf
  <2>6. c.sourcePath = s + 2
    BY <1>1, <1>8, <1>11, <2>4 DEF Moved2
  <2>7. OneSource(c)
    BY <1>3, <1>8, <2>2, <2>4, <2>6 DEF OneSource, NoWl, Moved2
  <2> QED
    BY <2>4, <2>5, <2>7
<1> QED
  BY <1>12, <1>13

-----------------------------------------------------------------------------
(* The compile commands of the server. *)

(* OptionKinds that neither name a file nor say what is written and how. *)
OptionKinds(kinds) == kinds \cap (FileKinds \cup {"tool", "-o", "-O", "-Wl"}) = {}

LEMMA EraseOptions ==
    ASSUME NEW c, NEW ins, NEW out, NEW lev, Does(c, ins, out, lev), NEW kinds, OptionKinds(kinds),
           NEW d, d = EraseIf(c, OfKinds(c, kinds))
    PROVE  /\ Does(d, ins, out, lev) /\ d.line[1] = c.line[1]
           /\ OneSource(c) => OneSource(d)
           /\ NoStray(c.line) => NoStray(d.line)
<1> DEFINE args == OfKinds(c, kinds)
<1>1. \A a \in args : a.kind \in kinds
  BY DEF OfKinds
<1>2. (\A a \in ins : a.kind \in FileKinds) /\ out.kind \in FileKinds
  BY SoundFacts DEF Does, Inputs, FilePlaces, OutputOf
<1>3. d = EraseIf(c, args)
  OBVIOUS
<1> HIDE DEF args
<1>4. (\A a \in args : a.kind \notin {"tool", "-o", "-O"} /\ a.kind # "-Wl" /\ a.kind \notin FileKinds)
  BY <1>1 DEF OptionKinds
<1>5. ins \ args = ins /\ ins \cap args = {} /\ out \notin args
  BY <1>2, <1>4
<1>6. /\ Does(d, ins \ args, out, lev) /\ d.line[1] = c.line[1]
      /\ OneSource(c) /\ ins \cap args = {} => OneSource(d)
      /\ NoStray(c.line) /\ (\A a \in args : a.kind # "-Wl") => NoStray(d.line)
  BY <1>3, <1>4, <1>5, EraseIfEffect
<1> QED
  BY <1>4, <1>5, <1>6

OnlyOptions(args) == \A i \in 1 .. Len(args) : OptionKinds({args[i].kind})

LEMMA AddOptions ==
    ASSUME NEW c, NEW ins, NEW out, NEW lev, Does(c, ins, out, lev), NEW args \in Seq(Argument), OnlyOptions(args),
           NEW d, d = addFlagsToBegin(c, args)
    PROVE  /\ Does(d, ins, out, lev) /\ d.line[1] = c.line[1]
           /\ OneSource(c) => OneSource(d)
           /\ NoStray(c.line) => NoStray(d.line)
<1>1. \A i \in 1 .. Len(args) : args[i].kind \notin FileKinds \cup {"tool", "-o", "-O", "-Wl"}
  BY DEF OnlyOptions, OptionKinds
<1>2. FilesIn(args) = {} /\ AllHarmless(args)
  BY <1>1 DEF FilesIn, AllHarmless, Harmless
<1>3. AtAnEnd(c, d, args)
  BY DEF addFlagsToBegin, AtAnEnd
<1>4. /\ Does(d, ins \cup FilesIn(args), out, lev) /\ d.line[1] = c.line[1]
      /\ FilesIn(args) = {} /\ OneSource(c) => OneSource(d)
      /\ NoStray(c.line) => NoStray(d.line)
  BY <1>2, <1>3, InsertHarmless
<1> QED
  BY <1>2, <1>4

(* A command that compiles one file to another. *)
Translates(c, source, object, level) == Does(c, {source}, object, level) /\ OneSource(c)

LEMMA TranslatesFacts ==
    ASSUME NEW c, NEW source, NEW object, NEW level, Translates(c, source, object, level)
    PROVE  /\ \A name \in WrittenNames : Translates(setBuildTool(c, name), source, object, level)
           /\ \A a \in Argument : a.kind \in FileKinds => Translates(setOutput(c, a), source, a, level)
           /\ \A a \in Argument : a.kind \in FileKinds => Translates(setSourcePath(c, a), a, object, level)
           /\ Translates(setOptimizationLevel(c, Nought), source, object, Nought)
           /\ \A kinds : OptionKinds(kinds) => Translates(EraseIf(c, OfKinds(c, kinds)), source, object, level)
           /\ \A args \in Seq(Argument) : OnlyOptions(args) => Translates(addFlagsToBegin(c, args), source, object, level)
<1>0. Does(c, {source}, object, level) /\ OneSource(c)
  BY DEF Translates
<1>1. \A name \in WrittenNames : Translates(setBuildTool(c, name), source, object, level)
  BY <1>0, SetBuildTool DEF Translates
<1>2. \A a \in Argument : a.kind \in FileKinds => Translates(setOutput(c, a), source, a, level)
  BY <1>0, SetOutput DEF Translates
<1>3. \A a \in Argument : a.kind \in FileKinds => Translates(setSourcePath(c, a), a, object, level)
  BY <1>0, SetSourcePath DEF Translates
<1>4. Translates(setOptimizationLevel(c, Nought), source, object, Nought)
  <2>1. PICK d : d = setOptimizationLevel(c, Nought)
    OBVIOUS
  <2> QED
    BY <1>0, <2>1, SetOptimizationLevel DEF Translates
<1>5. ASSUME NEW kinds, OptionKinds(kinds)
      PROVE  Translates(EraseIf(c, OfKinds(c, kinds)), source, object, level)
  <2>1. PICK d : d = EraseIf(c, OfKinds(c, kinds))
    OBVIOUS
  <2> QED
    BY <1>0, <1>5, <2>1, EraseOptions DEF Translates
<1>6. ASSUME NEW args \in Seq(Argument), OnlyOptions(args)
      PROVE  Translates(addFlagsToBegin(c, args), source, object, level)
  <2>1. PICK d : d = addFlagsToBegin(c, args)
    OBVIOUS
  <2> QED
    BY <1>0, <1>6, <2>1, AddOptions DEF Translates
<1> QED
  BY <1>1, <1>2, <1>3, <1>4, <1>5, <1>6

LEMMA OptionsFacts ==
    /\ OptionKinds({"-Werror"}) /\ OptionKinds({"-fPIE"}) /\ OptionKinds(UNSUPPORTED_FLAGS_AND_OPTIONS_KLEE)
    /\ OptionKinds(UNSUPPORTED_FLAGS_AND_OPTIONS_TEST_MAKE \cup {"-I"}) /\ OptionKinds({"-shared", "-L", "-l"})
    /\ OptionKinds({"flag"}) /\ OptionKinds({"-I"})
BY DEF OptionKinds, FileKinds, UNSUPPORTED_FLAGS_AND_OPTIONS_KLEE, UNSUPPORTED_FLAGS_AND_OPTIONS_TEST_MAKE

(* The flags the server adds. *)
LEMMA Flags1 ==
    ASSUME NEW a \in Argument, OptionKinds({a.kind})
    PROVE  <<a>> \in Seq(Argument) /\ OnlyOptions(<<a>>)
BY DEF OnlyOptions

LEMMA Flags2 ==
    ASSUME NEW a \in Argument, NEW b \in Argument, OptionKinds({a.kind}), OptionKinds({b.kind})
    PROVE  <<a, b>> \in Seq(Argument) /\ OnlyOptions(<<a, b>>)
<1> DEFINE s == <<a, b>>
<1>1. s \in Seq(Argument) /\ Len(s) = 2 /\ s[1] = a /\ s[2] = b
  OBVIOUS
<1> HIDE DEF s
<1>2. OnlyOptions(s)
  <2> SUFFICES ASSUME NEW i \in 1 .. Len(s)
               PROVE  OptionKinds({s[i].kind})
    BY DEF OnlyOptions
  <2>1. s[i] = a \/ s[i] = b
    BY <1>1
  <2>2. CASE s[i] = a
    BY <2>2
  <2>3. CASE s[i] = b
    BY <2>3
  <2> QED
    BY <2>1, <2>2, <2>3
<1> QED
  BY <1>1, <1>2 DEF s

LEMMA Flags3 ==
    ASSUME NEW a \in Argument, NEW b \in Argument, NEW c \in Argument,
           OptionKinds({a.kind}), OptionKinds({b.kind}), OptionKinds({c.kind})
    PROVE  <<a, b, c>> \in Seq(Argument) /\ OnlyOptions(<<a, b, c>>)
<1> DEFINE s == <<a, b, c>>
<1>1. s \in Seq(Argument) /\ Len(s) = 3 /\ s[1] = a /\ s[2] = b /\ s[3] = c
  OBVIOUS
<1> HIDE DEF s
<1>2. OnlyOptions(s)
  <2> SUFFICES ASSUME NEW i \in 1 .. Len(s)
               PROVE  OptionKinds({s[i].kind})
    BY DEF OnlyOptions
  <2>1. s[i] = a \/ s[i] = b \/ s[i] = c
    BY <1>1
  <2>2. CASE s[i] = a
    BY <2>2
  <2>3. CASE s[i] = b
    BY <2>3
  <2>4. CASE s[i] = c
    BY <2>4
  <2> QED
    BY <2>1, <2>2, <2>3, <2>4
<1> QED
  BY <1>1, <1>2 DEF s

LEMMA AFlag ==
    ASSUME NEW name \in WrittenNames
    PROVE  Flag(name) \in Argument /\ OptionKinds({Flag(name).kind})
BY Literals, OptionsFacts

LEMMA TranslatesCompiles ==
    ASSUME NEW c, Translates(c, NewSource, NewObject, Nought)
    PROVE  Compiles(c)
<1>1. Sound(c) /\ Inputs(c) = {NewSource} /\ OutputOf(c) = NewObject /\ LevelOf(c) = Nought /\ OneSource(c)
  BY DEF Translates, Does
<1>2. c.optimizationLevel # 0
  BY <1>1, Literals DEF LevelOf
<1>3. Effect(c.line).inputs = {NewSource} /\ Effect(c.line).output = {NewObject} /\ Effect(c.line).level = {Nought}
  BY <1>1, <1>2, EffectOfSound
<1>4. DOMAIN c.line = 1 .. Len(c.line)
  BY <1>1 DEF Sound, Command
<1>5. Effect(c.line).soname = FALSE
  <2>1. Effect(c.line).soname = \E i \in DOMAIN c.line : c.line[i].kind = "-Wl" /\ c.line[i].name # "-z"
    BY DEF Effect
  <2> QED
    BY <1>1, <1>4, <2>1 DEF OneSource
<1>6. Effect(c.line) = [inputs |-> Effect(c.line).inputs, output |-> Effect(c.line).output,
                        level |-> Effect(c.line).level, soname |-> Effect(c.line).soname]
  BY DEF Effect
<1> QED
  BY <1>3, <1>5, <1>6 DEF Compiles

LEMMA Literal ==
    ASSUME NEW k \in WrittenKinds, NEW n \in WrittenNames
    PROVE  Arg(k, n) \in Argument /\ Arg(k, n).kind = k /\ Arg(k, n).name = n
<1>1. k \in STRING \cup WrittenKinds /\ n \in STRING \cup WrittenNames
  OBVIOUS
<1> QED
  BY <1>1, Literals, Zenon

LEMMA CompileFiles ==
    /\ SourceFile \in Argument /\ ObjectFile \in Argument /\ NewSource \in Argument /\ NewObject \in Argument
    /\ SourceFile.kind \in FileKinds /\ ObjectFile.kind \in FileKinds
    /\ NewSource.kind \in FileKinds /\ NewObject.kind \in FileKinds
<1>1. /\ {"source", "object"} \subseteq WrittenKinds /\ {"source", "object"} \subseteq FileKinds
      /\ {"a.c", "a.o", "new a.c", "new a.o"} \subseteq WrittenNames
  BY DEF WrittenKinds, WrittenNames, FileKinds
<1> QED
  <2>1. /\ SourceFile = Arg("source", "a.c") /\ ObjectFile = Arg("object", "a.o")
        /\ NewSource = Arg("source", "new a.c") /\ NewObject = Arg("object", "new a.o")
    BY DEF SourceFile, ObjectFile, NewSource, NewObject
  <2>2. /\ "source" \in WrittenKinds /\ "object" \in WrittenKinds /\ "a.c" \in WrittenNames /\ "a.o" \in WrittenNames
        /\ "new a.c" \in WrittenNames /\ "new a.o" \in WrittenNames /\ "source" \in FileKinds /\ "object" \in FileKinds
    BY <1>1, Zenon
  <2>3. SourceFile \in Argument /\ SourceFile.kind \in FileKinds
    BY <2>1, <2>2, Literal
  <2>4. ObjectFile \in Argument /\ ObjectFile.kind \in FileKinds
    BY <2>1, <2>2, Literal
  <2>5. NewSource \in Argument /\ NewSource.kind \in FileKinds
    BY <2>1, <2>2, Literal
  <2>6. NewObject \in Argument /\ NewObject.kind \in FileKinds
    BY <2>1, <2>2, Literal
  <2> QED
    BY <2>3, <2>4, <2>5, <2>6

LEMMA ReadCompileLineDoes ==
    ASSUME NEW line \in CompileLines
    PROVE  \E lev : Translates(ReadCompileLine(line, SourceFile, ObjectFile), SourceFile, ObjectFile, lev)
<1>1. PICK c : c = CompileCommand(line, SourceFile, ObjectFile)
  OBVIOUS
<1>2. PICK lev : Translates(c, SourceFile, ObjectFile, lev)
  BY <1>1, CompileCommandDoes DEF Translates
<1>3. Translates(EraseIf(c, OfKinds(c, {"-Werror"})), SourceFile, ObjectFile, lev)
  BY <1>2, TranslatesFacts, OptionsFacts
<1> QED
  BY <1>1, <1>3 DEF ReadCompileLine

LEMMA KleeCommand ==
    ASSUME NEW c, NEW s, NEW o, NEW l, Translates(c, s, o, l),
           NEW source \in Argument, NEW bitcode \in Argument, source.kind \in FileKinds, bitcode.kind \in FileKinds
    PROVE  Translates(getCompileCommandForKlee(c, source, bitcode), source, bitcode, Nought)
<1> DEFINE c0 == setBuildTool(c, "clang")
           c1 == setSourcePath(c0, source)
           c2 == setOutput(c1, bitcode)
           c3 == setOptimizationLevel(c2, Nought)
           c4 == EraseIf(c3, OfKinds(c3, UNSUPPORTED_FLAGS_AND_OPTIONS_KLEE))
           c5 == addFlagsToBegin(c4, <<Flag("-emit-llvm"), Flag("-c")>>)
           c6 == addFlagsToBegin(c5, <<Flag("-iquote")>>)
<1>0. {"clang", "-emit-llvm", "-c", "-iquote"} \subseteq WrittenNames
  BY DEF WrittenNames
<1>1. Translates(c0, s, o, l)
  BY <1>0, TranslatesFacts
<1> HIDE DEF c0
<1>2. Translates(c1, source, o, l)
  BY <1>1, TranslatesFacts
<1> HIDE DEF c1
<1>3. Translates(c2, source, bitcode, l)
  BY <1>2, TranslatesFacts
<1> HIDE DEF c2
<1>4. Translates(c3, source, bitcode, Nought)
  BY <1>3, TranslatesFacts
<1> HIDE DEF c3
<1>5. Translates(c4, source, bitcode, Nought)
  BY <1>4, TranslatesFacts, OptionsFacts
<1> HIDE DEF c4
<1>6. Translates(c5, source, bitcode, Nought)
  BY <1>0, <1>5, TranslatesFacts, Flags2, AFlag
<1> HIDE DEF c5
<1>7. Translates(c6, source, bitcode, Nought)
  BY <1>0, <1>6, TranslatesFacts, Flags1, AFlag
<1> QED
  BY <1>7 DEF c0, c1, c2, c3, c4, c5, c6, getCompileCommandForKlee

LEMMA RenamedCommand ==
    ASSUME NEW c, NEW s, NEW o, NEW l, Translates(c, s, o, l)
    PROVE  Translates(Renamed(c, SourceFile, ObjectFile, NewSource, NewObject), NewSource, NewObject, Nought)
<1> DEFINE c0 == getCompileCommandForKlee(c, SourceFile, ObjectFile)
           c1 == setSourcePath(c0, NewSource)
<1>1. Translates(c0, SourceFile, ObjectFile, Nought)
  BY KleeCommand, CompileFiles
<1> HIDE DEF c0
<1>2. Translates(c1, NewSource, ObjectFile, Nought)
  BY <1>1, TranslatesFacts, CompileFiles
<1> HIDE DEF c1
<1>3. Translates(setOutput(c1, NewObject), NewSource, NewObject, Nought)
  BY <1>2, TranslatesFacts, CompileFiles
<1> QED
  BY <1>3 DEF c0, c1, Renamed

LEMMA TargetCommand ==
    ASSUME NEW c, NEW s, NEW o, NEW l, Translates(c, s, o, l)
    PROVE  Translates(addCompileTarget(c, NewSource, NewObject), NewSource, NewObject, Nought)
<1> DEFINE c0 == setBuildTool(c, "gcc")
           c1 == setSourcePath(c0, NewSource)
           c2 == setOutput(c1, NewObject)
           c3 == setOptimizationLevel(c2, Nought)
           c4 == addFlagsToBegin(c3, <<Flag("-fPIC"), Flag("-g")>>)
           c5 == EraseIf(c4, OfKinds(c4, {"-fPIE"}))
           c6 == addFlagsToBegin(c5, <<Flag("-iquote"), Flag("-MT")>>)
<1>0. {"gcc", "-fPIC", "-g", "-iquote", "-MT"} \subseteq WrittenNames
  BY DEF WrittenNames
<1>1. Translates(c0, s, o, l)
  BY <1>0, TranslatesFacts
<1> HIDE DEF c0
<1>2. Translates(c1, NewSource, o, l)
  BY <1>1, TranslatesFacts, CompileFiles
<1> HIDE DEF c1
<1>3. Translates(c2, NewSource, NewObject, l)
  BY <1>2, TranslatesFacts, CompileFiles
<1> HIDE DEF c2
<1>4. Translates(c3, NewSource, NewObject, Nought)
  BY <1>3, TranslatesFacts
<1> HIDE DEF c3
<1>5. Translates(c4, NewSource, NewObject, Nought)
  BY <1>0, <1>4, TranslatesFacts, Flags2, AFlag
<1> HIDE DEF c4
<1>6. Translates(c5, NewSource, NewObject, Nought)
  BY <1>5, TranslatesFacts, OptionsFacts
<1> HIDE DEF c5
<1>7. Translates(c6, NewSource, NewObject, Nought)
  BY <1>0, <1>6, TranslatesFacts, Flags2, AFlag
<1> QED
  BY <1>7 DEF c0, c1, c2, c3, c4, c5, c6, addCompileTarget

LEMMA TestCommand ==
    ASSUME NEW c, NEW s, NEW o, NEW l, Translates(c, s, o, l)
    PROVE  Translates(compileTest(c, NewSource, NewObject), NewSource, NewObject, Nought)
<1> DEFINE c0 == setBuildTool(c, "g++")
           c1 == setOptimizationLevel(c0, Nought)
           c2 == EraseIf(c1, OfKinds(c1, UNSUPPORTED_FLAGS_AND_OPTIONS_TEST_MAKE \cup {"-I"}))
           c3 == addFlagsToBegin(c2, <<Flag("-g"), Flag("-fPIC"), Arg("-I", "googletest")>>)
           c4 == EraseIf(c3, OfKinds(c3, {"-fPIE"}))
           c5 == setOutput(c4, NewObject)
<1>0. {"g++", "-g", "-fPIC", "googletest"} \subseteq WrittenNames /\ "-I" \in WrittenKinds
  BY DEF WrittenNames, WrittenKinds
<1>1. Translates(c0, s, o, l)
  BY <1>0, TranslatesFacts
<1> HIDE DEF c0
<1>2. Translates(c1, s, o, Nought)
  BY <1>1, TranslatesFacts
<1> HIDE DEF c1
<1>3. Translates(c2, s, o, Nought)
  BY <1>2, TranslatesFacts, OptionsFacts
<1> HIDE DEF c2
<1>4. Translates(c3, s, o, Nought)
  <2>1. Arg("-I", "googletest") \in Argument /\ OptionKinds({Arg("-I", "googletest").kind})
    <3>1. "-I" \in STRING \cup WrittenKinds /\ "googletest" \in STRING \cup WrittenNames
      BY <1>0
    <3>2. Arg("-I", "googletest") \in Argument /\ Arg("-I", "googletest").kind = "-I"
      BY <3>1, Literals
    <3> QED
      BY <3>2, OptionsFacts
  <2>2. PICK x, y, z : x = Flag("-g") /\ y = Flag("-fPIC") /\ z = Arg("-I", "googletest")
    OBVIOUS
  <2>3. /\ x \in Argument /\ y \in Argument /\ z \in Argument
        /\ OptionKinds({x.kind}) /\ OptionKinds({y.kind}) /\ OptionKinds({z.kind})
    BY <1>0, <2>1, <2>2, AFlag
  <2>4. PICK args : args = <<x, y, z>>
    OBVIOUS
  <2>5. args \in Seq(Argument) /\ OnlyOptions(args)
    BY <2>3, <2>4, Flags3
  <2>6. c3 = addFlagsToBegin(c2, args)
    BY <2>2, <2>4 DEF c3
  <2> QED
    BY <1>3, <2>5, <2>6, TranslatesFacts
<1> HIDE DEF c3
<1>5. Translates(c4, s, o, Nought)
  BY <1>4, TranslatesFacts, OptionsFacts
<1> HIDE DEF c4
<1>6. Translates(c5, s, NewObject, Nought)
  BY <1>5, TranslatesFacts, CompileFiles
<1> HIDE DEF c5
<1>7. Translates(setSourcePath(c5, NewSource), NewSource, NewObject, Nought)
  BY <1>6, TranslatesFacts, CompileFiles
<1> QED
  BY <1>7 DEF c0, c1, c2, c3, c4, c5, compileTest

(* Whatever line compiles a source once, the four commands the server makes  *)
(* of it (for KLEE, for a new source, for the makefile, for the tests) read   *)
(* that source, write that object, at the level they are meant to, and their  *)
(* iterators are where they should be: CompileCommand, KleeGenerator,         *)
(* NativeMakefilePrinter.                                                     *)
THEOREM CompileLinesAreRight == CompileLinesDoTheirTask
<1> SUFFICES ASSUME NEW line \in CompileLines
             PROVE  LET c == ReadCompileLine(line, SourceFile, ObjectFile)
                    IN  /\ Compiles(getCompileCommandForKlee(c, NewSource, NewObject))
                        /\ Compiles(Renamed(c, SourceFile, ObjectFile, NewSource, NewObject))
                        /\ Compiles(addCompileTarget(c, NewSource, NewObject))
                        /\ Compiles(compileTest(c, NewSource, NewObject))
  BY DEF CompileLinesDoTheirTask
<1> DEFINE c == ReadCompileLine(line, SourceFile, ObjectFile)
<1>1. PICK lev : Translates(c, SourceFile, ObjectFile, lev)
  BY ReadCompileLineDoes
<1> HIDE DEF c
<1>2. Compiles(getCompileCommandForKlee(c, NewSource, NewObject))
  BY <1>1, KleeCommand, CompileFiles, TranslatesCompiles
<1>3. Compiles(Renamed(c, SourceFile, ObjectFile, NewSource, NewObject))
  BY <1>1, RenamedCommand, TranslatesCompiles
<1>4. Compiles(addCompileTarget(c, NewSource, NewObject))
  BY <1>1, TargetCommand, TranslatesCompiles
<1>5. Compiles(compileTest(c, NewSource, NewObject))
  BY <1>1, TestCommand, TranslatesCompiles
<1> QED
  BY <1>2, <1>3, <1>4, <1>5 DEF c

-----------------------------------------------------------------------------
(* What a linker is told about names. *)

(* The arguments a linker is told about names with, and the one of a library. *)
Marked(a) == a.kind \in {"-Wl", "-shared"}
MarksOf(line) == {line[i] : i \in {i \in 1 .. Len(line) : Marked(line[i])}}
NoSoname(line) == \A a \in MarksOf(line) : a.kind = "-Wl" => a.name = "-z"
HasShared(line) == \E a \in MarksOf(line) : a.kind = "-shared"

LEMMA SetMarks ==
    ASSUME NEW c \in Command, NEW i \in 1 .. Len(c.line), NEW a \in Argument, ~ Marked(a), ~ Marked(c.line[i]),
           NEW d, d = Set(c, i, a)
    PROVE  MarksOf(d.line) = MarksOf(c.line)
<1>1. /\ Len(d.line) = Len(c.line) /\ d.line[i] = a
      /\ \A j \in 1 .. Len(c.line) : j # i => d.line[j] = c.line[j]
  BY SetGives
<1>2. \A x \in MarksOf(c.line) : x \in MarksOf(d.line)
  BY <1>1 DEF MarksOf
<1>3. \A x \in MarksOf(d.line) : x \in MarksOf(c.line)
  BY <1>1 DEF MarksOf
<1> QED
  BY <1>2, <1>3

LEMMA InsertMarks ==
    ASSUME NEW c, Sound(c), NEW at \in {2, Len(c.line) + 1}, NEW args \in Seq(Argument), NEW d, d = Insert(c, at, args)
    PROVE  MarksOf(d.line) = MarksOf(c.line) \cup MarksOf(args)
<1>1. at \in 1 .. Len(c.line) + 1 /\ Len(c.line) \in Nat /\ c \in Command
  BY SoundFacts
<1>2. /\ Len(d.line) = Len(c.line) + Len(args) /\ Len(args) \in Nat
      /\ \A i \in 1 .. at - 1 : d.line[i] = c.line[i]
      /\ \A i \in 1 .. Len(args) : d.line[at - 1 + i] = args[i]
      /\ \A i \in at .. Len(c.line) : d.line[i + Len(args)] = c.line[i]
  BY <1>1, InsertFacts
<1>3. ASSUME NEW i \in 1 .. Len(c.line)
      PROVE  \E j \in 1 .. Len(d.line) : d.line[j] = c.line[i]
  <2>1. CASE i < at
    <3>1. i \in 1 .. at - 1 /\ i \in 1 .. Len(d.line)
      BY <1>1, <1>2, <2>1
    <3> QED
      BY <1>2, <3>1
  <2>2. CASE i >= at
    <3>1. i \in at .. Len(c.line) /\ i + Len(args) \in 1 .. Len(d.line)
      BY <1>1, <1>2, <2>2
    <3> QED
      BY <1>2, <3>1
  <2> QED
    BY <1>1, <2>1, <2>2
<1>4. ASSUME NEW i \in 1 .. Len(args)
      PROVE  \E j \in 1 .. Len(d.line) : d.line[j] = args[i]
  <2>1. at - 1 + i \in 1 .. Len(d.line)
    BY <1>1, <1>2
  <2> QED
    BY <1>2, <2>1
<1>5. ASSUME NEW j \in 1 .. Len(d.line)
      PROVE  (\E i \in 1 .. Len(c.line) : d.line[j] = c.line[i]) \/ (\E i \in 1 .. Len(args) : d.line[j] = args[i])
  <2>1. CASE j < at
    <3>1. j \in 1 .. at - 1 /\ j \in 1 .. Len(c.line)
      BY <1>1, <2>1
    <3> QED
      BY <1>2, <3>1
  <2>2. CASE j >= at /\ j < at + Len(args)
    <3>1. j - at + 1 \in 1 .. Len(args) /\ at - 1 + (j - at + 1) = j
      BY <1>1, <1>2, <2>2
    <3>2. d.line[at - 1 + (j - at + 1)] = args[j - at + 1]
      BY <1>2, <3>1
    <3> QED
      BY <3>1, <3>2
  <2>3. CASE j >= at + Len(args)
    <3>1. j - Len(args) \in at .. Len(c.line) /\ j - Len(args) \in 1 .. Len(c.line) /\ (j - Len(args)) + Len(args) = j
      BY <1>1, <1>2, <2>3
    <3>2. d.line[(j - Len(args)) + Len(args)] = c.line[j - Len(args)]
      BY <1>2, <3>1
    <3> QED
      BY <3>1, <3>2
  <2> QED
    BY <1>1, <1>2, <2>1, <2>2, <2>3
<1>6. \A x \in MarksOf(d.line) : x \in MarksOf(c.line) \cup MarksOf(args)
  BY <1>5 DEF MarksOf
<1>7. \A x \in MarksOf(c.line) : x \in MarksOf(d.line)
  BY <1>3 DEF MarksOf
<1>8. \A x \in MarksOf(args) : x \in MarksOf(d.line)
  BY <1>4 DEF MarksOf
<1> QED
  BY <1>6, <1>7, <1>8

LEMMA CarriedMarks ==
    ASSUME NEW c, NEW d \in Command, NEW kept, NEW to, Carries(c, d, kept, to), PutIn(d, kept, to) = {},
           \A i \in 1 .. Len(c.line) : Marked(c.line[i]) => i \in kept
    PROVE  MarksOf(d.line) = MarksOf(c.line)
<1>1. kept \subseteq 1 .. Len(c.line) /\ to \in [kept -> 1 .. Len(d.line)] /\ \A i \in kept : d.line[to[i]] = c.line[i]
  BY DEF Carries
<1>2. ASSUME NEW n \in 1 .. Len(d.line)
      PROVE  \E i \in kept : n = to[i]
  <2>1. n \in Staying(kept, to)
    <3>1. ASSUME n \notin Staying(kept, to)
          PROVE  FALSE
      <4>1. d.line[n] \in PutIn(d, kept, to)
        BY <3>1 DEF PutIn
      <4> QED
        BY <4>1
    <3> QED
      BY <3>1
  <2> QED
    BY <2>1 DEF Staying
<1>3. ASSUME NEW n \in 1 .. Len(d.line), Marked(d.line[n])
      PROVE  d.line[n] \in MarksOf(c.line)
  <2>1. PICK i \in kept : n = to[i]
    BY <1>2
  <2>2. i \in 1 .. Len(c.line) /\ d.line[n] = c.line[i]
    BY <1>1, <2>1
  <2> QED
    BY <1>3, <2>2 DEF MarksOf
<1>4. ASSUME NEW i \in 1 .. Len(c.line), Marked(c.line[i])
      PROVE  c.line[i] \in MarksOf(d.line)
  <2>1. i \in kept
    BY <1>4
  <2>2. to[i] \in 1 .. Len(d.line) /\ d.line[to[i]] = c.line[i]
    BY <1>1, <2>1
  <2> QED
    BY <1>4, <2>2 DEF MarksOf
<1>5. \A x \in MarksOf(d.line) : x \in MarksOf(c.line)
  BY <1>3 DEF MarksOf
<1>6. \A x \in MarksOf(c.line) : x \in MarksOf(d.line)
  BY <1>4 DEF MarksOf
<1> QED
  BY <1>5, <1>6

LEMMA OutputMarks ==
    ASSUME NEW c, Sound(c), NEW a \in Argument, a.kind \in FileKinds
    PROVE  MarksOf(setOutput(c, a).line) = MarksOf(c.line)
<1>1. c \in Command /\ c.output \in 1 .. Len(c.line) /\ c.line[c.output].kind \in FileKinds
  BY SoundFacts
<1>2. ~ Marked(a) /\ ~ Marked(c.line[c.output])
  BY <1>1 DEF Marked, FileKinds
<1> QED
  BY <1>1, <1>2, SetMarks DEF setOutput

LEMMA ToolMarks ==
    ASSUME NEW c, Sound(c), NEW name \in WrittenNames
    PROVE  MarksOf(setBuildTool(c, name).line) = MarksOf(c.line)
<1>1. c \in Command /\ 1 \in 1 .. Len(c.line) /\ c.line[1].kind = "tool"
  BY SoundFacts
<1>2. Arg("tool", name) \in Argument /\ Arg("tool", name).kind = "tool"
  BY Literal DEF WrittenKinds
<1>3. ~ Marked(Arg("tool", name)) /\ ~ Marked(c.line[1])
  BY <1>1, <1>2 DEF Marked
<1> QED
  BY <1>1, <1>2, <1>3, SetMarks DEF setBuildTool

LEMMA OneMark ==
    ASSUME NEW a \in Argument, ~ Marked(a)
    PROVE  <<a>> \in Seq(Argument) /\ MarksOf(<<a>>) = {}
<1> DEFINE s == <<a>>
<1>1. s \in Seq(Argument) /\ Len(s) = 1 /\ s[1] = a
  OBVIOUS
<1> HIDE DEF s
<1>2. MarksOf(s) = {}
  BY <1>1 DEF MarksOf
<1> QED
  BY <1>1, <1>2 DEF s

LEMMA LevelMarks ==
    ASSUME NEW c, Sound(c)
    PROVE  MarksOf(setOptimizationLevel(c, Nought).line) = MarksOf(c.line)
<1>0. Nought \in Argument /\ ~ Marked(Nought)
  BY Literals DEF Marked
<1>1. CASE c.optimizationLevel # 0
  <2>1. c \in Command /\ c.optimizationLevel \in 1 .. Len(c.line)
    BY <1>1, SoundFacts
  <2>2. ~ Marked(c.line[c.optimizationLevel])
    BY <2>1, SoundFacts DEF Marked
  <2> QED
    BY <1>0, <1>1, <2>1, <2>2, SetMarks DEF setOptimizationLevel
<1>2. CASE c.optimizationLevel = 0
  <2>1. PICK args : args = <<Nought>>
    OBVIOUS
  <2>2. PICK f : f = Insert(c, 2, args)
    OBVIOUS
  <2>3. args \in Seq(Argument) /\ MarksOf(args) = {} /\ 2 \in {2, Len(c.line) + 1} /\ 2 \in 1 .. Len(c.line) + 1
    BY <1>0, <2>1, OneMark, SoundFacts
  <2>4. MarksOf(f.line) = MarksOf(c.line) \cup MarksOf(args)
    BY <2>2, <2>3, InsertMarks
  <2>5. f \in Command
    BY <2>2, <2>3, InsertFacts, SoundFacts
  <2>6. setOptimizationLevel(c, Nought) = [f EXCEPT !.optimizationLevel = 2]
    BY <1>2, <2>1, <2>2 DEF setOptimizationLevel, addFlagsToBegin
  <2>7. setOptimizationLevel(c, Nought).line = f.line
    BY <2>5, <2>6 DEF Command
  <2> QED
    BY <2>3, <2>4, <2>7
<1> QED
  BY <1>1, <1>2

-----------------------------------------------------------------------------
(* Arguments that are replaced where they stand. *)

Replaces(c, d) ==
    /\ d \in Command /\ Len(d.line) = Len(c.line) /\ d.output = c.output /\ d.optimizationLevel = c.optimizationLevel
    /\ d.line[c.output] = c.line[c.output]
    /\ \A i \in 1 .. Len(c.line) : c.line[i].kind \in {"tool", "-o", "-O"} => d.line[i] = c.line[i]
    /\ \A i \in 1 .. Len(c.line) : d.line[i].kind \in {"-o", "-O"} => d.line[i] = c.line[i]

LEMMA ReplacedSound ==
    ASSUME NEW c, NEW d, Sound(c), Replaces(c, d)
    PROVE  Sound(d) /\ OutputOf(d) = OutputOf(c) /\ LevelOf(d) = LevelOf(c) /\ d.line[1] = c.line[1]
<1>1. /\ Len(c.line) \in Nat /\ c.output \in 3 .. Len(c.line) /\ DashO.kind = "-o"
      /\ c.line[1].kind = "tool" /\ c.line[c.output - 1] = DashO /\ c.line[c.output].kind \in FileKinds
      /\ c.optimizationLevel \in {0} \cup 2 .. Len(c.line)
  BY SoundFacts, Literals DEF Sound
<1>2. 1 \in 1 .. Len(c.line) /\ c.output - 1 \in 1 .. Len(c.line)
  BY <1>1
<1>3. d.line[1] = c.line[1] /\ d.line[c.output - 1] = c.line[c.output - 1]
  BY <1>1, <1>2 DEF Replaces
<1>4. \A i \in 1 .. Len(c.line) : /\ d.line[i].kind = "-o" <=> c.line[i].kind = "-o"
                                  /\ d.line[i].kind = "-O" <=> c.line[i].kind = "-O"
  BY DEF Replaces
<1>5. Sound(d)
  BY <1>1, <1>3, <1>4, SamePlaces DEF Replaces
<1>6. OutputOf(d) = OutputOf(c)
  BY DEF Replaces, OutputOf
<1>7. LevelOf(d) = LevelOf(c)
  <2>1. c.optimizationLevel # 0 => c.line[c.optimizationLevel].kind = "-O"
    BY <1>1, SoundFacts
  <2> QED
    BY <1>1, <2>1 DEF Replaces, LevelOf
<1> QED
  BY <1>3, <1>5, <1>6, <1>7

SameFiles(c, d) ==
    \A i \in 1 .. Len(c.line) : c.line[i].kind \in FileKinds \/ d.line[i].kind \in FileKinds => d.line[i] = c.line[i]

LEMMA ReplacedInputs ==
    ASSUME NEW c, NEW d, Sound(c), Replaces(c, d), SameFiles(c, d)
    PROVE  Inputs(d) = Inputs(c)
<1>1. Len(d.line) = Len(c.line) /\ d.output = c.output
  BY DEF Replaces
<1>2. FilePlaces(d) = FilePlaces(c)
  BY <1>1 DEF FilePlaces, SameFiles
<1>3. \A i \in FilePlaces(c) : d.line[i] = c.line[i]
  BY <1>1 DEF FilePlaces, SameFiles
<1> QED
  BY <1>1, <1>2, <1>3 DEF Inputs

-----------------------------------------------------------------------------
(* The name of a library. *)

LEMMA FunctionIsSeq ==
    ASSUME NEW S, NEW n \in Nat, NEW f \in [1 .. n -> S]
    PROVE  f \in Seq(S) /\ Len(f) = n
OBVIOUS

LEMMA NameOf == ASSUME NEW a \in Argument PROVE a.name \in Names /\ a.kind \in STRING \cup WrittenKinds
BY DEF Argument

LEMMA SameArgument ==
    ASSUME NEW a \in Argument, NEW k, NEW n, a.kind = k, a.name = n
    PROVE  a = Arg(k, n)
BY DEF Argument, Arg

LEMMA SonameFacts == Soname.kind = "-Wl" /\ Soname.name = "-soname"
BY DEF Soname, Arg

LEMMA SetNamed ==
    ASSUME NEW c \in Command, NEW i \in 1 .. Len(c.line), NEW a \in Argument, a.kind # "-Wl", c.line[i].kind # "-Wl",
           Named(c.line), NEW d, d = Set(c, i, a)
    PROVE  Named(d.line)
<1>1. /\ Len(d.line) = Len(c.line) /\ d.line[i] = a /\ Len(c.line) \in Nat
      /\ \A j \in 1 .. Len(c.line) : j # i => d.line[j] = c.line[j]
  <2>1. Len(c.line) \in Nat
    BY DEF Command
  <2> QED
    BY <2>1, SetGives
<1> SUFFICES ASSUME NEW j \in 1 .. Len(c.line), d.line[j] = Soname
             PROVE  j < Len(c.line) /\ d.line[j + 1].kind = "-Wl"
  BY <1>1 DEF Named
<1>2. c.line[j] = Soname
  BY <1>1, SonameFacts
<1>3. j < Len(c.line) /\ c.line[j + 1].kind = "-Wl"
  BY <1>2 DEF Named
<1>4. j + 1 \in 1 .. Len(c.line)
  BY <1>1, <1>3
<1> QED
  BY <1>1, <1>3, <1>4

LEMMA OutputNamed ==
    ASSUME NEW c, Sound(c), NEW a \in Argument, a.kind \in FileKinds, Named(c.line)
    PROVE  Named(setOutput(c, a).line)
<1>1. c \in Command /\ c.output \in 1 .. Len(c.line) /\ c.line[c.output].kind \in FileKinds
  BY SoundFacts
<1>2. a.kind # "-Wl" /\ c.line[c.output].kind # "-Wl"
  BY <1>1 DEF FileKinds
<1> QED
  BY <1>1, <1>2, SetNamed DEF setOutput

LEMMA ToolNamed ==
    ASSUME NEW c, Sound(c), NEW name \in WrittenNames, Named(c.line)
    PROVE  Named(setBuildTool(c, name).line)
<1>1. c \in Command /\ 1 \in 1 .. Len(c.line) /\ c.line[1].kind = "tool"
  BY SoundFacts
<1>2. Arg("tool", name) \in Argument /\ Arg("tool", name).kind = "tool"
  BY Literal DEF WrittenKinds
<1> QED
  BY <1>1, <1>2, SetNamed DEF setBuildTool

LEMMA CarriedNamed ==
    ASSUME NEW c, NEW d \in Command, NEW kept, NEW to, Sound(c), Carries(c, d, kept, to), PutIn(d, kept, to) = {},
           KeepsWl(c, kept), Named(c.line)
    PROVE  Named(d.line)
<1> SUFFICES ASSUME NEW n \in 1 .. Len(d.line), d.line[n] = Soname
             PROVE  n < Len(d.line) /\ d.line[n + 1].kind = "-Wl"
  BY DEF Named
<1>1. PICK i \in kept : n = to[i]
  <2>1. ASSUME n \notin Staying(kept, to)
        PROVE  FALSE
    <3>1. d.line[n] \in PutIn(d, kept, to)
      BY <2>1 DEF PutIn
    <3> QED
      BY <3>1
  <2> QED
    BY <2>1 DEF Staying
<1>2. i \in 1 .. Len(c.line) /\ c.line[i] = Soname /\ Len(c.line) \in Nat /\ c.line[1].kind = "tool" /\ Len(d.line) \in Nat
  BY <1>1, SoundFacts DEF Carries, Command
<1>3. i < Len(c.line) /\ c.line[i + 1].kind = "-Wl" /\ i # 1
  BY <1>2, SonameFacts DEF Named
<1>4. i + 1 \in kept /\ i + 1 > 2 /\ (i + 1) - 1 = i
  BY <1>2, <1>3 DEF KeepsWl
<1>5. to[i] = to[i + 1] - 1 /\ to[i + 1] \in 1 .. Len(d.line) /\ d.line[to[i + 1]] = c.line[i + 1] /\ to[i] \in Nat
  BY <1>1, <1>4 DEF Carries
<1>6. to[i + 1] = n + 1
  BY <1>1, <1>5
<1> QED
  BY <1>2, <1>3, <1>5, <1>6

WithoutSoname(c) == [c EXCEPT !.line = removeSonameFlag(@)]

LEMMA RemoveSoname ==
    ASSUME NEW c, NEW ins, NEW out, NEW lev, Does(c, ins, out, lev), NoStray(c.line), Named(c.line),
           NEW d, d = WithoutSoname(c)
    PROVE  /\ Does(d, ins, out, lev) /\ d.line[1] = c.line[1]
           /\ NoSoname(d.line) /\ (HasShared(d.line) <=> HasShared(c.line))
<1>0. Sound(c) /\ c \in Command /\ c.line \in Seq(Argument) /\ Len(c.line) \in Nat /\ DOMAIN c.line = 1 .. Len(c.line)
      /\ c.output \in 1 .. Len(c.line) /\ c.line[c.output].kind \in FileKinds
  BY SoundFacts DEF Does
<1>1. \A i \in 1 .. Len(c.line) : i > 1 /\ c.line[i - 1] = Soname => c.line[i].kind = "-Wl"
  <2> SUFFICES ASSUME NEW i \in 1 .. Len(c.line), i > 1, c.line[i - 1] = Soname
               PROVE  c.line[i].kind = "-Wl"
    OBVIOUS
  <2>1. i - 1 \in 1 .. Len(c.line) /\ (i - 1) + 1 = i
    BY <1>0
  <2> QED
    BY <2>1 DEF Named
<1>2. Arg("-Wl", "-soname,name").kind = "-Wl" /\ Soname.kind = "-Wl" /\ Soname.name = "-soname"
      /\ Nothing \in Argument /\ Nothing.kind = "nothing"
  BY SonameFacts, Literals DEF Arg
<1>3. \A i \in 1 .. Len(c.line) :
         removeSonameFlag(c.line)[i] = IF \/ c.line[i] \in {Soname, Arg("-Wl", "-soname,name")}
                                          \/ i > 1 /\ c.line[i - 1] = Soname
                                       THEN Nothing ELSE c.line[i]
  BY <1>0 DEF removeSonameFlag, Soname
<1>4. removeSonameFlag(c.line) \in Seq(Argument) /\ Len(removeSonameFlag(c.line)) = Len(c.line)
  <2>1. removeSonameFlag(c.line) = [i \in 1 .. Len(c.line) |-> removeSonameFlag(c.line)[i]]
    BY <1>0 DEF removeSonameFlag
  <2>2. \A i \in 1 .. Len(c.line) : c.line[i] \in Argument
    BY <1>0
  <2>3. \A i \in 1 .. Len(c.line) : removeSonameFlag(c.line)[i] \in Argument
    BY <1>2, <1>3, <2>2
  <2>4. removeSonameFlag(c.line) \in [1 .. Len(c.line) -> Argument]
    BY <2>1, <2>3
  <2> QED
    BY <1>0, <2>4, FunctionIsSeq
<1>5. d \in Command /\ d.line = removeSonameFlag(c.line) /\ d.output = c.output /\ d.optimizationLevel = c.optimizationLevel
  BY <1>0, <1>4 DEF Command, WithoutSoname
<1>6. ASSUME NEW i \in 1 .. Len(c.line)
      PROVE  \/ d.line[i] = c.line[i]
             \/ d.line[i] = Nothing /\ c.line[i].kind = "-Wl"
  BY <1>1, <1>2, <1>3, <1>5
<1>7. ASSUME NEW i \in 1 .. Len(c.line), d.line[i].kind = "-Wl"
      PROVE  d.line[i] = c.line[i] /\ c.line[i].name = "-z"
  <2>1. d.line[i] = c.line[i] /\ c.line[i] \notin {Soname, Arg("-Wl", "-soname,name")} /\ ~ (i > 1 /\ c.line[i - 1] = Soname)
    BY <1>2, <1>3, <1>5, <1>7
  <2>2. c.line[i].name \in {"-z", "-soname,name", "-soname"}
    BY <1>7, <2>1 DEF NoStray, Soname
  <2>3. \A a \in Argument : a.kind = "-Wl" /\ a.name \in {"-soname", "-soname,name"} => a \in {Soname, Arg("-Wl", "-soname,name")}
    BY SameArgument DEF Soname
  <2>4. c.line[i] \in Argument
    BY <1>0
  <2> QED
    BY <1>7, <2>1, <2>2, <2>3, <2>4
<1>8. Replaces(c, d)
  <2>1. d.line[c.output] = c.line[c.output]
    BY <1>0, <1>6 DEF FileKinds
  <2> QED
    BY <1>2, <1>4, <1>5, <1>6, <2>1 DEF Replaces
<1>9. SameFiles(c, d)
  BY <1>2, <1>6 DEF SameFiles, FileKinds
<1>10. Does(d, ins, out, lev) /\ d.line[1] = c.line[1]
  BY <1>0, <1>8, <1>9, ReplacedSound, ReplacedInputs DEF Does
<1>11. NoSoname(d.line)
  BY <1>4, <1>5, <1>7 DEF NoSoname, MarksOf
<1>12. HasShared(d.line) <=> HasShared(c.line)
  <2>1. \A i \in 1 .. Len(c.line) : d.line[i].kind = "-shared" <=> c.line[i].kind = "-shared"
    BY <1>2, <1>6
  <2>2. Len(d.line) = Len(c.line)
    BY <1>4, <1>5
  <2>3. HasShared(d.line) <=> \E i \in 1 .. Len(c.line) : d.line[i].kind = "-shared"
    BY <2>2 DEF HasShared, MarksOf, Marked
  <2>4. HasShared(c.line) <=> \E i \in 1 .. Len(c.line) : c.line[i].kind = "-shared"
    BY DEF HasShared, MarksOf, Marked
  <2> QED
    BY <2>1, <2>3, <2>4
<1> QED
  BY <1>10, <1>11, <1>12

LEMMA TransformFlags ==
    ASSUME NEW c, NEW ins, NEW out, NEW lev, Does(c, ins, out, lev),
           NEW d, d = [c EXCEPT !.line = transformCompilerFlagsToLinkerFlags(@)]
    PROVE  Does(d, ins, out, lev) /\ d.line[1] = c.line[1] /\ NoStray(d.line) /\ Named(d.line)
<1>0. Sound(c) /\ c \in Command /\ c.line \in Seq(Argument) /\ Len(c.line) \in Nat /\ DOMAIN c.line = 1 .. Len(c.line)
      /\ c.output \in 1 .. Len(c.line) /\ c.line[c.output].kind \in FileKinds
  BY SoundFacts DEF Does
<1>1. \A i \in 1 .. Len(c.line) :
         /\ transformCompilerFlagsToLinkerFlags(c.line)[i] =
                IF c.line[i].kind = "-Wl" THEN Flag(c.line[i].name) ELSE c.line[i]
         /\ Flag(c.line[i].name).kind = "flag" /\ Flag(c.line[i].name) \in Argument
  <2>1. "flag" \in WrittenKinds
    BY DEF WrittenKinds
  <2>2. \A i \in 1 .. Len(c.line) : c.line[i].name \in Names
    <3>1. \A i \in 1 .. Len(c.line) : c.line[i] \in Argument
      BY <1>0
    <3> QED
      BY <3>1, NameOf
  <2> QED
    BY <1>0, <2>1, <2>2 DEF transformCompilerFlagsToLinkerFlags, Flag, Arg, Argument
<1>2. /\ transformCompilerFlagsToLinkerFlags(c.line) \in Seq(Argument)
      /\ Len(transformCompilerFlagsToLinkerFlags(c.line)) = Len(c.line)
  <2>1. transformCompilerFlagsToLinkerFlags(c.line)
            = [i \in 1 .. Len(c.line) |-> transformCompilerFlagsToLinkerFlags(c.line)[i]]
    BY <1>0 DEF transformCompilerFlagsToLinkerFlags
  <2>2. \A i \in 1 .. Len(c.line) : c.line[i] \in Argument
    BY <1>0
  <2>3. \A i \in 1 .. Len(c.line) : transformCompilerFlagsToLinkerFlags(c.line)[i] \in Argument
    BY <1>1, <2>2
  <2>4. transformCompilerFlagsToLinkerFlags(c.line) \in [1 .. Len(c.line) -> Argument]
    BY <2>1, <2>3
  <2> QED
    BY <1>0, <2>4, FunctionIsSeq
<1>3. /\ d \in Command /\ d.line = transformCompilerFlagsToLinkerFlags(c.line) /\ d.output = c.output
      /\ d.optimizationLevel = c.optimizationLevel /\ Len(d.line) = Len(c.line)
  BY <1>0, <1>2 DEF Command
<1>4. \A i \in 1 .. Len(c.line) : \/ d.line[i] = c.line[i] /\ c.line[i].kind # "-Wl"
                                  \/ d.line[i].kind = "flag" /\ c.line[i].kind = "-Wl"
  BY <1>1, <1>3
<1>5. Replaces(c, d) /\ SameFiles(c, d)
  <2>1. d.line[c.output] = c.line[c.output]
    BY <1>0, <1>4 DEF FileKinds
  <2> QED
    BY <1>3, <1>4, <2>1 DEF Replaces, SameFiles, FileKinds
<1>6. NoStray(d.line) /\ Named(d.line)
  BY <1>3, <1>4, SonameFacts DEF NoStray, Named
<1> QED
  BY <1>0, <1>5, <1>6, ReplacedSound, ReplacedInputs DEF Does

ForTheLinker(c) == [c EXCEPT !.line = transformCompilerFlagsToLinkerFlags(@)]

LEMMA ForTheLinkerDoes ==
    \A c, ins, out, lev :
        Does(c, ins, out, lev) =>
            /\ Does(ForTheLinker(c), ins, out, lev)
            /\ NoStray(ForTheLinker(c).line) /\ Named(ForTheLinker(c).line)
<1> TAKE c, ins, out, lev
<1> HAVE Does(c, ins, out, lev)
<1> QED
  BY TransformFlags DEF ForTheLinker

-----------------------------------------------------------------------------
(* The files that are made of the files of a target. *)

(* What is made of the files of a target. *)

LEMMA TargetFacts ==
    ASSUME NEW t, WellBuilt(t)
    PROVE  /\ \A a \in t.files : /\ a \in Argument /\ a.kind \in {"object", "static", "shared"} /\ a.name # ""
                                 /\ Made(t)[a] \in Argument /\ Made(t)[a].kind = a.kind /\ Made(t)[a] = NewFile(a)
           /\ t.output \in Argument /\ t.output.kind \in FileKinds /\ t.output \notin t.files
           /\ NewOutput \in Argument /\ NewOutput.kind = "program" /\ NewOutput.kind \in FileKinds
           /\ NewOutput \notin t.files
<1>1. ASSUME NEW a \in t.files
      PROVE  /\ a \in Argument /\ a.kind \in {"object", "static", "shared"} /\ a.name # ""
             /\ Made(t)[a] \in Argument /\ Made(t)[a].kind = a.kind /\ Made(t)[a] = NewFile(a)
  <2>1. a \in [kind : {"object", "static", "shared"}, name : STRING \ {""}]
    BY DEF WellBuilt, LibraryKinds
  <2>2. a.name \in STRING /\ a.name \in Names /\ "new " \o a.name \in Names /\ a.name # ""
    BY <2>1 DEF Names
  <2>3. a.kind \in {"object", "static", "shared"} /\ a.kind \in STRING \cup WrittenKinds
    <3>1. {"object", "static", "shared"} \subseteq WrittenKinds
      BY DEF WrittenKinds
    <3>2. a.kind \in {"object", "static", "shared"}
      BY <2>1
    <3> QED
      BY <3>1, <3>2
  <2>4. \A k \in STRING \cup WrittenKinds, n \in Names : Arg(k, n) \in Argument /\ Arg(k, n).kind = k
    BY DEF Argument, Arg
  <2>5. NewFile(a) \in Argument /\ NewFile(a).kind = a.kind
    BY <2>2, <2>3, <2>4 DEF NewFile
  <2>6. a = Arg(a.kind, a.name)
    BY <2>1 DEF Arg
  <2>7. a \in Argument
    BY <2>2, <2>3, <2>4, <2>6
  <2>9. a \in Argument /\ NewFile(a) \in Argument /\ NewFile(a).kind = a.kind
    BY <2>5, <2>7
  <2> QED
    BY <2>2, <2>3, <2>9 DEF Made
<1>2. t.output \in Argument /\ t.output.kind \in FileKinds /\ t.output \notin t.files
  <2>1. t.output \in [kind : FileKinds, name : STRING] /\ t.output \notin t.files
    BY DEF WellBuilt
  <2>2. t.output.kind \in FileKinds /\ t.output.name \in Names /\ t.output = [kind |-> t.output.kind, name |-> t.output.name]
    BY <2>1 DEF Names
  <2>3. t.output.kind \in WrittenKinds
    BY <2>2 DEF FileKinds, WrittenKinds
  <2> QED
    BY <2>1, <2>2, <2>3 DEF Argument
<1>3. NewOutput \in Argument /\ NewOutput.kind = "program"
  <2>1. "program" \in WrittenKinds /\ "new" \in WrittenNames
    BY DEF WrittenKinds, WrittenNames
  <2> QED
    BY <2>1, Literal DEF NewOutput
<1>4. NewOutput.kind \in FileKinds /\ NewOutput \notin t.files
  BY <1>1, <1>3 DEF FileKinds
<1> QED
  BY <1>1, <1>2, <1>3, <1>4

LEMMA MadeOfFiles ==
    ASSUME NEW t, WellBuilt(t), NEW c, NEW out, NEW lev, Does(c, t.files, out, lev), out \notin t.files,
           NEW d, d = [c EXCEPT !.line = MadeOf(@, t, Made(t))]
    PROVE  /\ Does(d, NewFiles(t), out, lev) /\ d.line[1] = c.line[1]
           /\ NoStray(c.line) => NoStray(d.line)
           /\ Named(c.line) => Named(d.line)
           /\ MarksOf(d.line) = MarksOf(c.line)
<1>0. /\ Sound(c) /\ c \in Command /\ c.line \in Seq(Argument) /\ Len(c.line) \in Nat /\ DOMAIN c.line = 1 .. Len(c.line)
      /\ c.output \in 1 .. Len(c.line) /\ c.line[c.output] = out /\ out.kind \in FileKinds /\ Inputs(c) = t.files
  BY SoundFacts DEF Does, OutputOf
<1>1. \A i \in 1 .. Len(c.line) :
         MadeOf(c.line, t, Made(t))[i] = IF c.line[i] \in t.files THEN Made(t)[c.line[i]] ELSE c.line[i]
  BY <1>0 DEF MadeOf
<1>2. /\ MadeOf(c.line, t, Made(t)) \in Seq(Argument)
      /\ Len(MadeOf(c.line, t, Made(t))) = Len(c.line)
  <2>1. MadeOf(c.line, t, Made(t)) = [i \in 1 .. Len(c.line) |-> MadeOf(c.line, t, Made(t))[i]]
    BY <1>0 DEF MadeOf
  <2>2. \A i \in 1 .. Len(c.line) : c.line[i] \in Argument
    BY <1>0
  <2>3. \A i \in 1 .. Len(c.line) : MadeOf(c.line, t, Made(t))[i] \in Argument
    BY <1>1, <2>2, TargetFacts
  <2>4. MadeOf(c.line, t, Made(t)) \in [1 .. Len(c.line) -> Argument]
    BY <2>1, <2>3
  <2> QED
    BY <1>0, <2>4, FunctionIsSeq
<1>3. /\ d \in Command /\ d.line = MadeOf(c.line, t, Made(t)) /\ d.output = c.output
      /\ d.optimizationLevel = c.optimizationLevel /\ Len(d.line) = Len(c.line)
  BY <1>0, <1>2 DEF Command
<1>4. ASSUME NEW i \in 1 .. Len(c.line)
      PROVE  \/ d.line[i] = c.line[i] /\ c.line[i] \notin t.files
             \/ /\ c.line[i] \in t.files /\ d.line[i] = Made(t)[c.line[i]] /\ d.line[i].kind = c.line[i].kind
                /\ c.line[i].kind \in {"object", "static", "shared"}
  <2>1. CASE c.line[i] \notin t.files
    BY <1>1, <1>3, <2>1
  <2>2. CASE c.line[i] \in t.files
    <3>1. PICK a : a = c.line[i]
      OBVIOUS
    <3>2. d.line[i] = Made(t)[a]
      BY <1>1, <1>3, <2>2, <3>1
    <3>3. a \in t.files /\ Made(t)[a].kind = a.kind /\ a.kind \in {"object", "static", "shared"}
      BY <2>2, <3>1, TargetFacts
    <3> QED
      BY <3>1, <3>2, <3>3
  <2> QED
    BY <2>1, <2>2
<1>5. \A i \in 1 .. Len(c.line) : /\ d.line[i].kind = c.line[i].kind
                                  /\ c.line[i].kind \notin FileKinds => d.line[i] = c.line[i]
  BY <1>4 DEF FileKinds
<1>6. Replaces(c, d)
  <2>1. d.line[c.output] = c.line[c.output]
    BY <1>0, <1>4
  <2> QED
    BY <1>3, <1>5, <2>1 DEF Replaces, FileKinds
<1>7. Sound(d) /\ OutputOf(d) = out /\ LevelOf(d) = lev /\ d.line[1] = c.line[1]
  BY <1>0, <1>6, ReplacedSound DEF Does
<1>8. Inputs(d) = NewFiles(t)
  <2>1. FilePlaces(d) = FilePlaces(c)
    BY <1>3, <1>5 DEF FilePlaces
  <2>2. \A i \in FilePlaces(c) \ {c.output} : c.line[i] \in t.files
    BY <1>0 DEF Inputs
  <2>3. \A i \in FilePlaces(c) \ {c.output} : d.line[i] = Made(t)[c.line[i]]
    BY <1>4, <2>2 DEF FilePlaces
  <2>4. \A a \in t.files : \E i \in FilePlaces(c) \ {c.output} : c.line[i] = a
    BY <1>0 DEF Inputs
  <2>5. \A x \in Inputs(d) : x \in NewFiles(t)
    BY <1>3, <2>1, <2>2, <2>3 DEF Inputs, NewFiles
  <2>6. \A x \in NewFiles(t) : x \in Inputs(d)
    BY <1>3, <2>1, <2>3, <2>4 DEF Inputs, NewFiles
  <2> QED
    BY <2>5, <2>6
<1>9. \A i \in 1 .. Len(c.line) : /\ c.line[i].kind = "-Wl" \/ d.line[i].kind = "-Wl" => d.line[i] = c.line[i]
                                  /\ Marked(c.line[i]) \/ Marked(d.line[i]) => d.line[i] = c.line[i]
  BY <1>5 DEF FileKinds, Marked
<1>10. NoStray(c.line) => NoStray(d.line)
  <2> SUFFICES ASSUME NoStray(c.line), NEW j \in 1 .. Len(d.line), d.line[j].kind = "-Wl"
               PROVE  \/ d.line[j].name \in {"-z", "-soname,name", "-soname"}
                      \/ j > 1 /\ d.line[j - 1] = Soname
    BY DEF NoStray
  <2>1. d.line[j] = c.line[j] /\ c.line[j].kind = "-Wl"
    BY <1>3, <1>9
  <2>2. ASSUME j > 1, c.line[j - 1] = Soname
        PROVE  d.line[j - 1] = Soname
    <3>1. j - 1 \in 1 .. Len(c.line) /\ c.line[j - 1].kind = "-Wl"
      BY <1>0, <1>3, <2>2 DEF Arg, Soname
    <3> QED
      BY <1>9, <2>2, <3>1
  <2> QED
    BY <1>3, <2>1, <2>2 DEF NoStray
<1>11. Named(c.line) => Named(d.line)
  <2> SUFFICES ASSUME Named(c.line), NEW j \in 1 .. Len(c.line), d.line[j] = Soname
               PROVE  j < Len(c.line) /\ d.line[j + 1].kind = "-Wl"
    BY <1>3 DEF Named
  <2>1. c.line[j] = Soname
    BY <1>9, SonameFacts
  <2>2. j < Len(c.line) /\ c.line[j + 1].kind = "-Wl" /\ j + 1 \in 1 .. Len(c.line)
    BY <1>0, <2>1 DEF Named
  <2> QED
    BY <1>9, <2>2
<1>12. MarksOf(d.line) = MarksOf(c.line)
  <2>1. \A x \in MarksOf(d.line) : x \in MarksOf(c.line)
    BY <1>3, <1>9 DEF MarksOf
  <2>2. \A x \in MarksOf(c.line) : x \in MarksOf(d.line)
    BY <1>3, <1>9 DEF MarksOf
  <2> QED
    BY <2>1, <2>2
<1> QED
  BY <1>7, <1>8, <1>10, <1>11, <1>12 DEF Does

LEMMA SameButSource ==
    ASSUME NEW e, NEW ins, NEW out, NEW lev, Does(e, ins, out, lev), NEW d \in Command, d.line = e.line,
           d.output = e.output, d.optimizationLevel = e.optimizationLevel
    PROVE  Does(d, ins, out, lev)
BY DEF Does, Sound, Inputs, FilePlaces, OutputOf, LevelOf

(* Behind the level and the output, -static takes nothing with it. *)
LEMMA EraseStatic ==
    ASSUME NEW c, NEW ins, NEW out, NEW lev, Does(c, ins, out, lev), StaticComesLast(c.line),
           NEW d, d = Erase(c, Static)
    PROVE  /\ Does(d, ins, out, lev) /\ d.line[1] = c.line[1]
           /\ NoStray(c.line) => NoStray(d.line)
           /\ Named(c.line) => Named(d.line)
           /\ MarksOf(d.line) = MarksOf(c.line)
<1>0. /\ Sound(c) /\ c \in Command /\ c.line \in Seq(Argument) /\ Len(c.line) \in Nat /\ DOMAIN c.line = 1 .. Len(c.line)
      /\ c.output \in 3 .. Len(c.line) /\ c.line[c.output] = out /\ out.kind \in FileKinds /\ Inputs(c) = ins
  BY SoundFacts DEF Does, OutputOf
<1>a. /\ c.optimizationLevel \in 0 .. Len(c.line) /\ c.output - 1 \in 1 .. Len(c.line) /\ c.output \in 1 .. Len(c.line)
      /\ \A i \in 1 .. Len(c.line) : c.line[i].kind = "-o" <=> i = c.output - 1
      /\ \A i \in 1 .. Len(c.line) : c.line[i].kind = "-O" <=> i = c.optimizationLevel
  BY <1>0, SoundFacts
<1> DEFINE args == {Static}
           kept == Left(c, args)
<1>1. Static.kind = "-static" /\ (\A a \in args : a.kind = "-static") /\ out \notin args
  <2>1. Static.kind = "-static"
    BY DEF Static, Arg
  <2>2. out # Static
    BY <1>0, <2>1 DEF FileKinds
  <2> QED
    BY <2>1, <2>2
<1>2. kept \in SUBSET (1 .. Len(c.line)) /\ \A i \in 1 .. Len(c.line) : i \in kept <=> c.line[i] # Static
  BY <1>0 DEF Left
<1>3. d = [line |-> Kept(c.line, kept),
           sourcePath |-> IF c.sourcePath <= Len(Kept(c.line, kept)) THEN c.sourcePath ELSE 0,
           output |-> IF c.output <= Len(Kept(c.line, kept)) THEN c.output ELSE 0,
           optimizationLevel |-> IF c.optimizationLevel <= Len(Kept(c.line, kept)) THEN c.optimizationLevel ELSE 0]
  BY DEF Erase, Erased, Left
<1>4. PICK e : e = EraseIf(c, args)
  OBVIOUS
<1>5. /\ e.line = Kept(c.line, kept)
      /\ e.output = IF c.output \in kept THEN Rank(kept, c.output) ELSE 0
      /\ e.optimizationLevel = IF c.optimizationLevel \in kept THEN Rank(kept, c.optimizationLevel) ELSE 0
  BY <1>4 DEF EraseIf, Left
<1> HIDE DEF args, kept
<1>6. /\ Len(Kept(c.line, kept)) = Cardinality(kept) /\ Cardinality(kept) \in Nat
      /\ Kept(c.line, kept) \in Seq(Argument)
  <2>1. kept \in SUBSET DOMAIN c.line
    BY <1>0, <1>2
  <2> QED
    BY <1>0, <2>1, KeptFacts
<1>7. ASSUME NEW j \in 1 .. Len(c.line), c.line[j].kind \in {"-o", "-O"}
      PROVE  1 .. j \subseteq kept
  <2> SUFFICES ASSUME NEW i \in 1 .. j, c.line[i] = Static
               PROVE  FALSE
    BY <1>0, <1>2
  <2>1. i \in DOMAIN c.line /\ j \in DOMAIN c.line /\ c.line[i].kind = "-static" /\ i <= j
    BY <1>0, <1>1
  <2>2. j < i
    BY <1>7, <2>1 DEF StaticComesLast
  <2> QED
    BY <1>0, <2>1, <2>2
<1>8. 1 .. c.output \subseteq kept /\ c.output \in kept
  <2>1. 1 .. c.output - 1 \subseteq kept
    BY <1>0, <1>a, <1>7
  <2>2. c.output \in kept
    BY <1>0, <1>1, <1>2 DEF args
  <2> QED
    BY <1>0, <2>1, <2>2
<1>9. c.optimizationLevel # 0 => 1 .. c.optimizationLevel \subseteq kept /\ c.optimizationLevel \in kept
  BY <1>0, <1>a, <1>7
<1>10. /\ \A i \in kept : Rank(kept, i) \in 1 .. Cardinality(kept)
       /\ \A i \in kept : 1 .. i \subseteq kept => Rank(kept, i) = i
  BY <1>0, <1>2, RankFacts
<1>11. e.output = c.output /\ c.output <= Cardinality(kept)
  BY <1>0, <1>a, <1>5, <1>6, <1>8, <1>10
<1>12. e.optimizationLevel = c.optimizationLevel /\ c.optimizationLevel <= Cardinality(kept)
  <2>1. 0 \notin kept
    BY <1>0, <1>2
  <2> QED
    BY <1>0, <1>a, <1>5, <1>6, <1>9, <1>10, <2>1
<1>13. d \in Command /\ d.line = e.line /\ d.output = e.output /\ d.optimizationLevel = e.optimizationLevel
  <2>1. c.sourcePath \in Nat
    BY <1>0 DEF Command
  <2> QED
    BY <1>0, <1>a, <1>3, <1>5, <1>6, <1>11, <1>12, <2>1 DEF Command
<1>14. ins \ args = ins
  <2>1. \A a \in ins : a.kind \in FileKinds
    BY <1>0 DEF Inputs, FilePlaces
  <2> QED
    BY <1>1, <2>1 DEF FileKinds
<1>15. \A a \in args : a.kind \notin {"tool", "-o", "-O"} /\ a.kind # "-Wl"
  BY <1>1
<1>16. /\ Does(e, ins \ args, out, lev) /\ e.line[1] = c.line[1]
       /\ NoStray(c.line) /\ (\A a \in args : a.kind # "-Wl") => NoStray(e.line)
  BY <1>1, <1>4, <1>15, EraseIfEffect
<1>17. e \in Command /\ Carries(c, e, kept, Ranks(kept)) /\ PutIn(e, kept, Ranks(kept)) = {}
  <2>1. OutputOf(c) \notin args
    BY <1>0, <1>1 DEF OutputOf
  <2> QED
    BY <1>0, <1>4, <1>15, <2>1, EraseIfCarries DEF kept
<1>18. \A i \in 1 .. Len(c.line) : c.line[i].kind # "-static" => i \in kept
  BY <1>1, <1>2
<1>19. Named(c.line) => Named(e.line)
  BY <1>0, <1>17, <1>18, CarriedNamed DEF KeepsWl
<1>20. MarksOf(e.line) = MarksOf(c.line)
  BY <1>0, <1>17, <1>18, CarriedMarks DEF Marked
<1> QED
  BY <1>13, <1>14, <1>15, <1>16, <1>19, <1>20, SameButSource

OfNewFiles(c, t) == [c EXCEPT !.line = MadeOf(@, t, Made(t))]

LEMMA OfNewFilesDoes ==
    ASSUME NEW t, WellBuilt(t)
    PROVE  \A c, out, lev :
               Does(c, t.files, out, lev) /\ out \notin t.files =>
                   /\ Does(OfNewFiles(c, t), NewFiles(t), out, lev) /\ OfNewFiles(c, t).line[1] = c.line[1]
                   /\ NoStray(c.line) => NoStray(OfNewFiles(c, t).line)
                   /\ Named(c.line) => Named(OfNewFiles(c, t).line)
                   /\ MarksOf(OfNewFiles(c, t).line) = MarksOf(c.line)
<1> TAKE c, out, lev
<1> HAVE Does(c, t.files, out, lev) /\ out \notin t.files
<1> QED
  BY MadeOfFiles DEF OfNewFiles

-----------------------------------------------------------------------------
(* The link of the makefile of a test. *)

LEMMA SharedIs ==
    ASSUME NEW c, Sound(c)
    PROVE  "-shared" \in Kinds(c.line) <=> HasShared(c.line)
<1>1. DOMAIN c.line = 1 .. Len(c.line)
  BY SoundFacts
<1>2. "-shared" \in Kinds(c.line) <=> \E i \in 1 .. Len(c.line) : c.line[i].kind = "-shared"
  BY <1>1 DEF Kinds, Range
<1>3. HasShared(c.line) <=> \E i \in 1 .. Len(c.line) : c.line[i].kind = "-shared"
  BY DEF HasShared, MarksOf, Marked
<1> QED
  BY <1>2, <1>3

LEMMA DoesLink ==
    ASSUME NEW d, NEW ins, NEW lev, Does(d, ins, NewOutput, lev)
    PROVE  Links(d, ins)
BY EffectOfSound DEF Does, Links


LEMMA DoesPlainly ==
    ASSUME NEW d, NEW ins, NEW out, Does(d, ins, out, Nought), NoSoname(d.line)
    PROVE  Plain(d.line)
<1>1. Sound(d) /\ LevelOf(d) = Nought /\ DOMAIN d.line = 1 .. Len(d.line)
  BY SoundFacts DEF Does
<1>2. d.optimizationLevel # 0
  BY <1>1, Literals DEF LevelOf
<1>3. Effect(d.line).level = {Nought}
  BY <1>1, <1>2, EffectOfSound
<1>4. Effect(d.line).soname <=> \E i \in DOMAIN d.line : d.line[i].kind = "-Wl" /\ d.line[i].name # "-z"
  BY DEF Effect
<1>5. \A i \in DOMAIN d.line : d.line[i].kind = "-Wl" => d.line[i] \in MarksOf(d.line)
  BY <1>1 DEF MarksOf, Marked
<1>6. ~ Effect(d.line).soname
  BY <1>4, <1>5 DEF NoSoname
<1> QED
  BY <1>3, <1>6 DEF Plain

LEMMA MarksOfTwo ==
    /\ \A c, d : MarksOf(d) = MarksOf(c) => (NoSoname(d) <=> NoSoname(c)) /\ (HasShared(d) <=> HasShared(c))
    /\ \A c, d, e : MarksOf(d) = MarksOf(c) \cup MarksOf(e) => (NoSoname(d) <=> NoSoname(c) /\ NoSoname(e))
BY DEF NoSoname, HasShared

(* Arguments that are added behind the tool, or at the end. *)
Ends(c) == {2, Len(c.line) + 1}
Added(c, d, args) ==
    args \in Seq(Argument) /\ AllHarmless(args) /\ \E at \in Ends(c) : d = Insert(c, at, args)
AddedOne(c, d, a) == a \in Argument /\ Harmless(a) /\ ~ Marked(a) /\ \E at \in Ends(c) : d = Insert(c, at, <<a>>)
AddedFlag(c, d) == \E name \in WrittenNames, at \in Ends(c) : d = Insert(c, at, <<Flag(name)>>)
FileOf(a) == IF a.kind \in FileKinds THEN {a} ELSE {}

LEMMA AddMany ==
    ASSUME NEW c, NEW ins, NEW out, NEW lev, Does(c, ins, out, lev), NEW args, NEW d, Added(c, d, args),
           NEW files, files = ins \cup FilesIn(args)
    PROVE  /\ Does(d, files, out, lev) /\ d.line[1] = c.line[1]
           /\ MarksOf(d.line) = MarksOf(c.line) \cup MarksOf(args)
<1>1. Sound(c)
  BY DEF Does
<1>2. args \in Seq(Argument) /\ AllHarmless(args)
  BY DEF Added
<1>a. AtAnEnd(c, d, args)
  BY DEF Added, AtAnEnd, Ends
<1>3. CASE d = Insert(c, 2, args)
  <2>1. 2 \in {2, Len(c.line) + 1}
    OBVIOUS
  <2>2. MarksOf(d.line) = MarksOf(c.line) \cup MarksOf(args)
    BY <1>1, <1>2, <1>3, <2>1, InsertMarks
  <2>3. Does(d, ins \cup FilesIn(args), out, lev) /\ d.line[1] = c.line[1]
    BY <1>2, <1>a, InsertHarmless
  <2> QED
    BY <2>2, <2>3
<1>4. CASE d = Insert(c, Len(c.line) + 1, args)
  <2>1. Len(c.line) + 1 \in {2, Len(c.line) + 1}
    OBVIOUS
  <2>2. MarksOf(d.line) = MarksOf(c.line) \cup MarksOf(args)
    BY <1>1, <1>2, <1>4, <2>1, InsertMarks
  <2>3. Does(d, ins \cup FilesIn(args), out, lev) /\ d.line[1] = c.line[1]
    BY <1>2, <1>a, InsertHarmless
  <2> QED
    BY <2>2, <2>3
<1> QED
  BY <1>3, <1>4 DEF Ends, Added

LEMMA AddOne ==
    ASSUME NEW c, NEW ins, NEW out, NEW lev, Does(c, ins, out, lev), NEW a, NEW d, AddedOne(c, d, a)
    PROVE  Does(d, ins \cup FileOf(a), out, lev) /\ d.line[1] = c.line[1] /\ MarksOf(d.line) = MarksOf(c.line)
<1>1. PICK args : args = <<a>>
  OBVIOUS
<1>2. args \in Seq(Argument) /\ Len(args) = 1 /\ args[1] = a /\ MarksOf(args) = {}
  BY <1>1, OneMark DEF AddedOne
<1>3. AllHarmless(args)
  BY <1>2 DEF AllHarmless, AddedOne
<1>4. Added(c, d, args)
  BY <1>1, <1>2, <1>3 DEF Added, AddedOne
<1>5. FilesIn(args) = FileOf(a)
  BY <1>2 DEF FilesIn, FileOf
<1>6. PICK files : files = ins \cup FilesIn(args)
  OBVIOUS
<1>7. /\ Does(d, files, out, lev) /\ d.line[1] = c.line[1]
      /\ MarksOf(d.line) = MarksOf(c.line) \cup MarksOf(args)
  BY <1>4, <1>6, AddMany
<1> QED
  BY <1>2, <1>5, <1>6, <1>7

LEMMA FlagAdded ==
    ASSUME NEW c, NEW ins, NEW out, NEW lev, Does(c, ins, out, lev), NEW d, AddedFlag(c, d)
    PROVE  Does(d, ins, out, lev) /\ d.line[1] = c.line[1] /\ MarksOf(d.line) = MarksOf(c.line)
<1>1. PICK name \in WrittenNames : \E at \in Ends(c) : d = Insert(c, at, <<Flag(name)>>)
  BY DEF AddedFlag
<1>2. PICK a : a = Flag(name)
  OBVIOUS
<1>3. a \in Argument /\ a.kind = "flag"
  BY <1>2, AFlag, Literals
<1>4. Harmless(a) /\ ~ Marked(a) /\ a.kind \notin FileKinds
  BY <1>3 DEF Harmless, Marked, FileKinds
<1>5. AddedOne(c, d, a)
  BY <1>1, <1>2, <1>3, <1>4 DEF AddedOne
<1>6. Does(d, ins \cup FileOf(a), out, lev) /\ d.line[1] = c.line[1] /\ MarksOf(d.line) = MarksOf(c.line)
  BY <1>5, AddOne
<1>7. ins \cup FileOf(a) = ins
  BY <1>4 DEF FileOf
<1> QED
  BY <1>6, <1>7

(* The last flags of a library. *)
LEMMA LastFlags ==
    ASSUME NEW c, NEW ins, NEW out, NEW lev, Does(c, ins, out, lev), NEW a \in Argument, a.kind \in {"flag", "-shared"},
           NEW d, d = addFlagsToBegin(c, <<a, Flag("$(LDFLAGS)")>>)
    PROVE  Does(d, ins, out, lev) /\ d.line[1] = c.line[1] /\ (NoSoname(c.line) => NoSoname(d.line))
<1>1. PICK b : b = Flag("$(LDFLAGS)")
  OBVIOUS
<1>2. b \in Argument /\ b.kind = "flag"
  <2>1. "$(LDFLAGS)" \in WrittenNames
    BY DEF WrittenNames
  <2> QED
    BY <1>1, <2>1, AFlag, Literals
<1>3. PICK args : args = <<a, b>>
  OBVIOUS
<1>4. args \in Seq(Argument) /\ Len(args) = 2 /\ args[1] = a /\ args[2] = b
  BY <1>2, <1>3
<1>5. \A i \in 1 .. Len(args) : args[i].kind \in {"flag", "-shared"}
  BY <1>2, <1>4
<1>6. OnlyOptions(args)
  BY <1>5 DEF OnlyOptions, OptionKinds, FileKinds
<1>7. NoSoname(args)
  BY <1>5 DEF NoSoname, MarksOf
<1>8. d = addFlagsToBegin(c, args)
  BY <1>1, <1>3
<1>9. Does(d, ins, out, lev) /\ d.line[1] = c.line[1]
  BY <1>4, <1>6, <1>8, AddOptions
<1>10. MarksOf(d.line) = MarksOf(c.line) \cup MarksOf(args)
  <2>1. d = Insert(c, 2, args) /\ 2 \in {2, Len(c.line) + 1}
    BY <1>8 DEF addFlagsToBegin
  <2> QED
    BY <1>4, <2>1, InsertMarks DEF Does
<1> QED
  BY <1>7, <1>9, <1>10, MarksOfTwo

(* What NativeLink begins with. *)
NamedLink(c, t) ==
    [setOutput(Erase(c, Static), NewOutput) EXCEPT !.line = MadeOf(@, t, Made(t))]

LEMMA NamedLinkDoes ==
    ASSUME NEW t, WellBuilt(t), NEW c, NEW lev, Does(c, t.files, t.output, lev), StaticComesLast(c.line),
           NEW d, d = NamedLink(c, t)
    PROVE  /\ Does(d, NewFiles(t), NewOutput, lev) /\ d.line[1] = c.line[1]
           /\ NoStray(c.line) => NoStray(d.line)
           /\ Named(c.line) => Named(d.line)
           /\ HasShared(d.line) <=> HasShared(c.line)
<1>1. PICK e : e = Erase(c, Static)
  OBVIOUS
<1>2. /\ Does(e, t.files, t.output, lev) /\ e.line[1] = c.line[1]
      /\ NoStray(c.line) => NoStray(e.line)
      /\ Named(c.line) => Named(e.line)
      /\ MarksOf(e.line) = MarksOf(c.line)
  BY <1>1, EraseStatic
<1>3. PICK f : f = setOutput(e, NewOutput)
  OBVIOUS
<1>4. NewOutput \in Argument /\ NewOutput.kind \in FileKinds /\ NewOutput \notin t.files
  BY TargetFacts
<1>5. Does(f, t.files, NewOutput, lev) /\ (NoStray(e.line) => NoStray(f.line))
  BY <1>2, <1>3, <1>4, SetOutput
<1>6. (Named(e.line) => Named(f.line)) /\ MarksOf(f.line) = MarksOf(e.line) /\ f.line[1] = e.line[1]
  <2>1. Sound(e)
    BY <1>2 DEF Does
  <2>2. f.line[1] = e.line[1]
    <3>1. e \in Command /\ e.output \in 3 .. Len(e.line) /\ 1 \in 1 .. Len(e.line)
      BY <2>1, SoundFacts
    <3>2. e.output \in 1 .. Len(e.line)
      BY <3>1
    <3>3. \A j \in 1 .. Len(e.line) : j # e.output => f.line[j] = e.line[j]
      BY <1>3, <1>4, <3>1, <3>2, SetFacts DEF setOutput
    <3> QED
      BY <3>1, <3>3
  <2> QED
    BY <1>3, <1>4, <2>1, <2>2, OutputNamed, OutputMarks
<1>7. d = [f EXCEPT !.line = MadeOf(@, t, Made(t))]
  BY <1>1, <1>3 DEF NamedLink
<1>8. /\ Does(d, NewFiles(t), NewOutput, lev) /\ d.line[1] = f.line[1]
      /\ NoStray(f.line) => NoStray(d.line)
      /\ Named(f.line) => Named(d.line)
      /\ MarksOf(d.line) = MarksOf(f.line)
  <2>1. d = OfNewFiles(f, t)
    BY <1>7 DEF OfNewFiles
  <2> QED
    BY <1>4, <1>5, <2>1, OfNewFilesDoes
<1>9. HasShared(d.line) <=> HasShared(c.line)
  <2>1. MarksOf(d.line) = MarksOf(c.line)
    BY <1>2, <1>6, <1>8
  <2> QED
    BY <2>1 DEF HasShared
<1> QED
  BY <1>2, <1>5, <1>6, <1>8, <1>9

(* A shared library, or a program that becomes one. *)
LEMMA LibraryDoes ==
    ASSUME NEW t, WellBuilt(t), NEW c, NEW lev, Does(c, t.files, t.output, lev), StaticComesLast(c.line),
           NEW isExecutable \in BOOLEAN,
           ~ isArchiveCommand(c), NoStray(c.line), Named(c.line),
           NEW d, d = NativeLink(c, t, Made(t), NewOutput, isExecutable, TRUE)
    PROVE  /\ Does(d, NewFiles(t) \cup (IF isSharedLibraryCommand(c) THEN {Stubs} ELSE {}), NewOutput, Nought)
           /\ NoSoname(d.line)
<1>1. PICK n : n = NamedLink(c, t)
  OBVIOUS
<1>2. /\ Does(n, NewFiles(t), NewOutput, lev) /\ n.line[1] = c.line[1] /\ NoStray(n.line) /\ Named(n.line)
      /\ HasShared(n.line) <=> HasShared(c.line)
  BY <1>1, NamedLinkDoes
<1>3. "gcc" \in WrittenNames /\ "--whole-archive" \in WrittenNames /\ "--no-whole-archive" \in WrittenNames
      /\ "-r" \in WrittenNames /\ "$(LDFLAGS)" \in WrittenNames /\ "$(STUB_OBJECT_FILES)" \in WrittenNames
      /\ "object" \in WrittenKinds /\ "-shared" \in WrittenKinds /\ "" \in WrittenNames
  BY DEF WrittenNames, WrittenKinds
<1>4. PICK m : m = setBuildTool(n, "gcc")
  OBVIOUS
<1>5. /\ Does(m, NewFiles(t), NewOutput, lev) /\ m.line[1] = Arg("tool", "gcc") /\ NoStray(m.line) /\ Named(m.line)
      /\ HasShared(m.line) <=> HasShared(n.line)
  <2>1. Sound(n)
    BY <1>2 DEF Does
  <2> QED
    BY <1>2, <1>3, <1>4, <2>1, SetBuildTool, ToolNamed, ToolMarks, MarksOfTwo
<1>6. PICK u : u = WithoutSoname(m)
  OBVIOUS
<1>7. /\ Does(u, NewFiles(t), NewOutput, lev) /\ u.line[1] = m.line[1] /\ NoSoname(u.line)
      /\ HasShared(u.line) <=> HasShared(m.line)
  BY <1>5, <1>6, RemoveSoname
<1>8. PICK w : w = addFlagsToBegin(u, <<Flag("--whole-archive")>>)
  OBVIOUS
<1>9. Does(w, NewFiles(t), NewOutput, lev) /\ w.line[1] = u.line[1] /\ MarksOf(w.line) = MarksOf(u.line)
  <2>1. AddedFlag(u, w)
    BY <1>3, <1>8 DEF addFlagsToBegin, AddedFlag, Ends
  <2> QED
    BY <1>7, <2>1, FlagAdded
<1>10. isSharedLibraryCommand(w) <=> isSharedLibraryCommand(c)
  <2>1. HasShared(w.line) <=> HasShared(c.line)
    BY <1>2, <1>5, <1>7, <1>9, MarksOfTwo
  <2>2. w.line[1].name # "ld" /\ c.line[1].name # "ld"
    BY <1>5, <1>7, <1>9 DEF Arg, isArchiveCommand
  <2> QED
    BY <1>9, <2>1, <2>2, SharedIs DEF isSharedLibraryCommand, Does
<1>11. PICK s : s = IF isSharedLibraryCommand(w) THEN addFlagToEnd(w, Arg("object", "$(STUB_OBJECT_FILES)")) ELSE w
  OBVIOUS
<1> DEFINE stubs == IF isSharedLibraryCommand(c) THEN {Stubs} ELSE {}
<1>12. Does(s, NewFiles(t) \cup stubs, NewOutput, lev) /\ MarksOf(s.line) = MarksOf(w.line)
  <2>1. CASE isSharedLibraryCommand(c)
    <3>1. s = Insert(w, Len(w.line) + 1, <<Stubs>>)
      BY <1>10, <1>11, <2>1 DEF addFlagToEnd, Stubs
    <3>2. Stubs \in Argument /\ Stubs.kind = "object"
      BY <1>3, Literal DEF Stubs
    <3>3. Stubs.kind \in FileKinds
      BY <3>2 DEF FileKinds
    <3>4. AddedOne(w, s, Stubs)
      BY <3>1, <3>2 DEF AddedOne, Ends, Harmless, Marked
    <3>6. Does(s, NewFiles(t) \cup FileOf(Stubs), NewOutput, lev) /\ MarksOf(s.line) = MarksOf(w.line)
      BY <1>9, <3>4, AddOne
    <3>5. FileOf(Stubs) = stubs
      BY <2>1, <3>3 DEF FileOf
    <3> QED
      BY <3>5, <3>6
  <2>2. CASE ~ isSharedLibraryCommand(c)
    <3>1. s = w /\ NewFiles(t) \cup stubs = NewFiles(t)
      BY <1>10, <1>11, <2>2
    <3> QED
      BY <1>9, <3>1
  <2> QED
    BY <2>1, <2>2
<1> HIDE DEF stubs
<1>13. PICK x : x = addFlagToEnd(s, Flag("--no-whole-archive"))
  OBVIOUS
<1>14. Does(x, NewFiles(t) \cup stubs, NewOutput, lev) /\ MarksOf(x.line) = MarksOf(s.line)
  <2>1. AddedFlag(s, x)
    BY <1>3, <1>13 DEF addFlagToEnd, AddedFlag, Ends
  <2> QED
    BY <1>12, <2>1, FlagAdded
<1>15. PICK l : l = setOptimizationLevel(x, Nought)
  OBVIOUS
<1>16. Does(l, NewFiles(t) \cup stubs, NewOutput, Nought) /\ MarksOf(l.line) = MarksOf(x.line)
  BY <1>14, <1>15, SetOptimizationLevel, LevelMarks DEF Does
<1>17. NoSoname(l.line)
  BY <1>7, <1>9, <1>12, <1>14, <1>16, MarksOfTwo
<1>18. d = addFlagsToBegin(l, IF ~ isExecutable THEN <<Flag("$(LDFLAGS)")>> ELSE <<Arg("-shared", ""), Flag("$(LDFLAGS)")>>)
  <2>1. ~ isArchiveCommand(n)
    BY <1>2 DEF isArchiveCommand
  <2> QED
    BY <1>1, <1>4, <1>6, <1>8, <1>11, <1>13, <1>15, <2>1 DEF NativeLink, NamedLink, WithoutSoname
<1>19. Does(d, NewFiles(t) \cup stubs, NewOutput, Nought) /\ NoSoname(d.line)
  <2>1. CASE isExecutable
    <3>1. PICK a : a = Arg("-shared", "")
      OBVIOUS
    <3>2. a \in Argument /\ a.kind = "-shared"
      BY <1>3, <3>1, Literal
    <3>3. d = addFlagsToBegin(l, <<a, Flag("$(LDFLAGS)")>>) /\ a.kind \in {"flag", "-shared"}
      BY <1>18, <2>1, <3>1, <3>2
    <3> QED
      BY <1>16, <1>17, <3>2, <3>3, LastFlags
  <2>2. CASE ~ isExecutable
    <3>1. AddedFlag(l, d)
      BY <1>3, <1>18, <2>2 DEF addFlagsToBegin, AddedFlag, Ends
    <3>2. PICK files : files = NewFiles(t) \cup stubs
      OBVIOUS
    <3>a. Does(l, files, NewOutput, Nought)
      BY <1>16, <3>2
    <3>3. Does(d, files, NewOutput, Nought) /\ MarksOf(d.line) = MarksOf(l.line)
      BY <3>1, <3>a, FlagAdded
    <3> QED
      BY <1>17, <3>2, <3>3, MarksOfTwo
  <2> QED
    BY <2>1, <2>2
<1> QED
  BY <1>19 DEF stubs

(* A program that stays one. *)
LEMMA ProgramDoes ==
    ASSUME NEW t, WellBuilt(t), NEW c, NEW lev, Does(c, t.files, t.output, lev), StaticComesLast(c.line),
           ~ isArchiveCommand(c),
           NEW d, d = NativeLink(c, t, Made(t), NewOutput, TRUE, FALSE)
    PROVE  Does(d, NewFiles(t), NewOutput, lev)
<1>1. PICK n : n = NamedLink(c, t)
  OBVIOUS
<1>2. Does(n, NewFiles(t), NewOutput, lev) /\ n.line[1] = c.line[1]
  BY <1>1, NamedLinkDoes
<1>3. "ld" \in WrittenNames /\ "-r" \in WrittenNames
  BY DEF WrittenNames
<1>4. PICK m : m = setBuildTool(n, "ld")
  OBVIOUS
<1>5. Does(m, NewFiles(t), NewOutput, lev)
  BY <1>2, <1>3, <1>4, SetBuildTool
<1>6. PICK f : f = [m EXCEPT !.line = transformCompilerFlagsToLinkerFlags(@)]
  OBVIOUS
<1>7. Does(f, NewFiles(t), NewOutput, lev) /\ NoStray(f.line) /\ Named(f.line)
  <2>1. f = ForTheLinker(m)
    BY <1>6 DEF ForTheLinker
  <2> QED
    BY <1>5, <2>1, ForTheLinkerDoes
<1>8. PICK u : u = WithoutSoname(f)
  OBVIOUS
<1>9. Does(u, NewFiles(t), NewOutput, lev)
  BY <1>7, <1>8, RemoveSoname
<1>10. d = addFlagsToBegin(u, <<Flag("-r"), Flag("$(LDFLAGS)")>>)
  <2>1. ~ isArchiveCommand(n)
    BY <1>2 DEF isArchiveCommand
  <2> QED
    BY <1>1, <1>4, <1>6, <1>8, <2>1 DEF NativeLink, NamedLink, WithoutSoname
<1>11. PICK a : a = Flag("-r")
  OBVIOUS
<1>12. a \in Argument /\ a.kind \in {"flag", "-shared"}
  BY <1>3, <1>11, AFlag, Literals
<1> QED
  BY <1>9, <1>10, <1>11, <1>12, LastFlags

LEMMA ArchiveDoes ==
    ASSUME NEW t, WellBuilt(t), NEW c, NEW lev, Does(c, t.files, t.output, lev), StaticComesLast(c.line),
           NEW isExecutable, NEW transformExeToLib, isArchiveCommand(c),
           NEW d, d = NativeLink(c, t, Made(t), NewOutput, isExecutable, transformExeToLib)
    PROVE  Does(d, NewFiles(t), NewOutput, lev)
<1>1. PICK n : n = NamedLink(c, t)
  OBVIOUS
<1>2. Does(n, NewFiles(t), NewOutput, lev) /\ n.line[1] = c.line[1]
  BY <1>1, NamedLinkDoes
<1>3. isArchiveCommand(n)
  BY <1>2 DEF isArchiveCommand
<1>4. d = n
  BY <1>1, <1>3 DEF NativeLink, NamedLink
<1> QED
  BY <1>2, <1>4

-----------------------------------------------------------------------------
(* Joining the words of a link line. *)

NotWords(line) == {i \in 1 .. Len(line) : line[i].kind # "word"}

(* How the arguments of a line are joined. *)
MergedBy(line, m, to) ==
    /\ m \in Seq([kind : STRING, name : STRING]) /\ to \in [NotWords(line) -> 1 .. Len(m)]
    /\ \A n \in 1 .. Len(m) : \E i \in NotWords(line) : to[i] = n
    /\ \A i, j \in NotWords(line) : i < j => to[i] < to[j]
    /\ \A i \in NotWords(line) : i + 1 \in NotWords(line) => to[i + 1] = to[i] + 1
    /\ 1 \in NotWords(line) /\ to[1] = 1
    /\ \A i \in NotWords(line) :
          /\ m[to[i]].kind = line[i].kind
          /\ line[i] \notin Bare => m[to[i]] = line[i]
          /\ line[i] \in Bare => i + 1 \in 1 .. Len(line) /\ m[to[i]].name = line[i + 1].name

LEMMA BareFacts ==
    /\ \A a \in Bare : a.kind \in {"-l", "-L"}
    /\ Arg("-l", "") \in Bare /\ Arg("-l", "").kind = "-l"
    /\ \A n : Arg("-l", n).kind = "-l" /\ Arg("-l", n).name = n
BY DEF Bare, Arg

LEMMA MembersOf ==
    ASSUME NEW S, NEW s \in Seq(S)
    PROVE  \A i \in 1 .. Len(s) : s[i] \in S
OBVIOUS

LEMMA MergedIsBy ==
    ASSUME NEW line, WellFormed(line), WordsAreNames(line), NEW m, m = Merged(line)
    PROVE  \E to : MergedBy(line, m, to)
<1> DEFINE S == [kind : STRING, name : STRING]
           P == NotWords(line)
           to == Ranks(P)
<1>1. /\ line \in Seq(S) /\ Len(line) \in Nat /\ DOMAIN line = 1 .. Len(line) /\ 1 \in 1 .. Len(line)
      /\ line[1].kind = "tool" /\ \A i \in 1 .. Len(line) : line[i] \in S
  <2>1. line \in Seq(S) /\ line # <<>> /\ line[1].kind = "tool"
    BY DEF WellFormed
  <2>2. Len(line) \in Nat /\ DOMAIN line = 1 .. Len(line) /\ Len(line) # 0
    BY <2>1
  <2>3. \A i \in 1 .. Len(line) : line[i] \in S
    BY <2>1, MembersOf
  <2> QED
    BY <2>1, <2>2, <2>3
<1>2. PICK joined : joined = [i \in DOMAIN line |-> IF line[i] \in Bare /\ i < Len(line)
                                                    THEN [line[i] EXCEPT !.name = line[i + 1].name] ELSE line[i]]
  OBVIOUS
<1>3. \A i \in 1 .. Len(line) : i + 1 \in 1 .. Len(line) <=> i < Len(line)
  BY <1>1
<1>4. \A i \in 1 .. Len(line) : line[i] \in Bare => i < Len(line)
  BY <1>1 DEF WordsAreNames
<1>5. \A i \in 1 .. Len(line) :
         joined[i] = IF line[i] \in Bare THEN [line[i] EXCEPT !.name = line[i + 1].name] ELSE line[i]
  BY <1>1, <1>2, <1>4
<1>6. \A i \in 1 .. Len(line) : joined[i] \in S
  BY <1>1, <1>3, <1>4, <1>5
<1>7. joined \in Seq(S) /\ Len(joined) = Len(line)
  <2>1. joined \in [1 .. Len(line) -> S]
    BY <1>1, <1>2, <1>6
  <2> QED
    BY <1>1, <2>1, FunctionIsSeq
<1>8. P = {i \in DOMAIN line : ~ (i > 1 /\ line[i - 1] \in Bare)}
  BY <1>1 DEF WordsAreNames, NotWords
<1>9. m = Kept(joined, P)
  BY <1>2, <1>8 DEF Merged
<1>10. P \in SUBSET DOMAIN joined /\ P \in SUBSET (1 .. Len(line))
  BY <1>1, <1>7 DEF NotWords
<1>11. PICK n : n = Cardinality(P)
  OBVIOUS
<1>12. m \in Seq(S) /\ Len(m) = n /\ \A i \in P : m[Rank(P, i)] = joined[i]
  BY <1>7, <1>9, <1>10, <1>11, KeptFacts
<1>13. /\ \A i \in P : Rank(P, i) \in 1 .. n
       /\ \A i, j \in P : i < j => Rank(P, i) < Rank(P, j)
       /\ \A i \in P : i + 1 \in P => Rank(P, i + 1) = Rank(P, i) + 1
       /\ \A i \in P : 1 .. i \subseteq P => Rank(P, i) = i
  BY <1>1, <1>10, <1>11, RankFacts
<1>14. \A k \in 1 .. n : \E i \in P : Rank(P, i) = k
  BY <1>1, <1>10, <1>11, RankOnto
<1>15. 1 \in P /\ Rank(P, 1) = 1
  <2>1. 1 \in P
    BY <1>1 DEF NotWords
  <2>2. 1 .. 1 \subseteq P
    BY <2>1
  <2> QED
    BY <1>13, <2>1, <2>2
<1>16. \A i \in P : to[i] = Rank(P, i)
  BY DEF Ranks
<1>17. to \in [P -> 1 .. Len(m)]
  BY <1>12, <1>13 DEF Ranks
<1> HIDE DEF to
<1>18. \A i \in P : /\ m[to[i]].kind = line[i].kind
                    /\ line[i] \notin Bare => m[to[i]] = line[i]
                    /\ line[i] \in Bare => i + 1 \in 1 .. Len(line) /\ m[to[i]].name = line[i + 1].name
  <2> SUFFICES ASSUME NEW i \in P
               PROVE  /\ m[to[i]].kind = line[i].kind
                      /\ line[i] \notin Bare => m[to[i]] = line[i]
                      /\ line[i] \in Bare => i + 1 \in 1 .. Len(line) /\ m[to[i]].name = line[i + 1].name
    OBVIOUS
  <2>1. m[to[i]] = joined[i] /\ i \in 1 .. Len(line)
    BY <1>10, <1>12, <1>16
  <2>2. line[i] \in S
    BY <1>1, <2>1
  <2> QED
    BY <1>3, <1>4, <1>5, <2>1, <2>2
<1>19. MergedBy(line, m, to)
  <2>1. \A k \in 1 .. Len(m) : \E i \in P : to[i] = k
    BY <1>12, <1>14, <1>16
  <2>2. /\ \A i, j \in P : i < j => to[i] < to[j]
        /\ \A i \in P : i + 1 \in P => to[i + 1] = to[i] + 1
    BY <1>13, <1>16
  <2>3. 1 \in P /\ to[1] = 1
    BY <1>15, <1>16
  <2> QED
    BY <1>12, <1>17, <1>18, <2>1, <2>2, <2>3 DEF MergedBy
<1> QED
  BY <1>19

(* What is not given by -l or -L is in the line that is read if it is given. *)
LEMMA MergedHas ==
    ASSUME NEW line, NEW m, NEW to, WellFormed(line), MergedBy(line, m, to)
    PROVE  /\ DOMAIN m = 1 .. Len(m) /\ DOMAIN line = 1 .. Len(line) /\ Len(line) \in Nat /\ Len(m) \in Nat
           /\ Kinds(m) = Kinds(line) \ {"word"}
           /\ \A a : a.kind \notin {"word", "-l", "-L"} => (IsIn(a, m) <=> IsIn(a, line))
           /\ m[1] = line[1]
<1>1. DOMAIN m = 1 .. Len(m) /\ DOMAIN line = 1 .. Len(line) /\ Len(line) \in Nat /\ Len(m) \in Nat
  BY DEF MergedBy, WellFormed
<1>2. /\ \A i \in NotWords(line) : to[i] \in 1 .. Len(m) /\ i \in 1 .. Len(line) /\ line[i].kind # "word"
      /\ \A i \in 1 .. Len(line) : line[i].kind # "word" => i \in NotWords(line)
      /\ \A n \in 1 .. Len(m) : \E i \in NotWords(line) : to[i] = n
      /\ \A i \in NotWords(line) : m[to[i]].kind = line[i].kind /\ (line[i].kind \notin {"-l", "-L"} => m[to[i]] = line[i])
  BY BareFacts DEF MergedBy, NotWords
<1>3. Kinds(m) = Kinds(line) \ {"word"}
  <2>1. Kinds(m) = {m[n].kind : n \in 1 .. Len(m)} /\ Kinds(line) = {line[i].kind : i \in 1 .. Len(line)}
    BY <1>1 DEF Kinds, Range
  <2> QED
    BY <1>2, <2>1
<1>4. ASSUME NEW a, a.kind \notin {"word", "-l", "-L"}
      PROVE  IsIn(a, m) <=> IsIn(a, line)
  <2>1. ASSUME IsIn(a, m) PROVE IsIn(a, line)
    <3>1. PICK n \in 1 .. Len(m) : m[n] = a
      BY <1>1, <2>1 DEF IsIn
    <3>2. PICK i \in NotWords(line) : to[i] = n
      BY <1>2
    <3> QED
      BY <1>1, <1>2, <1>4, <3>1, <3>2 DEF IsIn
  <2>2. ASSUME IsIn(a, line) PROVE IsIn(a, m)
    <3>1. PICK i \in 1 .. Len(line) : line[i] = a
      BY <1>1, <2>2 DEF IsIn
    <3>2. i \in NotWords(line) /\ m[to[i]] = a /\ to[i] \in 1 .. Len(m)
      BY <1>2, <1>4, <3>1
    <3> QED
      BY <1>1, <3>2 DEF IsIn
  <2> QED
    BY <2>1, <2>2
<1>5. m[1] = line[1]
  <2>1. 1 \in NotWords(line) /\ to[1] = 1 /\ line[1].kind = "tool"
    BY DEF MergedBy, WellFormed
  <2> QED
    BY <1>2, <2>1
<1> QED
  BY <1>1, <1>3, <1>4, <1>5

(* The order in which the arguments stand is kept. *)
LEMMA MergedOrder ==
    ASSUME NEW line, NEW m, NEW to, WellFormed(line), MergedBy(line, m, to)
    PROVE  /\ \A i, j \in NotWords(line) : to[i] < to[j] => i < j
           /\ \A i, j \in NotWords(line) : to[i] <= to[j] => i <= j
           /\ \A i, j \in NotWords(line) : to[i] = to[j] => i = j
<1>1. /\ \A i \in NotWords(line) : i \in Nat /\ to[i] \in Nat
      /\ \A i, j \in NotWords(line) : i < j => to[i] < to[j]
  BY DEF MergedBy, NotWords
<1>2. ASSUME NEW i \in NotWords(line), NEW j \in NotWords(line), to[i] < to[j]
      PROVE  i < j
  BY <1>1, <1>2
<1>3. ASSUME NEW i \in NotWords(line), NEW j \in NotWords(line), to[i] <= to[j]
      PROVE  i <= j
  BY <1>1, <1>3
<1>4. ASSUME NEW i \in NotWords(line), NEW j \in NotWords(line), to[i] = to[j]
      PROVE  i = j
  BY <1>1, <1>4
<1> QED
  BY <1>2, <1>3, <1>4

(* A line as it is read: its words are joined to -l and -L. *)
Readable(m, t) ==
    /\ WellFormed(m) /\ WellBuilt(t) /\ OutputIs(m, t.output) /\ OnlyFilesOf(m, t) /\ "word" \notin Kinds(m)
    /\ IF m[1].name \in {"ar", "ld"}
       THEN ArchiveLine(m, t)
       ELSE /\ \A a \in t.files : IsIn(a, m) \/ IsIn(Arg("-l", a.name), m)
            /\ "-o" \notin Kinds(m) => IsUnnamed(m, t.output)
            /\ NoStray(m) /\ Named(m) /\ "option" \notin Kinds(m)

LEMMA MergedFormed ==
    ASSUME NEW line, NEW m, NEW to, WellFormed(line), MergedBy(line, m, to)
    PROVE  WellFormed(m) /\ "word" \notin Kinds(m)
<1>1. /\ DOMAIN m = 1 .. Len(m) /\ DOMAIN line = 1 .. Len(line) /\ m[1] = line[1]
      /\ Kinds(m) = Kinds(line) \ {"word"}
  BY MergedHas
<1>2. /\ m \in Seq([kind : STRING, name : STRING]) /\ 1 \in 1 .. Len(m) /\ line[1].kind = "tool"
      /\ \A n \in 1 .. Len(m) : \E i \in NotWords(line) : to[i] = n
      /\ \A i \in NotWords(line) : m[to[i]].kind = line[i].kind /\ i \in 1 .. Len(line)
  BY DEF MergedBy, WellFormed, NotWords
<1>3. m # <<>>
  BY <1>1, <1>2
<1>4. ASSUME NEW n \in 1 .. Len(m), NEW k \in 1 .. Len(m), m[n].kind \in {"-o", "-O"}, m[k].kind = m[n].kind
      PROVE  n = k
  <2>1. PICK i \in NotWords(line) : to[i] = n
    BY <1>2
  <2>2. PICK j \in NotWords(line) : to[j] = k
    BY <1>2
  <2>3. i \in DOMAIN line /\ j \in DOMAIN line /\ line[i].kind \in {"-o", "-O"} /\ line[j].kind = line[i].kind
    BY <1>1, <1>2, <1>4, <2>1, <2>2
  <2>4. i = j
    BY <2>3 DEF WellFormed
  <2> QED
    BY <2>1, <2>2, <2>4
<1> QED
  BY <1>1, <1>2, <1>3, <1>4 DEF WellFormed

LEMMA MergedOutput ==
    ASSUME NEW line, NEW m, NEW to, WellFormed(line), MergedBy(line, m, to), NEW out, out.kind \in FileKinds,
           OutputIs(line, out)
    PROVE  OutputIs(m, out)
<1>1. /\ DOMAIN m = 1 .. Len(m) /\ DOMAIN line = 1 .. Len(line) /\ Len(line) \in Nat /\ Len(m) \in Nat
  BY MergedHas
<1>2. SUFFICES ASSUME NEW n \in 1 .. Len(m), m[n].kind = "-o"
               PROVE  m[n] = DashO /\ n < Len(m) /\ m[n + 1] = out
  BY <1>1 DEF OutputIs
<1>3. PICK i \in NotWords(line) : to[i] = n
  BY DEF MergedBy
<1>4. i \in 1 .. Len(line) /\ line[i].kind = "-o" /\ m[n] = line[i]
  BY <1>2, <1>3, BareFacts DEF MergedBy, NotWords
<1>5. line[i] = DashO /\ i < Len(line) /\ line[i + 1] = out
  BY <1>1, <1>4 DEF OutputIs
<1>a. out.kind \notin {"word", "-l", "-L"} /\ i + 1 \in 1 .. Len(line)
  BY <1>1, <1>4, <1>5 DEF FileKinds
<1>6. i + 1 \in NotWords(line) /\ line[i + 1] \notin Bare
  BY <1>5, <1>a, BareFacts DEF NotWords
<1>7. to[i + 1] = n + 1 /\ m[to[i + 1]] = out /\ to[i + 1] \in 1 .. Len(m)
  BY <1>3, <1>5, <1>6 DEF MergedBy
<1> QED
  BY <1>1, <1>4, <1>5, <1>7

LEMMA MergedFiles ==
    ASSUME NEW line, NEW m, NEW to, WellFormed(line), MergedBy(line, m, to), NEW t, t.output.kind \in FileKinds,
           OnlyFilesOf(line, t)
    PROVE  OnlyFilesOf(m, t)
<1>1. /\ DOMAIN m = 1 .. Len(m) /\ DOMAIN line = 1 .. Len(line)
  BY MergedHas
<1>2. ASSUME NEW n \in 1 .. Len(m), m[n].kind \in FileKinds
      PROVE  \E i \in NotWords(line) : to[i] = n /\ i \in 1 .. Len(line) /\ m[n] = line[i]
  <2>1. PICK i \in NotWords(line) : to[i] = n
    BY DEF MergedBy
  <2>2. line[i].kind \in FileKinds /\ i \in 1 .. Len(line)
    BY <1>2, <2>1 DEF MergedBy, NotWords
  <2>3. line[i] \notin Bare
    BY <2>2, BareFacts DEF FileKinds
  <2> QED
    BY <2>1, <2>2, <2>3 DEF MergedBy
<1>3. \A n \in DOMAIN m : m[n].kind \in FileKinds => m[n] \in t.files \cup {t.output}
  BY <1>1, <1>2 DEF OnlyFilesOf
<1>4. ASSUME NEW n \in 1 .. Len(m), NEW k \in 1 .. Len(m), m[n] = t.output, m[k] = t.output
      PROVE  n = k
  <2>1. PICK i \in NotWords(line) : to[i] = n /\ i \in 1 .. Len(line) /\ m[n] = line[i]
    BY <1>2, <1>4
  <2>2. PICK j \in NotWords(line) : to[j] = k /\ j \in 1 .. Len(line) /\ m[k] = line[j]
    BY <1>2, <1>4
  <2>3. i = j
    BY <1>1, <1>4, <2>1, <2>2 DEF OnlyFilesOf
  <2> QED
    BY <2>1, <2>2, <2>3
<1> QED
  BY <1>1, <1>3, <1>4 DEF OnlyFilesOf

LEMMA MergedStatic ==
    ASSUME NEW line, NEW m, NEW to, WellFormed(line), MergedBy(line, m, to), StaticComesLast(line)
    PROVE  StaticComesLast(m)
<1>1. /\ DOMAIN m = 1 .. Len(m) /\ DOMAIN line = 1 .. Len(line)
  BY MergedHas
<1>2. SUFFICES ASSUME NEW n \in 1 .. Len(m), NEW k \in 1 .. Len(m), m[n].kind = "-static", m[k].kind \in {"-o", "-O"}
               PROVE  k < n
  BY <1>1 DEF StaticComesLast
<1>3. PICK i \in NotWords(line) : to[i] = n
  BY DEF MergedBy
<1>4. PICK j \in NotWords(line) : to[j] = k
  BY DEF MergedBy
<1>5. i \in DOMAIN line /\ j \in DOMAIN line /\ line[i].kind = "-static" /\ line[j].kind \in {"-o", "-O"}
  BY <1>1, <1>2, <1>3, <1>4 DEF MergedBy, NotWords
<1>6. j < i
  BY <1>5 DEF StaticComesLast
<1> QED
  BY <1>3, <1>4, <1>6 DEF MergedBy

LEMMA MergedSonames ==
    ASSUME NEW line, NEW m, NEW to, WellFormed(line), MergedBy(line, m, to), NoStray(line), Named(line)
    PROVE  NoStray(m) /\ Named(m)
<1>1. /\ Len(line) \in Nat /\ Len(m) \in Nat /\ line[1].kind = "tool"
  BY MergedHas DEF WellFormed
<1>2. ASSUME NEW n \in 1 .. Len(m), m[n].kind = "-Wl"
      PROVE  \E i \in NotWords(line) : to[i] = n /\ i \in 1 .. Len(line) /\ m[n] = line[i] /\ line[i].kind = "-Wl"
  <2>1. PICK i \in NotWords(line) : to[i] = n
    BY DEF MergedBy
  <2>2. line[i].kind = "-Wl" /\ i \in 1 .. Len(line)
    BY <1>2, <2>1 DEF MergedBy, NotWords
  <2>3. line[i] \notin Bare
    BY <2>2, BareFacts
  <2> QED
    BY <2>1, <2>2, <2>3 DEF MergedBy
<1>3. NoStray(m)
  <2> SUFFICES ASSUME NEW n \in 1 .. Len(m), m[n].kind = "-Wl"
               PROVE  \/ m[n].name \in {"-z", "-soname,name", "-soname"}
                      \/ n > 1 /\ m[n - 1] = Soname
    BY DEF NoStray
  <2>1. PICK i \in NotWords(line) : to[i] = n /\ i \in 1 .. Len(line) /\ m[n] = line[i] /\ line[i].kind = "-Wl"
    BY <1>2
  <2>2. CASE line[i].name \in {"-z", "-soname,name", "-soname"}
    BY <2>1, <2>2
  <2>3. ASSUME i > 1, line[i - 1] = Soname
        PROVE  n > 1 /\ m[n - 1] = Soname
    <3>1. PICK p : p = i - 1
      OBVIOUS
    <3>2. p \in 1 .. Len(line) /\ p + 1 = i /\ line[p] = Soname
      BY <1>1, <2>1, <2>3, <3>1
    <3>3. p \in NotWords(line) /\ line[p] \notin Bare
      BY <3>2, BareFacts, SonameFacts DEF NotWords
    <3>4. to[p + 1] = to[p] + 1 /\ to[p] \in 1 .. Len(m) /\ m[to[p]] = Soname
      BY <2>1, <3>2, <3>3 DEF MergedBy
    <3>5. to[p] + 1 = n
      BY <2>1, <3>2, <3>4
    <3>6. to[p] = n - 1 /\ n > 1
      BY <1>1, <3>4, <3>5
    <3> QED
      BY <3>4, <3>6
  <2> QED
    BY <2>1, <2>2, <2>3 DEF NoStray
<1>4. Named(m)
  <2> SUFFICES ASSUME NEW n \in 1 .. Len(m), m[n] = Soname
               PROVE  n < Len(m) /\ m[n + 1].kind = "-Wl"
    BY DEF Named
  <2>1. PICK i \in NotWords(line) : to[i] = n /\ i \in 1 .. Len(line) /\ m[n] = line[i] /\ line[i].kind = "-Wl"
    BY <1>2, SonameFacts
  <2>2. i < Len(line) /\ line[i + 1].kind = "-Wl"
    BY <2>1 DEF Named
  <2>3. i + 1 \in NotWords(line)
    BY <1>1, <2>1, <2>2 DEF NotWords
  <2>4. to[i + 1] = n + 1 /\ to[i + 1] \in 1 .. Len(m) /\ m[to[i + 1]].kind = "-Wl"
    BY <2>1, <2>2, <2>3 DEF MergedBy
  <2> QED
    BY <1>1, <2>4
<1> QED
  BY <1>3, <1>4

LEMMA MergedArchive ==
    ASSUME NEW line, NEW m, NEW to, WellFormed(line), MergedBy(line, m, to), NEW t, WellBuilt(t), ArchiveLine(line, t)
    PROVE  ArchiveLine(m, t)
<1>1. /\ DOMAIN m = 1 .. Len(m) /\ DOMAIN line = 1 .. Len(line) /\ Len(line) \in Nat /\ Len(m) \in Nat
      /\ Kinds(m) = Kinds(line) \ {"word"} /\ m[1] = line[1] /\ line[1].kind = "tool"
      /\ \A a : a.kind \notin {"word", "-l", "-L"} => (IsIn(a, m) <=> IsIn(a, line))
  BY MergedHas DEF WellFormed
<1>2. /\ \A n \in 1 .. Len(m) : \E i \in NotWords(line) : to[i] = n
      /\ \A i \in NotWords(line) : m[to[i]].kind = line[i].kind /\ i \in 1 .. Len(line)
      /\ \A i \in NotWords(line) : line[i] \notin Bare => m[to[i]] = line[i]
      /\ 1 \in NotWords(line) /\ to[1] = 1
      /\ \A i \in NotWords(line) : i + 1 \in NotWords(line) => to[i + 1] = to[i] + 1
  BY DEF MergedBy, NotWords
<1>3. \A a \in t.files : IsIn(a, m)
  <2>1. \A a \in t.files : a.kind \notin {"word", "-l", "-L"} /\ IsIn(a, line)
    BY TargetFacts DEF ArchiveLine
  <2> QED
    BY <1>1, <2>1
<1>4. ASSUME "-o" \notin Kinds(m)
      PROVE  IsFirstStatic(m, t.output)
  <2>1. IsFirstStatic(line, t.output)
    BY <1>1, <1>4 DEF ArchiveLine
  <2>2. t.output.kind = "static" /\ IsIn(t.output, m)
    BY <1>1, <2>1 DEF IsFirstStatic
  <2>3. ASSUME NEW n \in 1 .. Len(m), NEW k \in 1 .. Len(m), m[n].kind = "static", m[k] = t.output
        PROVE  k <= n
    <3>1. PICK i \in NotWords(line) : to[i] = n
      BY <1>2
    <3>2. PICK j \in NotWords(line) : to[j] = k
      BY <1>2
    <3>3. line[i].kind = "static" /\ line[j].kind = "static" /\ i \in 1 .. Len(line) /\ j \in 1 .. Len(line)
      BY <1>2, <2>2, <2>3, <3>1, <3>2
    <3>4. line[j] = t.output
      BY <1>2, <2>3, <3>2, <3>3, BareFacts
    <3>5. j <= i
      BY <1>1, <2>1, <3>3, <3>4 DEF IsFirstStatic
    <3>6. j < i \/ j = i
      BY <3>3, <3>5
    <3>7. j < i => k < n
      BY <3>1, <3>2 DEF MergedBy
    <3> QED
      BY <3>1, <3>2, <3>6, <3>7
  <2> QED
    BY <1>1, <2>2, <2>3 DEF IsFirstStatic
<1>5. ASSUME NEW n \in 1 .. Len(m)
      PROVE  m[n].kind # "-static" /\ (m[n].kind = "option" => n = 2)
  <2>1. PICK i \in NotWords(line) : to[i] = n
    BY <1>2
  <2>2. m[n].kind = line[i].kind /\ i \in 1 .. Len(line)
    BY <1>2, <2>1
  <2>3. line[i].kind # "-static" /\ (line[i].kind = "option" => i = 2)
    BY <1>1, <2>2 DEF ArchiveLine
  <2>4. ASSUME i = 2 PROVE n = 2
    <3>1. 1 + 1 \in NotWords(line) => to[1 + 1] = to[1] + 1
      BY <1>2
    <3>2. 1 + 1 = 2 /\ to[1] = 1
      BY <1>2
    <3>3. to[2] = 2
      BY <2>1, <2>4, <3>1, <3>2
    <3> QED
      BY <2>1, <2>4, <3>3
  <2> QED
    BY <2>2, <2>3, <2>4
<1> QED
  BY <1>1, <1>3, <1>4, <1>5 DEF ArchiveLine

LEMMA MergedNative ==
    ASSUME NEW line, NEW m, NEW to, WellFormed(line), WordsAreNames(line), MergedBy(line, m, to), NEW t, WellBuilt(t),
           NEW a \in t.files, IsIn(a, line) \/ IsNamedIn(a, line)
    PROVE  IsIn(a, m) \/ IsIn(Arg("-l", a.name), m)
<1>1. /\ DOMAIN m = 1 .. Len(m) /\ DOMAIN line = 1 .. Len(line) /\ Len(line) \in Nat /\ Len(m) \in Nat
      /\ \A b : b.kind \notin {"word", "-l", "-L"} => (IsIn(b, m) <=> IsIn(b, line))
  BY MergedHas
<1>2. CASE IsIn(a, line)
  BY <1>1, <1>2, TargetFacts
<1>3. CASE IsIn(Arg("-l", a.name), line)
  <2>1. PICK i \in 1 .. Len(line) : line[i] = Arg("-l", a.name)
    BY <1>1, <1>3 DEF IsIn
  <2>2. a.name # ""
    BY TargetFacts
  <2>3. i \in NotWords(line) /\ line[i] \notin Bare
    BY <2>1, <2>2, BareFacts DEF NotWords, Bare, Arg
  <2>4. m[to[i]] = Arg("-l", a.name) /\ to[i] \in 1 .. Len(m)
    BY <2>1, <2>3 DEF MergedBy
  <2> QED
    BY <1>1, <2>4 DEF IsIn
<1>4. ASSUME NEW i \in 1 .. Len(line), i > 1, line[i - 1] = Arg("-l", ""), line[i].name = a.name
      PROVE  IsIn(Arg("-l", a.name), m)
  <2>a. PICK p : p = i - 1
    OBVIOUS
  <2>c. i \in 1 .. Len(line) /\ i > 1
    BY <1>4
  <2>d. p \in 1 .. Len(line) /\ p + 1 = i
    BY <1>1, <2>a, <2>c
  <2>b. p \in 1 .. Len(line) /\ p + 1 = i /\ line[p] = Arg("-l", "")
    BY <1>4, <2>a, <2>d
  <2>1. p \in NotWords(line) /\ line[p] \in Bare
    BY <2>b, BareFacts DEF NotWords
  <2>2. m[to[p]].kind = line[p].kind /\ m[to[p]].name = line[p + 1].name /\ to[p] \in 1 .. Len(m)
    BY <2>1 DEF MergedBy
  <2>3. m[to[p]] \in [kind : STRING, name : STRING]
    BY <2>2, MembersOf DEF MergedBy
  <2>4. m[to[p]] = Arg("-l", a.name)
    BY <1>4, <2>b, <2>2, <2>3, BareFacts DEF Arg
  <2> QED
    BY <1>1, <2>2, <2>4 DEF IsIn
<1> QED
  BY <1>1, <1>2, <1>3, <1>4 DEF IsNamedIn

LEMMA MergedReadable ==
    ASSUME NEW l \in LinkLines, NEW m, m = Merged(l.line)
    PROVE  /\ Readable(m, l.target) /\ m[1] = l.line[1]
           /\ StaticComesLast(l.line) => StaticComesLast(m)
<1> DEFINE line == l.line
           t == l.target
<1>1. /\ WellFormed(line) /\ WordsAreNames(line) /\ WellBuilt(t) /\ OutputIs(line, t.output) /\ OnlyFilesOf(line, t)
      /\ IF line[1].name \in {"ar", "ld"} THEN ArchiveLine(line, t) ELSE NativeLine(line, t)
  BY LinkLinesAssumption
<1>2. PICK to : MergedBy(line, m, to)
  BY <1>1, MergedIsBy
<1>3. t.output.kind \in FileKinds /\ m[1] = line[1] /\ Kinds(m) = Kinds(line) \ {"word"}
  BY <1>1, <1>2, TargetFacts, MergedHas
<1>4. WellFormed(m) /\ OutputIs(m, t.output) /\ OnlyFilesOf(m, t) /\ "word" \notin Kinds(m)
  BY <1>1, <1>2, <1>3, MergedFormed, MergedOutput, MergedFiles
<1>5. CASE line[1].name \in {"ar", "ld"}
  <2>1. ArchiveLine(m, t)
    BY <1>1, <1>2, <1>5, MergedArchive
  <2> QED
    BY <1>1, <1>2, <1>3, <1>4, <1>5, <2>1, MergedStatic DEF Readable
<1>6. CASE line[1].name \notin {"ar", "ld"}
  <2>1. NativeLine(line, t)
    BY <1>1, <1>6
  <2>2. NoStray(m) /\ Named(m)
    BY <1>1, <1>2, <2>1, MergedSonames DEF NativeLine
  <2>3. \A a \in t.files : IsIn(a, m) \/ IsIn(Arg("-l", a.name), m)
    BY <1>1, <1>2, <2>1, MergedNative DEF NativeLine
  <2>4. "-o" \notin Kinds(m) => IsUnnamed(m, t.output)
    <3>1. SUFFICES ASSUME "-o" \notin Kinds(m)
                   PROVE  IsUnnamed(m, t.output)
      OBVIOUS
    <3>2. IsUnnamed(line, t.output)
      BY <1>3, <2>1, <3>1 DEF NativeLine
    <3>3. IsIn(t.output, m) <=> IsIn(t.output, line)
      BY <1>1, <1>2, <1>3, MergedHas DEF FileKinds
    <3> QED
      BY <3>2, <3>3 DEF IsUnnamed
  <2>5. "option" \notin Kinds(m)
    BY <1>3, <2>1 DEF NativeLine
  <2> QED
    BY <1>1, <1>2, <1>3, <1>4, <1>6, <2>2, <2>3, <2>4, <2>5, MergedStatic DEF Readable
<1> QED
  BY <1>5, <1>6

-----------------------------------------------------------------------------
(* Where the output of a link line is. *)

(* A line that is opened for n arguments, and where its own go. *)
Opened(m, l, at, n) ==
    /\ at \in 2 .. Len(m) + 1 /\ n \in Nat /\ Len(m) \in Nat /\ Len(l) = Len(m) + n
    /\ \A i \in 1 .. at - 1 : l[i] = m[i]
    /\ \A i \in at .. Len(m) : l[i + n] = m[i]
Opening(m, at, n) == [i \in 1 .. Len(m) |-> IF i >= at THEN i + n ELSE i]

Spread(m, l, at, n, to) ==
    /\ \A i \in 1 .. Len(m) : to[i] \in 1 .. Len(l) /\ l[to[i]] = m[i]
    /\ \A i \in 1 .. Len(m) : i < at => to[i] = i
    /\ \A i \in 1 .. Len(m) : i >= at => to[i] = i + n
    /\ \A i, j \in 1 .. Len(m) : i < j => to[i] < to[j]
    /\ \A j \in 1 .. Len(l) : (\A i \in 1 .. Len(m) : to[i] # j) => j >= at /\ j < at + n

LEMMA OpeningFacts ==
    ASSUME NEW m, NEW l, NEW at, NEW n, Opened(m, l, at, n), NEW to, to = Opening(m, at, n)
    PROVE  Spread(m, l, at, n, to)
<1>1. /\ at \in 2 .. Len(m) + 1 /\ n \in Nat /\ Len(m) \in Nat /\ Len(l) = Len(m) + n
      /\ \A i \in 1 .. at - 1 : l[i] = m[i]
      /\ \A i \in at .. Len(m) : l[i + n] = m[i]
  BY DEF Opened
<1>2. \A i \in 1 .. Len(m) : to[i] = IF i >= at THEN i + n ELSE i
  BY DEF Opening
<1>3. ASSUME NEW i \in 1 .. Len(m)
      PROVE  to[i] \in 1 .. Len(l) /\ l[to[i]] = m[i]
  <2>1. CASE i >= at
    <3>1. i \in at .. Len(m) /\ i + n \in 1 .. Len(l)
      BY <1>1, <2>1
    <3> QED
      BY <1>1, <1>2, <2>1, <3>1
  <2>2. CASE i < at
    <3>1. i \in 1 .. at - 1 /\ i \in 1 .. Len(l) /\ ~ (i >= at)
      BY <1>1, <2>2
    <3> QED
      BY <1>1, <1>2, <3>1
  <2> QED
    BY <1>1, <2>1, <2>2
<1>4. ASSUME NEW j \in 1 .. Len(l), \A i \in 1 .. Len(m) : to[i] # j
      PROVE  j >= at /\ j < at + n
  <2>1. ASSUME j < at
        PROVE  FALSE
    <3>1. j \in 1 .. Len(m) /\ ~ (j >= at)
      BY <1>1, <2>1
    <3> QED
      BY <1>2, <1>4, <3>1
  <2>2. ASSUME j >= at + n
        PROVE  FALSE
    <3>1. PICK i \in Int : i = j - n
      BY <1>1
    <3>2. i \in 1 .. Len(m) /\ i >= at /\ i + n = j
      BY <1>1, <2>2, <3>1
    <3> QED
      BY <1>2, <1>4, <3>2
  <2> QED
    BY <1>1, <2>1, <2>2
<1>5. \A i, j \in 1 .. Len(m) : i < j => to[i] < to[j]
  BY <1>1, <1>2
<1>6. (\A i \in 1 .. Len(m) : i < at => to[i] = i) /\ (\A i \in 1 .. Len(m) : i >= at => to[i] = i + n)
  BY <1>1, <1>2
<1> QED
  BY <1>3, <1>4, <1>5, <1>6 DEF Spread

(* The first of these files of a target that the line has itself. *)
Given(m, t) == {a \in t.files : IsIn(a, m)}

LEMMA ReadableBase ==
    ASSUME NEW m, NEW t, Readable(m, t), NEW b, b = Base(m)
    PROVE  /\ Unfinished(b) /\ b.line = m /\ m \in Seq(Argument) /\ DOMAIN m = 1 .. Len(m) /\ Len(m) \in Nat
           /\ 1 \in 1 .. Len(m) /\ m[1].kind = "tool"
           /\ "-o" \notin Kinds(m) => b.output = 0 /\ Outputless(b)
           /\ "-o" \in Kinds(m) => \E p \in 1 .. Len(m) :
                 /\ b.output = p + 1 /\ m[p] = DashO /\ p < Len(m) /\ m[p + 1] = t.output
                 /\ \A i \in 1 .. Len(m) : m[i].kind = "-o" => i = p
<1>1. /\ m \in Seq([kind : STRING, name : STRING]) /\ m # <<>> /\ m[1].kind = "tool"
      /\ \A i, j \in DOMAIN m : m[i].kind \in {"-o", "-O"} /\ m[j].kind = m[i].kind => i = j
      /\ \A i \in DOMAIN m : m[i].kind = "-o" => m[i] = DashO /\ i < Len(m) /\ m[i + 1] = t.output
  BY DEF Readable, WellFormed, OutputIs
<1>2. m \in Seq(Argument)
  BY <1>1, ReadArguments, SeqOfMore
<1>3. DOMAIN m = 1 .. Len(m) /\ Len(m) \in Nat /\ 1 \in 1 .. Len(m)
  BY <1>1, <1>2
<1>4. /\ Unfinished(b) /\ b.line = m
      /\ (\A i \in 1 .. Len(m) : m[i].kind # "-o") => b.output = 0
      /\ \A p \in 1 .. Len(m) : m[p].kind = "-o" => b.output = p + 1
  BY <1>1, <1>2, BaseFacts
<1>5. "-o" \in Kinds(m) <=> \E i \in 1 .. Len(m) : m[i].kind = "-o"
  BY <1>3 DEF Kinds, Range
<1>6. "-o" \notin Kinds(m) => b.output = 0 /\ Outputless(b)
  BY <1>4, <1>5 DEF Outputless
<1>7. ASSUME NEW p \in 1 .. Len(m), m[p].kind = "-o"
      PROVE  /\ b.output = p + 1 /\ m[p] = DashO /\ p < Len(m) /\ m[p + 1] = t.output
             /\ \A i \in 1 .. Len(m) : m[i].kind = "-o" => i = p
  BY <1>1, <1>3, <1>4, <1>7
<1> QED
  BY <1>1, <1>2, <1>3, <1>4, <1>5, <1>6, <1>7

(* What a target's link command is. *)
IsArchiveLine(m) == m[1].name \in {"ar", "ld"}
LinkRead(c, m, t) ==
    /\ \E lev : Does(c, Given(m, t), t.output, lev)
    /\ c.line[1] = m[1]
    /\ \A i \in 1 .. Len(c.line) : c.line[i].kind # "word"
    /\ \A a : a.kind = "-l" /\ IsIn(a, m) => IsIn(a, c.line)
    /\ \A i \in 1 .. Len(c.line) : c.line[i].kind = "option" => IsArchiveLine(m) /\ i = 2
    /\ ~ IsArchiveLine(m) => NoStray(c.line) /\ Named(c.line)
    /\ StaticComesLast(m) => StaticComesLast(c.line)

LEMMA ReadableKinds ==
    ASSUME NEW m, NEW t, Readable(m, t)
    PROVE  /\ \A i \in 1 .. Len(m) : m[i].kind # "word" /\ (m[i].kind = "option" => IsArchiveLine(m) /\ i = 2)
           /\ IsArchiveLine(m) => \A i \in 1 .. Len(m) : m[i].kind # "-static"
           /\ ~ IsArchiveLine(m) => NoStray(m) /\ Named(m)
<1>1. DOMAIN m = 1 .. Len(m)
  BY ReadableBase
<1>2. \A k : k \notin Kinds(m) => \A i \in 1 .. Len(m) : m[i].kind # k
  BY <1>1 DEF Kinds, Range
<1>3. \A i \in 1 .. Len(m) : m[i].kind # "word"
  BY <1>2 DEF Readable
<1>4. CASE IsArchiveLine(m)
  <2>1. ArchiveLine(m, t)
    BY <1>4 DEF Readable, IsArchiveLine
  <2> QED
    BY <1>1, <1>3, <1>4, <2>1 DEF ArchiveLine
<1>5. CASE ~ IsArchiveLine(m)
  <2>1. NoStray(m) /\ Named(m) /\ "option" \notin Kinds(m)
    BY <1>5 DEF Readable, IsArchiveLine
  <2> QED
    BY <1>2, <1>3, <1>5, <2>1
<1> QED
  BY <1>4, <1>5

LEMMA LinkThere ==
    ASSUME NEW m, NEW t, Readable(m, t), "-o" \in Kinds(m), NEW c, c = LinkCommand(m)
    PROVE  LinkRead(c, m, t)
<1>1. PICK b : b = Base(m)
  OBVIOUS
<1>2. /\ Unfinished(b) /\ b.line = m /\ DOMAIN m = 1 .. Len(m) /\ Len(m) \in Nat
  BY <1>1, ReadableBase
<1>3. PICK p \in 1 .. Len(m) : /\ b.output = p + 1 /\ m[p] = DashO /\ p < Len(m) /\ m[p + 1] = t.output
                               /\ \A i \in 1 .. Len(m) : m[i].kind = "-o" => i = p
  BY <1>1, ReadableBase
<1>4. c = b
  BY <1>1, <1>2, <1>3 DEF LinkCommand
<1>5. /\ t.output.kind \in FileKinds /\ t.output \notin t.files
      /\ \A a \in t.files : a.kind \in FileKinds
  BY TargetFacts DEF Readable, FileKinds
<1>6. Does(b, Inputs(b), t.output, LevelOf(b))
  BY <1>2, <1>3, <1>5, OutputThere
<1>7. Inputs(b) = Given(m, t)
  <2>1. /\ \A i \in 1 .. Len(m) : m[i].kind \in FileKinds => m[i] \in t.files \cup {t.output}
        /\ \A i, j \in 1 .. Len(m) : m[i] = t.output /\ m[j] = t.output => i = j
    BY <1>2 DEF Readable, OnlyFilesOf
  <2>2. p + 1 \in 1 .. Len(m)
    BY <1>2, <1>3
  <2>3. \A i \in 1 .. Len(m) : m[i] = t.output => i = p + 1
    BY <1>3, <2>1, <2>2
  <2>4. Inputs(b) = {m[i] : i \in {i \in 1 .. Len(m) : m[i].kind \in FileKinds} \ {p + 1}}
    BY <1>2, <1>3 DEF Inputs, FilePlaces
  <2>5. Given(m, t) = {a \in t.files : \E i \in 1 .. Len(m) : m[i] = a}
    BY <1>2 DEF Given, IsIn
  <2> QED
    BY <1>3, <1>5, <2>1, <2>3, <2>4, <2>5
<1> QED
  BY <1>2, <1>4, <1>6, <1>7, ReadableKinds DEF LinkRead

(* A file that is its output already: "-o" is put before it. *)
LEMMA OutputMarked ==
    ASSUME NEW b, Unfinished(b), Outputless(b), NEW k \in 1 .. Len(b.line), b.line[k].kind \in FileKinds,
           NEW d, d = [Insert(b, k, <<DashO>>) EXCEPT !.output = k + 1]
    PROVE  /\ Does(d, {b.line[i] : i \in FilePlaces(b) \ {k}}, b.line[k], LevelOf(b))
           /\ Opened(b.line, d.line, k, 1) /\ d.line[k] = DashO
<1> DEFINE args == <<DashO>>
           n == Len(b.line)
<1>1. /\ n \in Nat /\ n >= 1 /\ DashO.kind = "-o" /\ b \in Command /\ b.line[1].kind = "tool" /\ k # 1
      /\ b.optimizationLevel \in 0 .. n /\ b.optimizationLevel # 1
      /\ \A i \in 1 .. n : b.line[i].kind = "-O" <=> i = b.optimizationLevel
  BY Literals DEF Unfinished, Command, FileKinds
<1>2. args \in Seq(Argument) /\ Len(args) = 1 /\ args[1] = DashO
  BY Literals
<1>3. k \in 1 .. n + 1 /\ k \in 2 .. n
  BY <1>1
<1> HIDE DEF args
<1>4. PICK e : e = Insert(b, k, args)
  OBVIOUS
<1>5. /\ e \in Command /\ Len(e.line) = n + 1
      /\ \A i \in 1 .. k - 1 : e.line[i] = b.line[i]
      /\ e.line[k] = DashO
      /\ \A i \in k .. n : e.line[i + 1] = b.line[i]
      /\ e.optimizationLevel = IF b.optimizationLevel >= k THEN b.optimizationLevel + 1 ELSE b.optimizationLevel
  <2>1. /\ e \in Command /\ Len(e.line) = Len(b.line) + Len(args)
        /\ \A i \in 1 .. k - 1 : e.line[i] = b.line[i]
        /\ \A i \in 1 .. Len(args) : e.line[k - 1 + i] = args[i]
        /\ \A i \in k .. Len(b.line) : e.line[i + Len(args)] = b.line[i]
        /\ e.optimizationLevel = IF b.optimizationLevel >= k THEN b.optimizationLevel + Len(args) ELSE b.optimizationLevel
    BY <1>1, <1>2, <1>3, <1>4, InsertFacts
  <2>2. e.line[k - 1 + 1] = args[1] /\ k - 1 + 1 = k
    BY <1>2, <1>3, <2>1
  <2> QED
    BY <1>1, <1>2, <2>1, <2>2
<1>6. /\ d \in Command /\ d.line = e.line /\ d.output = k + 1 /\ d.optimizationLevel = e.optimizationLevel
  <2>1. d = [e EXCEPT !.output = k + 1]
    BY <1>4 DEF args
  <2>2. k + 1 \in Nat
    BY <1>3
  <2> QED
    BY <1>5, <2>1, <2>2 DEF Command
<1>a. PICK o, q : o = b.optimizationLevel /\ q = d.optimizationLevel
  OBVIOUS
<1>b. o \in 0 .. n /\ o # 1 /\ q = IF o >= k THEN o + 1 ELSE o
  BY <1>1, <1>5, <1>6, <1>a
<1>c. q \in 0 .. n + 1 /\ q # 1 /\ q # k
  BY <1>1, <1>3, <1>b
<1> HIDE DEF n
<1>7. Opened(b.line, d.line, k, 1) /\ d.line[k] = DashO
  <2>1. /\ k \in 2 .. Len(b.line) + 1 /\ Len(b.line) \in Nat /\ Len(d.line) = Len(b.line) + 1 /\ d.line[k] = DashO
        /\ \A i \in 1 .. k - 1 : d.line[i] = b.line[i]
    BY <1>1, <1>3, <1>5, <1>6 DEF n
  <2>2. \A i \in k .. Len(b.line) : d.line[i + 1] = b.line[i]
    BY <1>5, <1>6 DEF n
  <2> QED
    BY <2>1, <2>2 DEF Opened
<1>8. PICK to : to = Opening(b.line, k, 1)
  OBVIOUS
<1>9. /\ \A i \in 1 .. n : to[i] \in 1 .. Len(d.line) /\ d.line[to[i]] = b.line[i]
      /\ \A i \in 1 .. n : i < k => to[i] = i
      /\ \A i \in 1 .. n : i >= k => to[i] = i + 1
      /\ \A j \in 1 .. Len(d.line) : (\A i \in 1 .. n : to[i] # j) => j >= k /\ j < k + 1
  <2>1. Spread(b.line, d.line, k, 1, to)
    BY <1>7, <1>8, OpeningFacts
  <2> QED
    BY <2>1 DEF Spread, n
<1>10. d.line[1] = b.line[1] /\ d.line[k + 1] = b.line[k] /\ Len(d.line) = n + 1
  <2>1. 1 \in 1 .. k - 1 /\ k \in k .. n
    BY <1>3
  <2> QED
    BY <1>5, <1>6, <2>1
<1>11. ASSUME NEW j \in 1 .. n + 1
       PROVE  /\ d.line[j].kind = "-o" => j = d.output - 1
              /\ d.line[j].kind = "-O" <=> j = d.optimizationLevel
  <2>1. CASE j = k
    <3>1. d.optimizationLevel # k
      BY <1>a, <1>c
    <3> QED
      BY <1>1, <1>3, <1>6, <1>7, <2>1, <3>1
  <2>2. CASE j # k
    <3>1. PICK i \in 1 .. n : to[i] = j
      BY <1>3, <1>9, <1>10, <2>2
    <3>2. d.line[j] = b.line[i] /\ b.line[i].kind # "-o" /\ (b.line[i].kind = "-O" <=> i = b.optimizationLevel)
      BY <1>1, <1>9, <3>1 DEF n, Outputless
    <3>4. i \in Nat /\ j = IF i >= k THEN i + 1 ELSE i
      BY <1>1, <1>3, <1>9, <3>1
    <3>5. i = o <=> j = q
      BY <1>3, <1>b, <3>4
    <3>3. i = b.optimizationLevel <=> j = d.optimizationLevel
      BY <1>a, <3>5
    <3> QED
      BY <3>2, <3>3
  <2> QED
    BY <2>1, <2>2
<1>12. Sound(d)
  <2>1. q \in {0} \cup 2 .. Len(d.line) /\ d.output \in 3 .. Len(d.line)
    <3>1. q = 0 \/ q \in 2 .. n + 1
      BY <1>1, <1>c
    <3>2. k + 1 \in 3 .. n + 1
      BY <1>1, <1>3
    <3> QED
      BY <1>6, <1>10, <3>1, <3>2
  <2>a. d.optimizationLevel \in {0} \cup 2 .. Len(d.line)
    BY <1>a, <2>1
  <2>b. d.output - 1 = k /\ d.output = k + 1
    BY <1>3, <1>6
  <2>2. d.line[d.output - 1] = DashO /\ d.line[d.output].kind \in FileKinds /\ d.line[1].kind = "tool"
    BY <1>1, <1>7, <1>10, <2>b
  <2> QED
    BY <1>6, <1>10, <1>11, <2>a, <2>1, <2>2 DEF Sound
<1>13. Inputs(d) = {b.line[i] : i \in FilePlaces(b) \ {k}}
  <2>1. ASSUME NEW j \in FilePlaces(d) \ {k + 1}
        PROVE  \E i \in FilePlaces(b) \ {k} : d.line[j] = b.line[i]
    <3>1. j \in 1 .. n + 1 /\ d.line[j].kind \in FileKinds /\ j # k
      BY <1>1, <1>7, <1>10 DEF FilePlaces, FileKinds
    <3>2. PICK i \in 1 .. n : to[i] = j
      BY <1>3, <1>9, <1>10, <3>1
    <3>3. i # k
      BY <1>3, <1>9, <2>1, <3>2
    <3> QED
      BY <1>9, <3>1, <3>2, <3>3 DEF FilePlaces, n
  <2>2. ASSUME NEW i \in FilePlaces(b) \ {k}
        PROVE  \E j \in FilePlaces(d) \ {k + 1} : d.line[j] = b.line[i]
    <3>1. i \in 1 .. n /\ b.line[i].kind \in FileKinds
      BY DEF FilePlaces, n
    <3>2. to[i] \in 1 .. Len(d.line) /\ d.line[to[i]] = b.line[i] /\ to[i] # k + 1
      BY <1>3, <1>9, <2>2, <3>1
    <3> QED
      BY <3>1, <3>2 DEF FilePlaces
  <2> QED
    BY <1>6, <2>1, <2>2 DEF Inputs
<1>14. LevelOf(d) = LevelOf(b)
  <2>1. CASE b.optimizationLevel = 0
    BY <1>1, <1>3, <1>5, <1>6, <2>1 DEF LevelOf
  <2>2. CASE b.optimizationLevel # 0
    <3>1. b.optimizationLevel \in 1 .. n /\ d.optimizationLevel = to[b.optimizationLevel] /\ d.optimizationLevel # 0
      BY <1>1, <1>3, <1>5, <1>6, <1>9, <2>2
    <3> QED
      BY <1>9, <2>2, <3>1 DEF LevelOf
  <2> QED
    BY <2>1, <2>2
<1> QED
  BY <1>6, <1>7, <1>10, <1>12, <1>13, <1>14 DEF Does, OutputOf

LEMMA LinkOfArchive ==
    ASSUME NEW m, NEW t, Readable(m, t), "-o" \notin Kinds(m), IsArchiveLine(m), NEW c, c = LinkCommand(m)
    PROVE  LinkRead(c, m, t)
<1>1. PICK b : b = Base(m)
  OBVIOUS
<1>2. /\ Unfinished(b) /\ b.line = m /\ m \in Seq(Argument) /\ DOMAIN m = 1 .. Len(m) /\ Len(m) \in Nat
      /\ b.output = 0 /\ Outputless(b) /\ m[1].kind = "tool" /\ 1 \in 1 .. Len(m)
  BY <1>1, ReadableBase
<1>3. /\ t.output.kind \in FileKinds /\ t.output \notin t.files
      /\ \A a \in t.files : a.kind \in FileKinds
  BY TargetFacts DEF Readable, FileKinds
<1>4. ArchiveLine(m, t) /\ IsFirstStatic(m, t.output)
  BY DEF Readable, IsArchiveLine, ArchiveLine
<1>5. PICK k \in 1 .. Len(m) : m[k] = t.output
  BY <1>2, <1>4 DEF IsFirstStatic, IsIn
<1>6. Find(m, {"static"}) = k
  <2>1. m[k].kind \in {"static"} /\ \A i \in 1 .. Len(m) : m[i].kind \in {"static"} => k <= i
    BY <1>2, <1>4, <1>5 DEF IsFirstStatic
  <2> QED
    BY <1>2, <2>1, FindFacts
<1>7. c = [Insert(b, k, <<DashO>>) EXCEPT !.output = k + 1]
  <2>1. isArchiveCommand(b)
    BY <1>2 DEF isArchiveCommand, IsArchiveLine
  <2> QED
    BY <1>1, <1>2, <1>6, <2>1 DEF LinkCommand
<1>8. PICK ins : ins = {b.line[i] : i \in FilePlaces(b) \ {k}}
  OBVIOUS
<1>9. Does(c, ins, t.output, LevelOf(b)) /\ Opened(m, c.line, k, 1) /\ c.line[k] = DashO
  <2>1. Unfinished(b) /\ Outputless(b) /\ k \in 1 .. Len(b.line) /\ b.line[k].kind \in FileKinds
    BY <1>2, <1>3, <1>5
  <2>2. /\ Does(c, {b.line[i] : i \in FilePlaces(b) \ {k}}, b.line[k], LevelOf(b))
        /\ Opened(b.line, c.line, k, 1) /\ c.line[k] = DashO
    BY <1>7, <2>1, OutputMarked
  <2> QED
    BY <1>2, <1>5, <1>8, <2>2
<1>10. ins = Given(m, t)
  <2>1. /\ \A i \in 1 .. Len(m) : m[i].kind \in FileKinds => m[i] \in t.files \cup {t.output}
        /\ \A i \in 1 .. Len(m) : m[i] = t.output => i = k
    BY <1>2, <1>5 DEF Readable, OnlyFilesOf
  <2>2. ins = {m[i] : i \in {i \in 1 .. Len(m) : m[i].kind \in FileKinds} \ {k}}
    BY <1>2, <1>8 DEF FilePlaces
  <2>3. Given(m, t) = {a \in t.files : \E i \in 1 .. Len(m) : m[i] = a}
    BY <1>2 DEF Given, IsIn
  <2> QED
    BY <1>3, <1>5, <2>1, <2>2, <2>3
<1>11. PICK to : to = Opening(m, k, 1)
  OBVIOUS
<1>12. /\ \A i \in 1 .. Len(m) : to[i] \in 1 .. Len(c.line) /\ c.line[to[i]] = m[i]
       /\ \A i \in 1 .. Len(m) : i < k => to[i] = i
       /\ \A i \in 1 .. Len(m) : i >= k => to[i] = i + 1
       /\ \A j \in 1 .. Len(c.line) : (\A i \in 1 .. Len(m) : to[i] # j) => j >= k /\ j < k + 1
       /\ k \in Nat /\ k > 1
  <2>1. Spread(m, c.line, k, 1, to)
    BY <1>9, <1>11, OpeningFacts
  <2>2. k \in Nat /\ k > 1
    BY <1>9 DEF Opened
  <2> QED
    BY <2>1, <2>2 DEF Spread
<1>13. ASSUME NEW j \in 1 .. Len(c.line)
       PROVE  j = k \/ \E i \in 1 .. Len(m) : to[i] = j
  <2> SUFFICES ASSUME \A i \in 1 .. Len(m) : to[i] # j
               PROVE  j = k
    OBVIOUS
  <2>1. j >= k /\ j < k + 1 /\ k \in Nat /\ j \in Int
    BY <1>12
  <2> QED
    BY <2>1
<1>14. /\ DashO.kind = "-o"
       /\ \A i \in 1 .. Len(m) : m[i].kind \notin {"word", "-static"} /\ (m[i].kind = "option" => i = 2)
  BY Literals, ReadableKinds
<1>15. ASSUME NEW j \in 1 .. Len(c.line)
       PROVE  c.line[j].kind \notin {"word", "-static"} /\ (c.line[j].kind = "option" => j = 2)
  <2>1. CASE j = k
    BY <1>9, <1>14, <2>1
  <2>2. ASSUME NEW i \in 1 .. Len(m), to[i] = j
        PROVE  c.line[j].kind \notin {"word", "-static"} /\ (c.line[j].kind = "option" => j = 2)
    <3>1. c.line[j] = m[i]
      BY <1>12, <2>2
    <3>2. ASSUME i = 2, m[i].kind = "option"
          PROVE  j = 2
      <4>1. k # 2
        BY <1>3, <1>5, <3>2 DEF FileKinds
      <4>2. i < k
        BY <1>12, <3>2, <4>1
      <4> QED
        BY <1>12, <2>2, <3>2, <4>2
    <3> QED
      BY <1>14, <3>1, <3>2
  <2> QED
    BY <1>13, <2>1, <2>2
<1>16. c.line[1] = m[1]
  <2>1. to[1] = 1 /\ c.line[to[1]] = m[1]
    BY <1>2, <1>12
  <2> QED
    BY <2>1
<1>17. DOMAIN c.line = 1 .. Len(c.line)
  <2>1. Sound(c)
    BY <1>9 DEF Does
  <2> QED
    BY <2>1, SoundFacts
<1>18. StaticComesLast(c.line)
  BY <1>15, <1>17 DEF StaticComesLast
<1>19. ASSUME NEW a, IsIn(a, m)
       PROVE  IsIn(a, c.line)
  <2>1. PICK i \in 1 .. Len(m) : m[i] = a
    BY <1>2, <1>19 DEF IsIn
  <2>2. to[i] \in DOMAIN c.line /\ c.line[to[i]] = a
    BY <1>12, <1>17, <2>1
  <2> QED
    BY <2>2 DEF IsIn
<1> QED
  BY <1>9, <1>10, <1>15, <1>16, <1>18, <1>19 DEF LinkRead

LEMMA LinkUnnamed ==
    ASSUME NEW m, NEW t, Readable(m, t), "-o" \notin Kinds(m), ~ IsArchiveLine(m), NEW c, c = LinkCommand(m)
    PROVE  LinkRead(c, m, t)
<1>1. PICK b : b = Base(m)
  OBVIOUS
<1>2. /\ Unfinished(b) /\ b.line = m /\ m \in Seq(Argument) /\ DOMAIN m = 1 .. Len(m) /\ Len(m) \in Nat
      /\ b.output = 0 /\ Outputless(b) /\ m[1].kind = "tool" /\ 1 \in 1 .. Len(m)
  BY <1>1, ReadableBase
<1>3. /\ t.output \in Argument /\ t.output.kind \in FileKinds /\ t.output \notin t.files
      /\ \A a \in t.files : a.kind \in FileKinds
  BY TargetFacts DEF Readable, FileKinds
<1>4. IsUnnamed(m, t.output) /\ NoStray(m) /\ Named(m)
  BY DEF Readable, IsArchiveLine
<1>5. c = AddOutput(b, t.output)
  <2>1. ~ isArchiveCommand(b)
    BY <1>2 DEF isArchiveCommand, IsArchiveLine
  <2> QED
    BY <1>1, <1>2, <1>4, <2>1 DEF LinkCommand, IsUnnamed
<1>6. Does(c, FilesOf(b), t.output, LevelOf(b)) /\ NoStray(c.line)
  BY <1>2, <1>3, <1>4, <1>5, OutputInserted
<1>7. FilesOf(b) = Given(m, t)
  <2>1. /\ \A i \in 1 .. Len(m) : m[i].kind \in FileKinds => m[i] \in t.files \cup {t.output}
        /\ \A i \in 1 .. Len(m) : m[i] # t.output
    BY <1>2, <1>4 DEF Readable, OnlyFilesOf, IsUnnamed, IsIn
  <2>2. FilesOf(b) = {m[i] : i \in {i \in 1 .. Len(m) : m[i].kind \in FileKinds}}
    BY <1>2 DEF FilesOf, FilePlaces
  <2>3. Given(m, t) = {a \in t.files : \E i \in 1 .. Len(m) : m[i] = a}
    BY <1>2 DEF Given, IsIn
  <2> QED
    BY <1>3, <2>1, <2>2, <2>3
<1>8. /\ Opened(m, c.line, 2, 2) /\ c.line[2] = DashO /\ c.line[3] = t.output
  <2>1. PICK args : args = <<DashO, t.output>>
    OBVIOUS
  <2>2. args \in Seq(Argument) /\ Len(args) = 2 /\ args[1] = DashO /\ args[2] = t.output
    BY <1>3, <2>1, Literals
  <2>3. PICK e : e = Insert(b, 2, args)
    OBVIOUS
  <2>4. b \in Command /\ 2 \in 1 .. Len(b.line) + 1
    BY <1>2 DEF Unfinished
  <2>5. /\ e \in Command /\ Len(e.line) = Len(b.line) + Len(args)
        /\ \A i \in 1 .. 2 - 1 : e.line[i] = b.line[i]
        /\ \A i \in 1 .. Len(args) : e.line[2 - 1 + i] = args[i]
        /\ \A i \in 2 .. Len(b.line) : e.line[i + Len(args)] = b.line[i]
    <3>1. PICK at : at = 2
      OBVIOUS
    <3>2. e = Insert(b, at, args) /\ at \in 1 .. Len(b.line) + 1
      BY <2>3, <2>4, <3>1
    <3>3. /\ e \in Command /\ Len(e.line) = Len(b.line) + Len(args)
          /\ \A i \in 1 .. at - 1 : e.line[i] = b.line[i]
          /\ \A i \in 1 .. Len(args) : e.line[at - 1 + i] = args[i]
          /\ \A i \in at .. Len(b.line) : e.line[i + Len(args)] = b.line[i]
      BY <2>2, <2>4, <3>2, InsertFacts
    <3> QED
      BY <3>1, <3>3
  <2>6. c.line = e.line
    BY <1>5, <2>1, <2>3, <2>5 DEF AddOutput, addFlagsToBegin, Command
  <2>7. 2 - 1 + 1 = 2 /\ 2 - 1 + 2 = 3 /\ 1 \in 1 .. Len(args) /\ 2 \in 1 .. Len(args)
    BY <2>2
  <2>8. e.line[2 - 1 + 1] = args[1] /\ e.line[2 - 1 + 2] = args[2]
    BY <2>5, <2>7
  <2>9. e.line[2] = DashO /\ e.line[3] = t.output
    BY <2>2, <2>7, <2>8
  <2>10. Opened(m, e.line, 2, 2)
    BY <1>2, <2>2, <2>5 DEF Opened
  <2> QED
    BY <2>6, <2>9, <2>10
<1>9. PICK to : to = Opening(m, 2, 2)
  OBVIOUS
<1>10. /\ \A i \in 1 .. Len(m) : to[i] \in 1 .. Len(c.line) /\ c.line[to[i]] = m[i]
       /\ \A i \in 1 .. Len(m) : i < 2 => to[i] = i
       /\ \A i \in 1 .. Len(m) : i >= 2 => to[i] = i + 2
       /\ \A i, j \in 1 .. Len(m) : i < j => to[i] < to[j]
       /\ \A j \in 1 .. Len(c.line) : (\A i \in 1 .. Len(m) : to[i] # j) => j >= 2 /\ j < 2 + 2
  <2>1. Spread(m, c.line, 2, 2, to)
    BY <1>8, <1>9, OpeningFacts
  <2> QED
    BY <2>1 DEF Spread
<1>11. ASSUME NEW j \in 1 .. Len(c.line)
       PROVE  j = 2 \/ j = 3 \/ \E i \in 1 .. Len(m) : to[i] = j
  <2> SUFFICES ASSUME \A i \in 1 .. Len(m) : to[i] # j
               PROVE  j = 2 \/ j = 3
    OBVIOUS
  <2>1. j >= 2 /\ j < 4 /\ j \in Int
    BY <1>10
  <2> QED
    BY <2>1
<1>12. /\ DashO.kind = "-o" /\ t.output.kind \notin {"word", "option", "-static", "-l", "-Wl", "-o", "-O"}
       /\ \A i \in 1 .. Len(m) : m[i].kind \notin {"word", "option"}
  BY <1>3, Literals, ReadableKinds DEF FileKinds
<1>13. ASSUME NEW j \in 1 .. Len(c.line)
       PROVE  c.line[j].kind \notin {"word", "option"}
  <2>1. CASE j = 2 \/ j = 3
    BY <1>8, <1>12, <2>1
  <2>2. ASSUME NEW i \in 1 .. Len(m), to[i] = j
        PROVE  c.line[j].kind \notin {"word", "option"}
    BY <1>10, <1>12, <2>2
  <2> QED
    BY <1>11, <2>1, <2>2
<1>14. c.line[1] = m[1]
  <2>1. to[1] = 1 /\ c.line[to[1]] = m[1]
    BY <1>2, <1>10
  <2> QED
    BY <2>1
<1>15. DOMAIN c.line = 1 .. Len(c.line) /\ Len(c.line) \in Nat
  <2>1. Sound(c)
    BY <1>6 DEF Does
  <2> QED
    BY <2>1, SoundFacts
<1>16. ASSUME StaticComesLast(m)
       PROVE  StaticComesLast(c.line)
  <2> SUFFICES ASSUME NEW i \in 1 .. Len(c.line), NEW j \in 1 .. Len(c.line),
                      c.line[i].kind = "-static", c.line[j].kind \in {"-o", "-O"}
               PROVE  j < i
    BY <1>15 DEF StaticComesLast
  <2>1. i # 2 /\ i # 3 /\ i # 1
    BY <1>2, <1>8, <1>12, <1>14
  <2>2. PICK p \in 1 .. Len(m) : to[p] = i
    BY <1>11, <2>1
  <2>3. i > 3
    BY <1>15, <2>1
  <2>4. CASE j = 2 \/ j = 3
    BY <2>3, <2>4
  <2>5. ASSUME NEW q \in 1 .. Len(m), to[q] = j
        PROVE  j < i
    <3>1. m[p].kind = "-static" /\ m[q].kind \in {"-o", "-O"}
      BY <1>10, <2>2, <2>5
    <3>2. q < p
      BY <1>2, <1>16, <3>1 DEF StaticComesLast
    <3> QED
      BY <1>10, <2>2, <2>5, <3>2
  <2> QED
    BY <1>11, <2>4, <2>5
<1>17. \A a : IsIn(a, m) => IsIn(a, c.line)
  BY <1>2, <1>10, <1>15 DEF IsIn
<1>18. Named(c.line)
  <2> SUFFICES ASSUME NEW j \in 1 .. Len(c.line), c.line[j] = Soname
               PROVE  j < Len(c.line) /\ c.line[j + 1].kind = "-Wl"
    BY DEF Named
  <2>1. j # 2 /\ j # 3
    BY <1>8, <1>12, SonameFacts
  <2>2. PICK i \in 1 .. Len(m) : to[i] = j
    BY <1>11, <2>1
  <2>3. m[i] = Soname
    BY <1>10, <2>2
  <2>4. i # 1 /\ i < Len(m) /\ m[i + 1].kind = "-Wl"
    BY <1>2, <1>4, <2>3, SonameFacts DEF Named
  <2>5. i >= 2 /\ i + 1 \in 1 .. Len(m) /\ i + 1 >= 2
    BY <1>2, <2>4
  <2>6. PICK k : k = i + 1
    OBVIOUS
  <2>7. k \in 1 .. Len(m) /\ k >= 2 /\ m[k].kind = "-Wl" /\ k = i + 1
    BY <2>4, <2>5, <2>6
  <2>8. to[k] = k + 2 /\ to[k] \in 1 .. Len(c.line) /\ c.line[to[k]] = m[k] /\ to[i] = i + 2
    BY <1>10, <2>5, <2>7
  <2>9. to[k] = j + 1
    BY <1>2, <2>2, <2>7, <2>8
  <2> QED
    BY <1>15, <2>7, <2>8, <2>9
<1> QED
  BY <1>6, <1>7, <1>13, <1>14, <1>16, <1>17, <1>18 DEF LinkRead

LEMMA LinkCommandReads ==
    ASSUME NEW m, NEW t, Readable(m, t), NEW c, c = LinkCommand(m)
    PROVE  LinkRead(c, m, t)
BY LinkThere, LinkOfArchive, LinkUnnamed

-----------------------------------------------------------------------------
(* Reading a link line. *)

(* What is read from the line of a target. *)
ReadOf(c, line, t) ==
    /\ \E lev : Does(c, t.files, t.output, lev)
    /\ c.line[1] = line[1]
    /\ \A i \in 1 .. Len(c.line) : c.line[i].kind # "word"
    /\ \A i \in 1 .. Len(c.line) : c.line[i].kind = "option" => isArchiveCommand(c) /\ i = 2
    /\ ~ isArchiveCommand(c) => NoStray(c.line) /\ Named(c.line)
    /\ StaticComesLast(line) => StaticComesLast(c.line)

(* A library, or the argument that stands. *)
Taken(a, files) == IF a.kind = "-l" /\ \E l \in files : l.name = a.name THEN CHOOSE l \in files : l.name = a.name ELSE a

LEMMA TakenFacts ==
    ASSUME NEW t, WellBuilt(t), NEW a \in Argument
    PROVE  /\ Taken(a, t.files) \in Argument
           /\ a.kind # "-l" => Taken(a, t.files) = a
           /\ Taken(a, t.files) # a => a.kind = "-l" /\ Taken(a, t.files) \in t.files
           /\ \A f \in t.files : a = Arg("-l", f.name) => Taken(a, t.files) = f
<1>1. \A f \in t.files : f \in Argument
  BY TargetFacts
<1>2. \A f, g \in t.files : f.name = g.name => f = g
  BY DEF WellBuilt
<1>3. CASE a.kind = "-l" /\ \E l \in t.files : l.name = a.name
  <2>1. Taken(a, t.files) = CHOOSE l \in t.files : l.name = a.name
    BY <1>3 DEF Taken
  <2>2. Taken(a, t.files) \in t.files /\ Taken(a, t.files).name = a.name
    BY <1>3, <2>1
  <2>3. \A f \in t.files : a = Arg("-l", f.name) => Taken(a, t.files) = f
    BY <1>2, <2>2, BareFacts
  <2> QED
    BY <1>1, <1>3, <2>2, <2>3
<1>4. CASE ~ (a.kind = "-l" /\ \E l \in t.files : l.name = a.name)
  <2>1. Taken(a, t.files) = a
    BY <1>4 DEF Taken
  <2>2. \A f \in t.files : a # Arg("-l", f.name)
    BY <1>4, BareFacts
  <2> QED
    BY <2>1, <2>2
<1> QED
  BY <1>3, <1>4

LEMMA WithLibrariesReads ==
    ASSUME NEW m, NEW t, Readable(m, t), ~ IsArchiveLine(m), NEW c, LinkRead(c, m, t),
           NEW d, d = WithLibraries(c, t.files)
    PROVE  ReadOf(d, m, t)
<1>1. PICK lev : Does(c, Given(m, t), t.output, lev)
  BY DEF LinkRead
<1>2. /\ c \in Command /\ c.line \in Seq(Argument) /\ Len(c.line) \in Nat /\ DOMAIN c.line = 1 .. Len(c.line)
      /\ Sound(c) /\ Inputs(c) = Given(m, t) /\ OutputOf(c) = t.output /\ LevelOf(c) = lev
      /\ c.output \in 3 .. Len(c.line) /\ c.line[c.output].kind \in FileKinds
      /\ \A i \in 1 .. Len(c.line) : c.line[i] \in Argument
      /\ c.output \in 1 .. Len(c.line) /\ 1 \in 1 .. Len(c.line) /\ c.line[1].kind = "tool"
  <2>1. Sound(c)
    BY <1>1 DEF Does
  <2> QED
    BY <1>1, <2>1, SoundFacts DEF Does
<1>3. /\ WellBuilt(t)
      /\ \A a \in t.files : a.kind \in {"object", "static", "shared"}
  BY TargetFacts DEF Readable
<1>4. ~ isArchiveCommand(c) /\ c.line[1] = m[1]
  BY DEF LinkRead, isArchiveCommand, IsArchiveLine
<1>5. d = [c EXCEPT !.line = [i \in 1 .. Len(c.line) |-> Taken(c.line[i], t.files)]]
  BY <1>2, <1>4 DEF WithLibraries, Taken
<1>6. PICK f : f = [i \in 1 .. Len(c.line) |-> Taken(c.line[i], t.files)]
  OBVIOUS
<1>7. f \in Seq(Argument) /\ Len(f) = Len(c.line)
  <2>1. \A i \in 1 .. Len(c.line) : Taken(c.line[i], t.files) \in Argument
    BY <1>2, <1>3, TakenFacts
  <2>2. f \in [1 .. Len(c.line) -> Argument]
    BY <1>6, <2>1
  <2> QED
    BY <1>2, <2>2, FunctionIsSeq
<1>8. /\ d \in Command /\ d.line = f /\ Len(d.line) = Len(c.line) /\ d.output = c.output
      /\ d.optimizationLevel = c.optimizationLevel
  BY <1>2, <1>5, <1>6, <1>7 DEF Command
<1>9. ASSUME NEW i \in 1 .. Len(c.line)
      PROVE  /\ c.line[i].kind # "-l" => d.line[i] = c.line[i]
             /\ d.line[i] # c.line[i] => c.line[i].kind = "-l" /\ d.line[i] \in t.files
             /\ \A a \in t.files : c.line[i] = Arg("-l", a.name) => d.line[i] = a
  <2>1. d.line[i] = Taken(c.line[i], t.files) /\ c.line[i] \in Argument
    BY <1>2, <1>6, <1>8
  <2> QED
    BY <1>3, <2>1, TakenFacts
<1>10. Replaces(c, d)
  <2>1. d.line[c.output] = c.line[c.output]
    BY <1>2, <1>9 DEF FileKinds
  <2>2. \A i \in 1 .. Len(c.line) : c.line[i].kind \in {"tool", "-o", "-O"} => d.line[i] = c.line[i]
    BY <1>9
  <2>3. \A i \in 1 .. Len(c.line) : d.line[i].kind \in {"-o", "-O"} => d.line[i] = c.line[i]
    BY <1>3, <1>9
  <2> QED
    BY <1>8, <2>1, <2>2, <2>3 DEF Replaces
<1>11. Sound(d) /\ OutputOf(d) = t.output /\ LevelOf(d) = lev /\ d.line[1] = m[1]
  BY <1>2, <1>4, <1>10, ReplacedSound
<1>12. Inputs(d) = t.files
  <2>1. Inputs(d) = {d.line[i] : i \in {i \in 1 .. Len(c.line) : d.line[i].kind \in FileKinds} \ {c.output}}
    BY <1>8 DEF Inputs, FilePlaces
  <2>2. Inputs(c) = {c.line[i] : i \in {i \in 1 .. Len(c.line) : c.line[i].kind \in FileKinds} \ {c.output}}
    BY DEF Inputs, FilePlaces
  <2>3. ASSUME NEW i \in 1 .. Len(c.line), d.line[i].kind \in FileKinds, i # c.output
        PROVE  d.line[i] \in t.files
    <3>1. CASE d.line[i] # c.line[i]
      BY <1>9, <3>1
    <3>2. CASE d.line[i] = c.line[i]
      <4>1. c.line[i] \in Given(m, t)
        BY <1>2, <2>2, <2>3, <3>2
      <4> QED
        BY <3>2, <4>1 DEF Given
    <3> QED
      BY <3>1, <3>2
  <2>4. ASSUME NEW a \in t.files
        PROVE  \E i \in 1 .. Len(c.line) : d.line[i] = a /\ d.line[i].kind \in FileKinds /\ i # c.output
    <3>0. a.kind \in FileKinds /\ a.kind # "-l"
      BY <1>3 DEF FileKinds
    <3>1. CASE IsIn(a, m)
      <4>1. a \in Inputs(c)
        BY <1>2, <3>1 DEF Given
      <4>2. PICK i \in 1 .. Len(c.line) : c.line[i] = a /\ i # c.output
        BY <2>2, <4>1
      <4> QED
        BY <1>9, <3>0, <4>2
    <3>2. CASE IsIn(Arg("-l", a.name), m)
      <4>1. IsIn(Arg("-l", a.name), c.line)
        BY <3>2, BareFacts DEF LinkRead
      <4>2. PICK i \in 1 .. Len(c.line) : c.line[i] = Arg("-l", a.name)
        BY <1>2, <4>1 DEF IsIn
      <4>3. d.line[i] = a
        BY <1>9, <4>2
      <4>4. i # c.output
        BY <1>2, <4>2, BareFacts DEF FileKinds
      <4> QED
        BY <3>0, <4>3, <4>4
    <3> QED
      BY <3>1, <3>2 DEF Readable, IsArchiveLine
  <2> QED
    BY <2>1, <2>3, <2>4
<1>13. \A i \in 1 .. Len(d.line) : d.line[i].kind \notin {"word", "option"}
  BY <1>3, <1>8, <1>9 DEF LinkRead
<1>14. ~ isArchiveCommand(d)
  BY <1>4, <1>11 DEF isArchiveCommand
<1>15. \A i \in 1 .. Len(c.line) : d.line[i].kind \in {"-Wl", "-static", "-o", "-O"} => d.line[i] = c.line[i]
  BY <1>3, <1>9
<1>16. NoStray(d.line)
  <2> SUFFICES ASSUME NEW i \in 1 .. Len(c.line), d.line[i].kind = "-Wl"
               PROVE  \/ d.line[i].name \in {"-z", "-soname,name", "-soname"}
                      \/ i > 1 /\ d.line[i - 1] = Soname
    BY <1>8 DEF NoStray
  <2>1. NoStray(c.line) /\ d.line[i] = c.line[i]
    BY <1>15 DEF LinkRead
  <2>2. ASSUME i > 1, c.line[i - 1] = Soname
        PROVE  d.line[i - 1] = Soname
    <3>1. i - 1 \in 1 .. Len(c.line)
      BY <1>2, <2>2
    <3> QED
      BY <1>9, <2>2, <3>1, SonameFacts
  <2> QED
    BY <2>1, <2>2 DEF NoStray
<1>17. Named(d.line)
  <2> SUFFICES ASSUME NEW i \in 1 .. Len(c.line), d.line[i] = Soname
               PROVE  i < Len(c.line) /\ d.line[i + 1].kind = "-Wl"
    BY <1>8 DEF Named
  <2>1. c.line[i] = Soname /\ Named(c.line)
    BY <1>15, SonameFacts DEF LinkRead
  <2>2. i < Len(c.line) /\ c.line[i + 1].kind = "-Wl"
    BY <2>1 DEF Named
  <2>3. i + 1 \in 1 .. Len(c.line)
    BY <1>2, <2>2
  <2> QED
    BY <1>9, <2>2, <2>3
<1>18. StaticComesLast(m) => StaticComesLast(d.line)
  <2>1. DOMAIN d.line = 1 .. Len(c.line)
    BY <1>7, <1>8
  <2> QED
    BY <1>2, <1>15, <2>1 DEF StaticComesLast, LinkRead
<1> QED
  BY <1>11, <1>12, <1>13, <1>14, <1>16, <1>17, <1>18 DEF ReadOf, Does

LEMMA ReadLinkLineReads ==
    ASSUME NEW l \in LinkLines, NEW c, c = ReadLinkLine(l.line, TRUE, l.target.files)
    PROVE  ReadOf(c, l.line, l.target)
<1> DEFINE line == l.line
           t == l.target
<1>1. line \in Seq([kind : STRING, name : STRING])
  BY LinkLinesAssumption DEF WellFormed
<1>2. [i \in DOMAIN line |-> IF i > 1 /\ line[i - 1] = DashO THEN line[i] ELSE tryConvertOptionToPath(line[i], TRUE)] = line
  BY <1>1 DEF tryConvertOptionToPath
<1>3. PICK m : m = Merged(line)
  OBVIOUS
<1>4. Readable(m, t) /\ m[1] = line[1] /\ (StaticComesLast(line) => StaticComesLast(m))
  BY <1>3, MergedReadable
<1>5. PICK e : e = LinkCommand(m)
  OBVIOUS
<1>6. LinkRead(e, m, t)
  BY <1>4, <1>5, LinkCommandReads
<1>7. c = WithLibraries(e, t.files)
  BY <1>2, <1>3, <1>5 DEF ReadLinkLine
<1>8. ReadOf(c, m, t)
  <2>1. CASE IsArchiveLine(m)
    <3>1. isArchiveCommand(e)
      BY <1>6, <2>1 DEF LinkRead, isArchiveCommand, IsArchiveLine
    <3>2. c = e
      BY <1>7, <3>1 DEF WithLibraries
    <3>3. Given(m, t) = t.files
      BY <1>4, <2>1 DEF Given, Readable, IsArchiveLine, ArchiveLine
    <3> QED
      BY <1>6, <3>1, <3>2, <3>3 DEF LinkRead, ReadOf
  <2>2. CASE ~ IsArchiveLine(m)
    BY <1>4, <1>6, <1>7, <2>2, WithLibrariesReads
  <2> QED
    BY <2>1, <2>2
<1> QED
  BY <1>4, <1>8 DEF ReadOf

-----------------------------------------------------------------------------
(* The link of the tests. *)

LEMMA SetToSeqFacts ==
    ASSUME NEW S, IsFiniteSet(S), S \subseteq Argument, NEW s, s = SetToSeq(S)
    PROVE  /\ s \in Seq(Argument) /\ Len(s) \in Nat
           /\ \A i \in 1 .. Len(s) : s[i] \in S
           /\ \A a \in S : \E i \in 1 .. Len(s) : s[i] = a
<1> DEFINE D == 1 .. Cardinality(S)
<1>1. Cardinality(S) \in Nat /\ ExistsBijection(D, S)
  BY FS_CardinalityType
<1>2. PICK f : f \in [D -> S] /\ IsInjective(f)
  BY <1>1 DEF ExistsBijection, Bijection, Injection
<1>3. s \in [D -> S] /\ IsInjective(s)
  BY <1>2 DEF SetToSeq
<1>4. s \in Injection(D, S)
  BY <1>3 DEF Injection
<1>5. IsFiniteSet(D) /\ Cardinality(D) = Cardinality(S)
  <2>1. IsFiniteSet(D)
    BY <1>1, FS_Interval
  <2> QED
    BY <1>1, <2>1, FS_Bijection
<1>6. s \in Surjection(D, S)
  BY <1>4, <1>5, FS_Injection
<1>7. \A a \in S : \E i \in D : s[i] = a
  BY <1>6 DEF Surjection
<1>8. s \in Seq(Argument) /\ Len(s) = Cardinality(S)
  <2>1. s \in [1 .. Cardinality(S) -> Argument]
    BY <1>3
  <2> QED
    BY <1>1, <2>1, FunctionIsSeq
<1> QED
  BY <1>1, <1>3, <1>7, <1>8


LEMMA LibrariesFacts ==
    ASSUME NEW t, WellBuilt(t)
    PROVE  /\ IsFiniteSet(NewLibraries(t)) /\ NewLibraries(t) \subseteq Argument
           /\ \A a \in NewLibraries(t) : a.kind \in {"static", "shared"}
<1> DEFINE L == {a \in t.files : a.kind \in LibraryKinds}
           f == [a \in L |-> Made(t)[a]]
<1>1. IsFiniteSet(t.files)
  BY DEF WellBuilt
<1>2. IsFiniteSet(L)
  BY <1>1, FS_Subset
<1>3. f \in Surjection(L, NewLibraries(t))
  BY DEF Surjection, NewLibraries
<1>4. IsFiniteSet(NewLibraries(t))
  BY <1>2, <1>3, FS_Surjection
<1>5. \A a \in t.files : Made(t)[a] \in Argument /\ Made(t)[a].kind = a.kind
  BY TargetFacts
<1>6. \A b \in NewLibraries(t) : \E a \in t.files : a.kind \in {"static", "shared"} /\ b = Made(t)[a]
  BY DEF NewLibraries, LibraryKinds
<1>7. NewLibraries(t) \subseteq Argument
  BY <1>5, <1>6
<1>8. \A a \in NewLibraries(t) : a.kind \in {"static", "shared"}
  BY <1>5, <1>6
<1> QED
  BY <1>4, <1>7, <1>8

(* The flags and the files that are added to the command of a test. *)
LEMMA AddedToTest ==
    ASSUME NEW t, WellBuilt(t), NEW args,
           args = <<Flag("$(LDFLAGS)")>> \o TestFiles \o SetToSeq(NewLibraries(t))
    PROVE  /\ args \in Seq(Argument) /\ AllHarmless(args) /\ MarksOf(args) = {}
           /\ FilesIn(args) = Range(TestFiles) \cup NewLibraries(t)
<1>0. PICK one, libs : one = <<Flag("$(LDFLAGS)")>> /\ libs = SetToSeq(NewLibraries(t))
  OBVIOUS
<1>1. /\ libs \in Seq(Argument) /\ Len(libs) \in Nat
      /\ \A i \in 1 .. Len(libs) : libs[i] \in NewLibraries(t)
      /\ \A a \in NewLibraries(t) : \E i \in 1 .. Len(libs) : libs[i] = a
  <2>1. IsFiniteSet(NewLibraries(t)) /\ NewLibraries(t) \subseteq Argument /\ libs = SetToSeq(NewLibraries(t))
    BY <1>0, LibrariesFacts
  <2>2. PICK L : L = NewLibraries(t)
    OBVIOUS
  <2>3. IsFiniteSet(L) /\ L \subseteq Argument /\ libs = SetToSeq(L)
    BY <2>1, <2>2
  <2>4. /\ libs \in Seq(Argument) /\ Len(libs) \in Nat
        /\ \A i \in 1 .. Len(libs) : libs[i] \in L
        /\ \A a \in L : \E i \in 1 .. Len(libs) : libs[i] = a
    BY <2>3, SetToSeqFacts
  <2> QED
    BY <2>2, <2>4
<1>2. \A a \in NewLibraries(t) : a \in Argument /\ a.kind \in {"static", "shared"}
  BY LibrariesFacts
<1>3. one \in Seq(Argument) /\ Len(one) = 1 /\ one[1].kind = "flag"
  <2>1. "$(LDFLAGS)" \in WrittenNames
    BY DEF WrittenNames
  <2>2. "flag" \in WrittenKinds
    BY DEF WrittenKinds
  <2> QED
    BY <1>0, <2>1, <2>2, Literals
<1>4. /\ TestFiles \in Seq(Argument) /\ Len(TestFiles) = 3 /\ Range(TestFiles) = {TestFiles[1], TestFiles[2], TestFiles[3]}
      /\ TestFiles[1].kind = "object" /\ TestFiles[2].kind = "object" /\ TestFiles[3].kind = "shared"
  <2>1. /\ "gtest.o" \in WrittenNames /\ "test.o" \in WrittenNames /\ "under test.so" \in WrittenNames
        /\ "object" \in WrittenKinds /\ "shared" \in WrittenKinds
    BY DEF WrittenNames, WrittenKinds
  <2>2. PICK a, b, c : a = Arg("object", "gtest.o") /\ b = Arg("object", "test.o") /\ c = Arg("shared", "under test.so")
    OBVIOUS
  <2>3. a \in Argument /\ b \in Argument /\ c \in Argument /\ a.kind = "object" /\ b.kind = "object" /\ c.kind = "shared"
    BY <2>1, <2>2, Literal
  <2>4. TestFiles = <<a, b, c>>
    BY <2>2 DEF TestFiles
  <2>5. DOMAIN TestFiles = {1, 2, 3}
    BY <2>4
  <2> QED
    BY <2>3, <2>4, <2>5 DEF Range
<1>5. /\ args \in Seq(Argument) /\ Len(args) = 4 + Len(libs)
      /\ \A i \in 1 .. 1 : args[i] = one[i]
      /\ \A i \in 1 .. 3 : args[1 + i] = TestFiles[i]
      /\ \A i \in 1 .. Len(libs) : args[1 + 3 + i] = libs[i]
  <2>0. PICK tests : tests = TestFiles
    OBVIOUS
  <2>1. args = one \o tests \o libs /\ Len(tests) = 3 /\ Len(one) = 1
    BY <1>0, <1>3, <1>4, <2>0
  <2>2. one \in Seq(Argument) /\ tests \in Seq(Argument) /\ libs \in Seq(Argument)
    BY <1>1, <1>3, <1>4, <2>0
  <2>3. PICK whole : whole = one \o tests \o libs
    OBVIOUS
  <2>4. /\ whole \in Seq(Argument) /\ Len(whole) = Len(one) + Len(tests) + Len(libs)
        /\ \A i \in 1 .. Len(one) : whole[i] = one[i]
        /\ \A i \in 1 .. Len(tests) : whole[Len(one) + i] = tests[i]
        /\ \A i \in 1 .. Len(libs) : whole[Len(one) + Len(tests) + i] = libs[i]
    BY <2>2, <2>3, Joined3
  <2>a. whole = args
    BY <2>1, <2>3
  <2>5. whole = args /\ 1 + 3 = 4
    BY <2>a
  <2>6. /\ args \in Seq(Argument) /\ Len(args) = 4 + Len(libs)
        /\ \A i \in 1 .. 1 : args[i] = one[i]
        /\ \A i \in 1 .. 3 : args[1 + i] = tests[i]
        /\ \A i \in 1 .. Len(libs) : args[1 + 3 + i] = libs[i]
    BY <2>1, <2>4, <2>5
  <2> QED
    BY <2>0, <2>6
<1>6. args[1] = one[1] /\ args[2] = TestFiles[1] /\ args[3] = TestFiles[2] /\ args[4] = TestFiles[3]
  <2>1. 1 + 1 = 2 /\ 1 + 2 = 3 /\ 1 + 3 = 4 /\ 1 \in 1 .. 1 /\ 1 \in 1 .. 3 /\ 2 \in 1 .. 3 /\ 3 \in 1 .. 3
    OBVIOUS
  <2>2. PICK tests : tests = TestFiles
    OBVIOUS
  <2>3. args[1 + 1] = tests[1] /\ args[1 + 2] = tests[2] /\ args[1 + 3] = tests[3] /\ args[1] = one[1]
    BY <1>5, <2>1, <2>2
  <2> QED
    BY <2>1, <2>2, <2>3
<1>7. ASSUME NEW j \in 1 .. Len(args)
      PROVE  j \in 1 .. 4 \/ \E i \in 1 .. Len(libs) : args[j] = libs[i]
  <2>1. ASSUME j > 4
        PROVE  \E i \in 1 .. Len(libs) : args[j] = libs[i]
    <3>1. PICK i : i = j - 4
      OBVIOUS
    <3>2. i \in 1 .. Len(libs) /\ 1 + 3 + i = j
      BY <1>1, <1>5, <2>1, <3>1
    <3> QED
      BY <1>5, <3>2
  <2> QED
    BY <1>1, <1>5, <2>1
<1>8. \A j \in 1 .. 4 : j = 1 \/ j = 2 \/ j = 3 \/ j = 4
  OBVIOUS
<1>9. \A j \in 1 .. Len(args) : \/ j = 1 /\ args[j].kind = "flag"
                               \/ args[j] \in Range(TestFiles) \cup NewLibraries(t)
  BY <1>1, <1>3, <1>4, <1>6, <1>7, <1>8
<1>10. \A a \in Range(TestFiles) \cup NewLibraries(t) : a.kind \in {"object", "static", "shared"}
  BY <1>2, <1>4
<1>11. \A a \in Range(TestFiles) \cup NewLibraries(t) : \E j \in 1 .. Len(args) : args[j] = a
  <2>1. 2 \in 1 .. Len(args) /\ 3 \in 1 .. Len(args) /\ 4 \in 1 .. Len(args)
    BY <1>1, <1>5
  <2>2. \A i \in 1 .. Len(libs) : 1 + 3 + i \in 1 .. Len(args) /\ args[1 + 3 + i] = libs[i]
    BY <1>1, <1>5
  <2>3. \A a \in NewLibraries(t) : \E j \in 1 .. Len(args) : args[j] = a
    BY <1>1, <2>2
  <2>4. \A a \in Range(TestFiles) : a = TestFiles[1] \/ a = TestFiles[2] \/ a = TestFiles[3]
    BY <1>4
  <2>5. \A a \in Range(TestFiles) : \E j \in 1 .. Len(args) : args[j] = a
    BY <1>6, <2>1, <2>4
  <2> QED
    BY <2>3, <2>5
<1>12. AllHarmless(args) /\ MarksOf(args) = {}
  BY <1>9, <1>10 DEF AllHarmless, Harmless, MarksOf, Marked
<1>13. FilesIn(args) = Range(TestFiles) \cup NewLibraries(t)
  <2>1. FilesIn(args) = {args[j] : j \in {j \in 1 .. Len(args) : args[j].kind \in FileKinds}}
    BY DEF FilesIn
  <2>2. "flag" \notin FileKinds /\ \A a \in Range(TestFiles) \cup NewLibraries(t) : a.kind \in FileKinds
    BY <1>10 DEF FileKinds
  <2>3. ASSUME NEW a \in FilesIn(args)
        PROVE  a \in Range(TestFiles) \cup NewLibraries(t)
    BY <1>9, <2>1, <2>2, <2>3
  <2>4. ASSUME NEW a \in Range(TestFiles) \cup NewLibraries(t)
        PROVE  a \in FilesIn(args)
    BY <1>11, <2>1, <2>2, <2>4
  <2> QED
    BY <2>3, <2>4
<1> QED
  BY <1>5, <1>12, <1>13

(* The arguments that are erased are no options for the linker. *)
LEMMA EraseNamed ==
    ASSUME NEW c, NEW ins, NEW out, NEW lev, Does(c, ins, out, lev), NEW args, NEW d, d = EraseIf(c, args),
           \A a \in args : a.kind \notin {"tool", "-o", "-O"}, out \notin args, \A a \in args : a.kind # "-Wl",
           Named(c.line)
    PROVE  Named(d.line)
<1>1. Sound(c) /\ OutputOf(c) = out /\ DOMAIN c.line = 1 .. Len(c.line)
  BY SoundFacts DEF Does
<1>2. /\ d \in Command /\ Carries(c, d, Left(c, args), Ranks(Left(c, args)))
      /\ PutIn(d, Left(c, args), Ranks(Left(c, args))) = {}
  BY <1>1, EraseIfCarries
<1>3. KeepsWl(c, Left(c, args))
  BY <1>1 DEF KeepsWl, Left
<1> QED
  BY <1>1, <1>2, <1>3, CarriedNamed

Unmarked(args) == MarksOf(args) = {}

LEMMA AddUnmarked ==
    ASSUME NEW c, Sound(c), NEW args \in Seq(Argument), NEW d, d = Insert(c, 2, args), Unmarked(args)
    PROVE  MarksOf(d.line) = MarksOf(c.line)
<1>1. 2 \in {2, Len(c.line) + 1}
  OBVIOUS
<1>2. MarksOf(d.line) = MarksOf(c.line) \cup MarksOf(args)
  BY <1>1, InsertMarks
<1> QED
  BY <1>2 DEF Unmarked

(* The program of the tests. *)
LEMMA TestDoes ==
    ASSUME NEW t, WellBuilt(t), NEW c, NEW lev, Does(c, t.files, t.output, lev), NoStray(c.line), Named(c.line),
           NEW d, d = linkTest(c, t, Made(t), TestFiles, NewOutput)
    PROVE  Does(d, Range(TestFiles) \cup NewLibraries(t), NewOutput, Nought) /\ NoSoname(d.line)
<1>1. /\ NewOutput \in Argument /\ NewOutput.kind = "program" /\ NewOutput.kind \in FileKinds /\ NewOutput \notin t.files
      /\ \A a \in t.files : a.kind \in {"object", "static", "shared"}
  BY TargetFacts
<1>2. PICK m : m = setBuildTool(c, "g++")
  OBVIOUS
<1>3. Does(m, t.files, t.output, lev) /\ NoStray(m.line) /\ Named(m.line)
  <2>1. "g++" \in WrittenNames /\ Sound(c)
    BY DEF WrittenNames, Does
  <2> QED
    BY <1>2, <2>1, SetBuildTool, ToolNamed
<1>4. PICK n : n = setOutput(m, NewOutput)
  OBVIOUS
<1>5. Does(n, t.files, NewOutput, lev) /\ NoStray(n.line) /\ Named(n.line)
  <2>1. Sound(m)
    BY <1>3 DEF Does
  <2> QED
    BY <1>1, <1>3, <1>4, <2>1, SetOutput, OutputNamed
<1>6. PICK args : args = t.files \cup OfKinds(n, {"-shared", "-L", "-l"})
  OBVIOUS
<1>7. \A a \in args : a.kind \in {"object", "static", "shared", "-shared", "-L", "-l"}
  BY <1>1, <1>6 DEF OfKinds
<1>8. (\A a \in args : a.kind \notin {"tool", "-o", "-O"}) /\ (\A a \in args : a.kind # "-Wl") /\ NewOutput \notin args
  BY <1>1, <1>7
<1>9. PICK k : k = EraseIf(n, args)
  OBVIOUS
<1>10. Does(k, t.files \ args, NewOutput, lev) /\ NoStray(k.line)
  BY <1>5, <1>8, <1>9, EraseIfEffect
<1>11. Named(k.line)
  BY <1>5, <1>8, <1>9, EraseNamed
<1>12. t.files \ args = {}
  BY <1>6
<1>13. PICK none : none = {}
  OBVIOUS
<1>14. Does(k, none, NewOutput, lev)
  BY <1>10, <1>12, <1>13
<1>15. PICK e : e = WithoutSoname(k)
  OBVIOUS
<1>16. Does(e, none, NewOutput, lev) /\ NoSoname(e.line)
  BY <1>10, <1>11, <1>14, <1>15, RemoveSoname
<1>17. PICK o : o = setOptimizationLevel(e, Nought)
  OBVIOUS
<1>18. Does(o, none, NewOutput, Nought) /\ MarksOf(o.line) = MarksOf(e.line)
  <2>1. Sound(e)
    BY <1>16 DEF Does
  <2> QED
    BY <1>16, <1>17, <2>1, SetOptimizationLevel, LevelMarks
<1>19. PICK added : added = <<Flag("$(LDFLAGS)")>> \o TestFiles \o SetToSeq(NewLibraries(t))
  OBVIOUS
<1>20. /\ added \in Seq(Argument) /\ AllHarmless(added) /\ MarksOf(added) = {}
       /\ FilesIn(added) = Range(TestFiles) \cup NewLibraries(t)
  BY <1>19, AddedToTest
<1>21. PICK p : p = addFlagsToBegin(o, added)
  OBVIOUS
<1>22. Does(p, none \cup FilesIn(added), NewOutput, Nought) /\ MarksOf(p.line) = MarksOf(o.line)
  <2>1. Added(o, p, added)
    BY <1>20, <1>21 DEF Added, addFlagsToBegin, Ends
  <2>2. PICK out, lv : out = NewOutput /\ lv = Nought
    OBVIOUS
  <2>2a. Unmarked(added)
    BY <1>20 DEF Unmarked
  <2>3. Does(o, none, out, lv)
    BY <1>18, <2>2
  <2>4. Does(p, none \cup FilesIn(added), out, lv)
    <3>1. PICK files : files = none \cup FilesIn(added)
      OBVIOUS
    <3>2. Does(p, files, out, lv)
      BY <2>1, <2>3, <3>1, AddMany
    <3> QED
      BY <3>1, <3>2
  <2>5. Sound(o) /\ added \in Seq(Argument) /\ p = Insert(o, 2, added)
    BY <1>18, <1>20, <1>21 DEF Does, addFlagsToBegin
  <2>6. MarksOf(p.line) = MarksOf(o.line)
    BY <2>2a, <2>5, AddUnmarked
  <2> QED
    BY <2>2, <2>4, <2>6
<1>23. PICK ins : ins = Range(TestFiles) \cup NewLibraries(t)
  OBVIOUS
<1>24. Does(p, ins, NewOutput, Nought) /\ MarksOf(p.line) = MarksOf(e.line)
  BY <1>13, <1>18, <1>20, <1>22, <1>23
<1>25. d = setOutput(p, NewOutput)
  BY <1>2, <1>4, <1>6, <1>9, <1>15, <1>17, <1>19, <1>21 DEF linkTest, WithoutSoname, NewLibraries
<1>26. Does(d, ins, NewOutput, Nought) /\ MarksOf(d.line) = MarksOf(p.line)
  <2>1. Sound(p)
    BY <1>24 DEF Does
  <2> QED
    BY <1>1, <1>24, <1>25, <2>1, SetOutput, OutputMarks
<1> QED
  BY <1>16, <1>23, <1>24, <1>26, MarksOfTwo

-----------------------------------------------------------------------------
(* The commands that are written anew: for the program of KLEE and for archives. *)

(* A line that has the output of the target at q + 1, and the files "ins". *)
HoldsAt(s, t, q) ==
    /\ s \in Seq(Argument) /\ q \in Nat /\ 1 <= q /\ q < Len(s) /\ s[q] = DashO /\ s[q + 1] = t.output
    /\ \A i \in 1 .. Len(s) : s[i].kind = "-o" => i = q
HoldsFiles(s, q, ins) ==
    /\ \A i \in 1 .. Len(s) : s[i].kind \in FileKinds => i = q + 1 \/ s[i] \in ins
    /\ \A a \in ins : \E i \in 1 .. Len(s) : s[i] = a

(* The line in which everything is new. *)
Renewed(s, t, q) ==
    /\ s \in Seq(Argument) /\ q \in Nat /\ 1 <= q /\ q < Len(s) /\ s[q] = DashO /\ s[q + 1] = NewOutput
    /\ \A i \in 1 .. Len(s) : /\ s[i].kind = "-o" => i = q
                              /\ s[i].kind # "-O"
                              /\ s[i].kind \in FileKinds => i = q + 1 \/ s[i] \in NewFiles(t)
    /\ \A a \in NewFiles(t) : \E i \in 1 .. Len(s) : i # q + 1 /\ s[i] = a

Renews(s, r, t) ==
    /\ r \in Seq(Argument) /\ Len(r) = Len(s)
    /\ \A i \in 1 .. Len(s) :
          /\ s[i] \in t.files => r[i] = Made(t)[s[i]]
          /\ s[i] = t.output => r[i] = NewOutput
          /\ s[i] = DashO => r[i] = DashO
          /\ s[i].kind \notin FileKinds \cup {"-o"} => r[i].kind \notin FileKinds \cup {"-o", "-O"}

LEMMA RenewedBy ==
    ASSUME NEW t, WellBuilt(t), NEW s, NEW q, HoldsAt(s, t, q), HoldsFiles(s, q, t.files), NEW r, Renews(s, r, t)
    PROVE  Renewed(r, t, q)
<1>1. /\ s \in Seq(Argument) /\ q \in Nat /\ 1 <= q /\ q < Len(s) /\ s[q] = DashO /\ s[q + 1] = t.output
      /\ \A i \in 1 .. Len(s) : s[i].kind = "-o" => i = q
  BY DEF HoldsAt
<1>2. /\ \A i \in 1 .. Len(s) : s[i].kind \in FileKinds => i = q + 1 \/ s[i] \in t.files
      /\ \A a \in t.files : \E i \in 1 .. Len(s) : s[i] = a
  BY DEF HoldsFiles
<1>3. /\ r \in Seq(Argument) /\ Len(r) = Len(s) /\ Len(s) \in Nat
      /\ \A i \in 1 .. Len(s) : s[i] \in t.files => r[i] = Made(t)[s[i]]
      /\ \A i \in 1 .. Len(s) : s[i] = t.output => r[i] = NewOutput
      /\ \A i \in 1 .. Len(s) : s[i] = DashO => r[i] = DashO
      /\ \A i \in 1 .. Len(s) : s[i].kind \notin FileKinds \cup {"-o"} => r[i].kind \notin FileKinds \cup {"-o", "-O"}
  BY <1>1 DEF Renews
<1>4. /\ \A a \in t.files : a \in Argument /\ a.kind \in {"object", "static", "shared"} /\ Made(t)[a].kind = a.kind
      /\ NewOutput.kind = "program" /\ t.output \notin t.files
  BY TargetFacts
<1>5. q \in 1 .. Len(s) /\ q + 1 \in 1 .. Len(s) /\ q # q + 1
  BY <1>1, <1>3
<1>6. r[q] = DashO /\ r[q + 1] = NewOutput
  BY <1>1, <1>3, <1>5
<1>7. DashO.kind = "-o"
  BY Literals
<1>8. ASSUME NEW i \in 1 .. Len(s)
      PROVE  \/ i = q \/ i = q + 1 \/ s[i] \in t.files
             \/ s[i].kind \notin FileKinds \cup {"-o"}
  BY <1>1, <1>2
<1>9. \A a \in t.files : Made(t)[a] \in NewFiles(t)
  BY DEF NewFiles
<1>10. ASSUME NEW i \in 1 .. Len(s)
       PROVE  /\ r[i].kind = "-o" => i = q
              /\ r[i].kind # "-O"
              /\ r[i].kind \in FileKinds => i = q + 1 \/ r[i] \in NewFiles(t)
  <2>0. "-o" \notin FileKinds /\ "-O" \notin FileKinds
    BY DEF FileKinds
  <2>1. CASE i = q
    BY <1>6, <1>7, <2>0, <2>1
  <2>2. CASE i = q + 1
    BY <1>4, <1>6, <2>0, <2>2
  <2>3. CASE s[i] \in t.files
    BY <1>3, <1>4, <1>9, <2>3
  <2>4. CASE s[i].kind \notin FileKinds \cup {"-o"}
    <3>1. r[i].kind \notin FileKinds \cup {"-o", "-O"}
      BY <1>3, <2>4
    <3> QED
      BY <3>1
  <2> QED
    BY <1>8, <2>1, <2>2, <2>3, <2>4
<1>11. ASSUME NEW b \in NewFiles(t)
       PROVE  \E i \in 1 .. Len(s) : i # q + 1 /\ r[i] = b
  <2>1. PICK a \in t.files : b = Made(t)[a]
    BY DEF NewFiles
  <2>2. PICK i \in 1 .. Len(s) : s[i] = a
    BY <1>2
  <2>3. r[i] = b /\ i # q + 1
    BY <1>1, <1>3, <1>4, <2>1, <2>2
  <2> QED
    BY <2>3
<1> QED
  BY <1>1, <1>3, <1>6, <1>10, <1>11 DEF Renewed

(* What such a line does as a command. *)
LEMMA RenewedDoes ==
    ASSUME NEW t, WellBuilt(t), NEW s, NEW q, Renewed(s, t, q), s[1].kind = "tool",
           NEW d, d = setOutput(LinkCommand(s), NewOutput)
    PROVE  (\E lev : Does(d, NewFiles(t), NewOutput, lev)) /\ \A i \in 1 .. Len(s) : i # q + 1 => d.line[i] = s[i]
<1>1. /\ s \in Seq(Argument) /\ q \in Nat /\ 1 <= q /\ q < Len(s) /\ s[q] = DashO /\ s[q + 1] = NewOutput
      /\ \A i \in 1 .. Len(s) : s[i].kind = "-o" => i = q
      /\ \A i \in 1 .. Len(s) : s[i].kind # "-O"
      /\ \A i \in 1 .. Len(s) : s[i].kind \in FileKinds => i = q + 1 \/ s[i] \in NewFiles(t)
      /\ \A a \in NewFiles(t) : \E i \in 1 .. Len(s) : i # q + 1 /\ s[i] = a
  BY DEF Renewed
<1>2. DOMAIN s = 1 .. Len(s) /\ Len(s) \in Nat /\ s # <<>> /\ q \in 1 .. Len(s) /\ q + 1 \in 1 .. Len(s) /\ q + 1 # 0
  BY <1>1
<1>3. PICK b : b = Base(s)
  OBVIOUS
<1>4. DashO.kind = "-o" /\ NewOutput \in Argument /\ NewOutput.kind \in FileKinds
  BY Literals, TargetFacts
<1>5. \A i, j \in DOMAIN s : s[i].kind \in {"-o", "-O"} /\ s[j].kind = s[i].kind => i = j
  BY <1>1, <1>2
<1>6. Unfinished(b) /\ b.line = s /\ \A p \in 1 .. Len(s) : s[p].kind = "-o" => b.output = p + 1
  BY <1>1, <1>2, <1>3, <1>5, BaseFacts
<1>7. b.output = q + 1
  BY <1>1, <1>2, <1>4, <1>6
<1>8. LinkCommand(s) = b
  BY <1>2, <1>3, <1>7 DEF LinkCommand
<1>9. Does(b, Inputs(b), b.line[q + 1], LevelOf(b))
  BY <1>1, <1>2, <1>4, <1>6, <1>7, OutputThere
<1>10. Inputs(b) = NewFiles(t)
  <2>1. Inputs(b) = {s[i] : i \in {i \in 1 .. Len(s) : s[i].kind \in FileKinds} \ {q + 1}}
    BY <1>6, <1>7 DEF Inputs, FilePlaces
  <2>2. \A a \in NewFiles(t) : a.kind \in FileKinds
    <3>1. \A a \in t.files : Made(t)[a].kind \in {"object", "static", "shared"}
      BY TargetFacts
    <3>2. \A a \in t.files : Made(t)[a].kind \in FileKinds
      BY <3>1 DEF FileKinds
    <3> QED
      BY <3>2 DEF NewFiles
  <2>3. ASSUME NEW a \in Inputs(b)
        PROVE  a \in NewFiles(t)
    BY <1>1, <2>1, <2>3
  <2>4. ASSUME NEW a \in NewFiles(t)
        PROVE  a \in Inputs(b)
    BY <1>1, <2>1, <2>2, <2>4
  <2> QED
    BY <2>3, <2>4
<1>11. PICK ins, out, lev : ins = NewFiles(t) /\ out = b.line[q + 1] /\ lev = LevelOf(b)
  OBVIOUS
<1>12. Does(b, ins, out, lev)
  BY <1>9, <1>10, <1>11
<1>13. Does(setOutput(b, NewOutput), ins, NewOutput, lev)
  BY <1>4, <1>12, SetOutput
<1>14. \A i \in 1 .. Len(s) : i # q + 1 => setOutput(b, NewOutput).line[i] = s[i]
  <2>1. b \in Command /\ q + 1 \in 1 .. Len(b.line) /\ setOutput(b, NewOutput) = Set(b, q + 1, NewOutput)
    BY <1>2, <1>6, <1>7 DEF Unfinished, setOutput
  <2>2. PICK k : k = q + 1
    OBVIOUS
  <2>3. k \in 1 .. Len(b.line) /\ setOutput(b, NewOutput) = Set(b, k, NewOutput)
    BY <2>1, <2>2
  <2>4. PICK e : e = Set(b, k, NewOutput)
    OBVIOUS
  <2>5. \A j \in 1 .. Len(b.line) : j # k => e.line[j] = b.line[j]
    BY <1>4, <2>1, <2>3, <2>4, SetGives
  <2> QED
    BY <1>6, <2>2, <2>3, <2>4, <2>5
<1> QED
  BY <1>8, <1>11, <1>13, <1>14

-----------------------------------------------------------------------------
(* The program that is linked for KLEE. *)

OnlyOf(u, more) ==
    /\ u \in Seq(Argument)
    /\ \A i \in 1 .. Len(u) : u[i] \in more
    /\ \A a \in more : a.kind # "-o" /\ \E i \in 1 .. Len(u) : u[i] = a

LEMMA HoldMore ==
    ASSUME NEW t, NEW s, NEW q, HoldsAt(s, t, q), NEW ins, HoldsFiles(s, q, ins), NEW u, NEW more, OnlyOf(u, more),
           NEW r, r = s \o u
    PROVE  HoldsAt(r, t, q) /\ HoldsFiles(r, q, ins \cup more)
<1>1. /\ s \in Seq(Argument) /\ q \in Nat /\ 1 <= q /\ q < Len(s) /\ s[q] = DashO /\ s[q + 1] = t.output
      /\ \A i \in 1 .. Len(s) : s[i].kind = "-o" => i = q
  BY DEF HoldsAt
<1>2. /\ u \in Seq(Argument) /\ Len(u) \in Nat /\ Len(s) \in Nat
      /\ \A i \in 1 .. Len(u) : u[i] \in more
      /\ \A a \in more : a.kind # "-o" /\ \E i \in 1 .. Len(u) : u[i] = a
  BY <1>1 DEF OnlyOf
<1>3. /\ \A i \in 1 .. Len(s) : s[i].kind \in FileKinds => i = q + 1 \/ s[i] \in ins
      /\ \A a \in ins : \E i \in 1 .. Len(s) : s[i] = a
  BY DEF HoldsFiles
<1>4. /\ r \in Seq(Argument) /\ Len(r) = Len(s) + Len(u)
      /\ \A i \in 1 .. Len(s) + Len(u) : r[i] = IF i <= Len(s) THEN s[i] ELSE u[i - Len(s)]
  BY <1>1, <1>2, ConcatProperties
<1>5. \A i \in 1 .. Len(s) : i \in 1 .. Len(r) /\ r[i] = s[i]
  BY <1>2, <1>4
<1>6. \A i \in 1 .. Len(u) : i + Len(s) \in 1 .. Len(r) /\ r[i + Len(s)] = u[i]
  BY <1>2, <1>4
<1>7. \A i \in 1 .. Len(r) : (i \in 1 .. Len(s) /\ r[i] = s[i]) \/ (i \notin 1 .. Len(s) /\ r[i] \in more)
  <2>1. ASSUME NEW i \in 1 .. Len(r), i > Len(s)
        PROVE  r[i] \in more
    <3>1. PICK k : k = i - Len(s)
      OBVIOUS
    <3>2. k \in 1 .. Len(u) /\ k + Len(s) = i
      BY <1>2, <1>4, <2>1, <3>1
    <3> QED
      BY <1>2, <1>6, <3>2
  <2> QED
    BY <1>2, <1>4, <1>5, <2>1
<1>8. q \in 1 .. Len(s) /\ q + 1 \in 1 .. Len(s) /\ q < Len(r)
  BY <1>1, <1>2, <1>4
<1>9. HoldsAt(r, t, q)
  <2>1. \A i \in 1 .. Len(r) : r[i].kind = "-o" => i = q
    BY <1>1, <1>2, <1>7
  <2> QED
    BY <1>1, <1>4, <1>5, <1>8, <2>1 DEF HoldsAt
<1>10. HoldsFiles(r, q, ins \cup more)
  <2>1. \A i \in 1 .. Len(r) : r[i].kind \in FileKinds => i = q + 1 \/ r[i] \in ins \cup more
    BY <1>3, <1>7
  <2>2. \A a \in ins : \E i \in 1 .. Len(r) : r[i] = a
    BY <1>3, <1>5
  <2>3. \A a \in more : \E i \in 1 .. Len(r) : r[i] = a
    BY <1>2, <1>6
  <2> QED
    BY <2>1, <2>2, <2>3 DEF HoldsFiles
<1> QED
  BY <1>9, <1>10
(* The files of some kinds, in the order of the line. *)
FilesOfKinds(line, t, kinds) == Kept(line, {i \in DOMAIN line : line[i] \in t.files /\ line[i].kind \in kinds})
OfKind(t, kinds) == {a \in t.files : a.kind \in kinds}

LEMMA FilesOfKindsFacts ==
    ASSUME NEW t, WellBuilt(t), NEW line \in Seq(Argument), \A a \in t.files : \E i \in 1 .. Len(line) : line[i] = a,
           NEW kinds, NEW u, u = FilesOfKinds(line, t, kinds)
    PROVE  OnlyOf(u, OfKind(t, kinds))
<1>1. PICK places : places = {i \in DOMAIN line : line[i] \in t.files /\ line[i].kind \in kinds}
  OBVIOUS
<1>2. DOMAIN line = 1 .. Len(line) /\ Len(line) \in Nat /\ places \in SUBSET DOMAIN line
  BY <1>1
<1>3. u = Kept(line, places)
  BY <1>1 DEF FilesOfKinds
<1>4. /\ Kept(line, places) \in Seq(Argument) /\ Len(Kept(line, places)) = Cardinality(places)
      /\ \A i \in places : Kept(line, places)[Rank(places, i)] = line[i]
  BY <1>2, KeptFacts
<1>5. u \in Seq(Argument) /\ Len(u) = Cardinality(places) /\ \A i \in places : u[Rank(places, i)] = line[i]
  BY <1>3, <1>4
<1>6. /\ \A i \in places : Rank(places, i) \in 1 .. Cardinality(places)
      /\ \A m \in 1 .. Cardinality(places) : \E i \in places : Rank(places, i) = m
  BY <1>2, RankFacts, RankOnto
<1>7. \A i \in places : line[i] \in OfKind(t, kinds)
  BY <1>1 DEF OfKind
<1>8. \A m \in 1 .. Len(u) : u[m] \in OfKind(t, kinds)
  BY <1>5, <1>6, <1>7
<1>9. \A a \in OfKind(t, kinds) : \E i \in places : line[i] = a
  BY <1>1, <1>2 DEF OfKind
<1>10. \A a \in OfKind(t, kinds) : \E m \in 1 .. Len(u) : u[m] = a
  BY <1>5, <1>6, <1>9
<1>11. \A a \in OfKind(t, kinds) : a.kind # "-o"
  <2>1. \A a \in t.files : a.kind \in {"object", "static", "shared"}
    BY TargetFacts
  <2> QED
    BY <2>1 DEF OfKind
<1> QED
  BY <1>5, <1>8, <1>10, <1>11 DEF OnlyOf

LEMMA SortedHolds ==
    ASSUME NEW t, WellBuilt(t), NEW c, NEW lev, Does(c, t.files, t.output, lev),
           NEW s, s = sortLinkDependencies(c.line, t)
    PROVE  \E q \in Nat : HoldsAt(s, t, q) /\ HoldsFiles(s, q, t.files)
<1>1. PICK e : e = EraseIf(c, t.files)
  OBVIOUS
<1>2. /\ \A a \in t.files : a.kind \in {"object", "static", "shared"}
      /\ t.output \notin t.files
  BY TargetFacts
<1>3. \A a \in t.files : a.kind \notin {"tool", "-o", "-O"}
  BY <1>2
<1>4. PICK files, none : files = t.files /\ none = files \ files
  OBVIOUS
<1>5. Does(e, none, t.output, lev)
  <2>1. PICK out : out = t.output
    OBVIOUS
  <2>2. Does(c, files, out, lev) /\ e = EraseIf(c, files) /\ out \notin files /\ \A a \in files : a.kind \notin {"tool", "-o", "-O"}
    BY <1>1, <1>2, <1>3, <1>4, <2>1
  <2>3. Does(e, files \ files, out, lev)
    BY <2>2, EraseIfEffect
  <2> QED
    BY <1>4, <2>1, <2>3
<1>6. e.line = Erased(c.line, t.files)
  BY <1>1 DEF EraseIf, Erased
<1>7. Sound(e) /\ Inputs(e) = {} /\ e.line[e.output] = t.output
  BY <1>4, <1>5 DEF Does, OutputOf
<1>8. PICK q : q = e.output - 1
  OBVIOUS
<1>9. /\ e.line \in Seq(Argument) /\ Len(e.line) \in Nat /\ e.output \in 3 .. Len(e.line) /\ e.line[e.output - 1] = DashO
      /\ \A i \in 1 .. Len(e.line) : e.line[i].kind = "-o" <=> i = e.output - 1
  BY <1>7, SoundFacts
<1>10. q \in Nat /\ 1 <= q /\ q < Len(e.line) /\ q + 1 = e.output
  BY <1>8, <1>9
<1>11. HoldsAt(e.line, t, q)
  BY <1>7, <1>8, <1>9, <1>10 DEF HoldsAt
<1>12. HoldsFiles(e.line, q, none)
  <2>1. \A i \in 1 .. Len(e.line) : e.line[i].kind \in FileKinds => i = e.output
    BY <1>7 DEF Inputs, FilePlaces
  <2> QED
    BY <1>4, <1>10, <2>1 DEF HoldsFiles
<1>13. c.line \in Seq(Argument) /\ \A a \in t.files : \E i \in 1 .. Len(c.line) : c.line[i] = a
  <2>1. Sound(c) /\ Inputs(c) = t.files
    BY DEF Does
  <2> QED
    BY <2>1, SoundFacts DEF Inputs, FilePlaces
<1>14. PICK u1, u2, u3 : /\ u1 = FilesOfKinds(c.line, t, {"object"})
                         /\ u2 = FilesOfKinds(c.line, t, {"static"})
                         /\ u3 = FilesOfKinds(c.line, t, {"shared"})
  OBVIOUS
<1>15. PICK m1, m2, m3 : m1 = OfKind(t, {"object"}) /\ m2 = OfKind(t, {"static"}) /\ m3 = OfKind(t, {"shared"})
  OBVIOUS
<1>16. OnlyOf(u1, m1) /\ OnlyOf(u2, m2) /\ OnlyOf(u3, m3)
  BY <1>13, <1>14, <1>15, FilesOfKindsFacts
<1>17. PICK s1 : s1 = e.line \o u1
  OBVIOUS
<1>18. PICK s2 : s2 = s1 \o u2
  OBVIOUS
<1>19. s = s2 \o u3
  BY <1>6, <1>14, <1>17, <1>18 DEF sortLinkDependencies, FilesOfKinds
<1>20. PICK i1, i2, i3 : i1 = none \cup m1 /\ i2 = i1 \cup m2 /\ i3 = i2 \cup m3
  OBVIOUS
<1>21. HoldsAt(s1, t, q) /\ HoldsFiles(s1, q, i1)
  <2>1. HoldsAt(s1, t, q) /\ HoldsFiles(s1, q, none \cup m1)
    BY <1>11, <1>12, <1>16, <1>17, HoldMore
  <2> QED
    BY <1>20, <2>1
<1>22. HoldsAt(s2, t, q) /\ HoldsFiles(s2, q, i2)
  <2>1. HoldsAt(s2, t, q) /\ HoldsFiles(s2, q, i1 \cup m2)
    BY <1>16, <1>18, <1>21, HoldMore
  <2> QED
    BY <1>20, <2>1
<1>23. HoldsAt(s, t, q) /\ HoldsFiles(s, q, i3)
  <2>1. HoldsAt(s, t, q) /\ HoldsFiles(s, q, i2 \cup m3)
    BY <1>16, <1>19, <1>22, HoldMore
  <2> QED
    BY <1>20, <2>1
<1>24. i3 = t.files
  <2>1. i3 = m1 \cup m2 \cup m3
    BY <1>4, <1>20
  <2>2. \A a : a \in m1 \cup m2 \cup m3 <=> a \in t.files
    BY <1>2, <1>15 DEF OfKind
  <2> QED
    BY <2>1, <2>2
<1> QED
  BY <1>10, <1>23, <1>24
(* What is written for an argument. *)
LEMMA LinkArguments ==
    ASSUME NEW t, WellBuilt(t), NEW s, s \in Seq(Argument),
           NEW r, r = [i \in DOMAIN s |-> getLinkArgument(s[i], t, Made(t), NewOutput)]
    PROVE  Renews(s, r, t)
<1>1. DOMAIN s = 1 .. Len(s) /\ Len(s) \in Nat /\ \A i \in 1 .. Len(s) : s[i] \in Argument
  OBVIOUS
<1>2. /\ \A a \in t.files : Made(t)[a] \in Argument /\ a.kind \in {"object", "static", "shared"}
      /\ t.output \notin t.files /\ NewOutput \in Argument /\ t.output.kind \in FileKinds
  BY TargetFacts
<1>3. Nothing \in Argument /\ Nothing.kind = "nothing" /\ DashO.kind = "-o" /\ DashO \in Argument
  BY Literals
<1>4. "nothing" \notin FileKinds \cup {"-o", "-O"} /\ "-o" \notin FileKinds /\ "object" \in FileKinds /\ "static" \in FileKinds /\ "shared" \in FileKinds
  BY DEF FileKinds
<1>5. t.output # DashO /\ DashO \notin t.files
  BY <1>2, <1>3, <1>4
<1>6. ASSUME NEW i \in 1 .. Len(s), NEW g, g = getLinkArgument(s[i], t, Made(t), NewOutput)
      PROVE  /\ g \in Argument
             /\ s[i] \in t.files => g = Made(t)[s[i]]
             /\ s[i] = t.output => g = NewOutput
             /\ s[i] = DashO => g = DashO
             /\ s[i].kind \notin FileKinds \cup {"-o"} => g.kind \notin FileKinds \cup {"-o", "-O"}
  <2>1. CASE s[i] \in t.files
    <3>1. g = Made(t)[s[i]]
      BY <1>2, <1>5, <1>6, <2>1 DEF getLinkArgument
    <3> QED
      BY <1>2, <1>4, <1>5, <2>1, <3>1
  <2>2. CASE s[i] = t.output
    <3>1. g = NewOutput
      BY <1>2, <1>5, <1>6, <2>2 DEF getLinkArgument
    <3> QED
      BY <1>2, <1>5, <2>2, <3>1
  <2>3. CASE s[i] = DashO
    <3>1. g = DashO
      BY <1>5, <1>6, <2>3 DEF getLinkArgument
    <3> QED
      BY <1>3, <1>5, <2>3, <3>1
  <2>4. CASE s[i] \notin t.files /\ s[i] # t.output /\ s[i] # DashO
    <3>1. g = Nothing
      BY <1>6, <2>4 DEF getLinkArgument
    <3> QED
      BY <1>3, <1>4, <2>4, <3>1
  <2> QED
    BY <2>1, <2>2, <2>3, <2>4
<1>7. \A i \in 1 .. Len(s) : r[i] = getLinkArgument(s[i], t, Made(t), NewOutput)
  BY <1>1
<1>8. r \in Seq(Argument) /\ Len(r) = Len(s)
  <2>1. r \in [1 .. Len(s) -> Argument]
    BY <1>1, <1>6
  <2> QED
    BY <1>1, <2>1, FunctionIsSeq
<1> QED
  BY <1>6, <1>7, <1>8 DEF Renews

(* A line that is renewed stands behind other arguments. *)
Leads(u) == /\ u \in Seq(Argument) /\ Len(u) >= 1
            /\ \A i \in 1 .. Len(u) : u[i].kind \notin FileKinds \cup {"-o", "-O"}

Behind(r, p, u, s, q) == r = u \o s /\ p = Len(u) + q

LEMMA RenewedBehind ==
    ASSUME NEW t, NEW s, NEW q, Renewed(s, t, q), NEW u, Leads(u), NEW r, NEW p,
           Behind(r, p, u, s, q)
    PROVE  Renewed(r, t, p) /\ r[1] = u[1]
<1>1. /\ s \in Seq(Argument) /\ q \in Nat /\ 1 <= q /\ q < Len(s) /\ s[q] = DashO /\ s[q + 1] = NewOutput
      /\ \A i \in 1 .. Len(s) : /\ s[i].kind = "-o" => i = q
                                /\ s[i].kind # "-O"
                                /\ s[i].kind \in FileKinds => i = q + 1 \/ s[i] \in NewFiles(t)
      /\ \A a \in NewFiles(t) : \E i \in 1 .. Len(s) : i # q + 1 /\ s[i] = a
  BY DEF Renewed
<1>2. /\ u \in Seq(Argument) /\ Len(u) >= 1 /\ Len(u) \in Nat /\ Len(s) \in Nat
      /\ \A i \in 1 .. Len(u) : u[i].kind \notin FileKinds \cup {"-o", "-O"}
  BY <1>1 DEF Leads
<1>3. /\ r \in Seq(Argument) /\ Len(r) = Len(u) + Len(s)
      /\ \A i \in 1 .. Len(u) + Len(s) : r[i] = IF i <= Len(u) THEN u[i] ELSE s[i - Len(u)]
  <2>1. r = u \o s
    BY DEF Behind
  <2> QED
    BY <1>1, <1>2, <2>1, ConcatProperties
<1>4. \A i \in 1 .. Len(u) : r[i] = u[i]
  BY <1>2, <1>3
<1>5. ASSUME NEW i \in 1 .. Len(s)
      PROVE  Len(u) + i \in 1 .. Len(r) /\ r[Len(u) + i] = s[i]
  <2>1. PICK k : k = Len(u) + i
    OBVIOUS
  <2>2. k \in 1 .. Len(u) + Len(s) /\ ~ (k <= Len(u)) /\ k - Len(u) = i
    BY <1>2, <2>1
  <2>3. r[k] = s[i]
    BY <1>3, <2>2
  <2> QED
    BY <1>3, <2>1, <2>2, <2>3
<1>6. \A j \in 1 .. Len(r) : j \in 1 .. Len(u) \/ \E i \in 1 .. Len(s) : j = Len(u) + i
  <2>1. ASSUME NEW j \in 1 .. Len(r), j > Len(u)
        PROVE  \E i \in 1 .. Len(s) : j = Len(u) + i
    <3>1. PICK i : i = j - Len(u)
      OBVIOUS
    <3>2. i \in 1 .. Len(s) /\ j = Len(u) + i
      BY <1>2, <1>3, <2>1, <3>1
    <3> QED
      BY <3>2
  <2> QED
    BY <1>2, <1>3, <2>1
<1>7. p = Len(u) + q
  BY DEF Behind
<1>8. q \in 1 .. Len(s) /\ q + 1 \in 1 .. Len(s) /\ p + 1 = Len(u) + (q + 1)
  BY <1>1, <1>2, <1>7
<1>9. p \in Nat /\ 1 <= p /\ p < Len(r)
  BY <1>1, <1>2, <1>3, <1>7
<1>10. r[p] = DashO /\ r[p + 1] = NewOutput
  BY <1>1, <1>5, <1>7, <1>8
<1>11. ASSUME NEW j \in 1 .. Len(r)
       PROVE  /\ r[j].kind = "-o" => j = p
              /\ r[j].kind # "-O"
              /\ r[j].kind \in FileKinds => j = p + 1 \/ r[j] \in NewFiles(t)
  <2>1. CASE j \in 1 .. Len(u)
    BY <1>2, <1>4, <2>1
  <2>2. CASE \E i \in 1 .. Len(s) : j = Len(u) + i
    <3>1. PICK i \in 1 .. Len(s) : j = Len(u) + i
      BY <2>2
    <3>2. r[j] = s[i]
      BY <1>5, <3>1
    <3>3. (i = q => j = p) /\ (i = q + 1 => j = p + 1)
      BY <1>7, <1>8, <3>1
    <3> QED
      BY <1>1, <3>2, <3>3
  <2> QED
    BY <1>6, <2>1, <2>2
<1>12. ASSUME NEW a \in NewFiles(t)
       PROVE  \E j \in 1 .. Len(r) : j # p + 1 /\ r[j] = a
  <2>1. PICK i \in 1 .. Len(s) : i # q + 1 /\ s[i] = a
    BY <1>1
  <2>2. PICK j : j = Len(u) + i
    OBVIOUS
  <2>3. j \in 1 .. Len(r) /\ r[j] = a
    BY <1>5, <2>1, <2>2
  <2>4. j # p + 1
    BY <1>1, <1>2, <1>7, <2>1, <2>2
  <2> QED
    BY <2>3, <2>4
<1>13. 1 \in 1 .. Len(u)
  BY <1>2
<1> QED
  BY <1>2, <1>3, <1>4, <1>7, <1>9, <1>10, <1>11, <1>12, <1>13 DEF Renewed

LEMMA GoldFacts == Leads(LD_GOLD_OPTIONS) /\ LD_GOLD_OPTIONS[1].kind = "tool"
<1>1. PICK a, b : a = Arg("tool", "ld.gold") /\ b = Flag("-relocatable")
  OBVIOUS
<1>2. a \in Argument /\ a.kind = "tool" /\ b \in Argument /\ b.kind = "flag"
  <2>1. "tool" \in WrittenKinds /\ "ld.gold" \in WrittenNames /\ "-relocatable" \in WrittenNames
    BY DEF WrittenKinds, WrittenNames
  <2> QED
    BY <1>1, <2>1, Literals
<1>3. LD_GOLD_OPTIONS = <<a, b>>
  BY <1>1 DEF LD_GOLD_OPTIONS
<1>4. "tool" \notin FileKinds \cup {"-o", "-O"} /\ "flag" \notin FileKinds \cup {"-o", "-O"}
  BY DEF FileKinds
<1> QED
  BY <1>2, <1>3, <1>4 DEF Leads

LEMMA ExecutableDoes ==
    ASSUME NEW t, WellBuilt(t), NEW c, NEW lev, Does(c, t.files, t.output, lev),
           NEW d, d = getLinkActionsForExecutable(c, t, Made(t), NewOutput)
    PROVE  \E level : Does(d, NewFiles(t), NewOutput, level)
<1>1. PICK s : s = sortLinkDependencies(c.line, t)
  OBVIOUS
<1>2. PICK q \in Nat : HoldsAt(s, t, q) /\ HoldsFiles(s, q, t.files)
  BY <1>1, SortedHolds
<1>3. PICK r : r = [i \in DOMAIN s |-> getLinkArgument(s[i], t, Made(t), NewOutput)]
  OBVIOUS
<1>4. Renews(s, r, t)
  BY <1>2, <1>3, LinkArguments DEF HoldsAt
<1>5. Renewed(r, t, q)
  BY <1>2, <1>4, RenewedBy
<1>6. PICK gold : gold = LD_GOLD_OPTIONS
  OBVIOUS
<1>7. PICK l : l = gold \o r
  OBVIOUS
<1>8. PICK p : p = Len(gold) + q
  OBVIOUS
<1>9. Renewed(l, t, p) /\ l[1].kind = "tool"
  <2>1. Leads(gold) /\ gold[1].kind = "tool"
    BY <1>6, GoldFacts
  <2>1a. Behind(l, p, gold, r, q)
    BY <1>7, <1>8 DEF Behind
  <2>2. Renewed(l, t, p) /\ l[1] = gold[1]
    BY <1>5, <2>1, <2>1a, RenewedBehind
  <2> QED
    BY <2>1, <2>2
<1>10. d = setOutput(LinkCommand(l), NewOutput)
  BY <1>1, <1>3, <1>6, <1>7 DEF getLinkActionsForExecutable
<1> QED
  BY <1>9, <1>10, RenewedDoes

-----------------------------------------------------------------------------
(* Archives. *)

Archived(s, t) == [i \in DOMAIN s |-> getArchiveArgument(s[i], t, Made(t), NewOutput)]
KeepsOptions(s, r) == \A i \in 1 .. Len(s) : s[i].kind = "option" => r[i].kind = "option"

LEMMA ArchiveArguments ==
    ASSUME NEW t, WellBuilt(t), NEW s, s \in Seq(Argument), NEW r, r = Archived(s, t)
    PROVE  Renews(s, r, t) /\ KeepsOptions(s, r)
<1>1. DOMAIN s = 1 .. Len(s) /\ Len(s) \in Nat /\ \A i \in 1 .. Len(s) : s[i] \in Argument
  OBVIOUS
<1>2. /\ \A a \in t.files : Made(t)[a] \in Argument /\ a.kind \in {"object", "static", "shared"}
      /\ t.output \notin t.files /\ NewOutput \in Argument /\ t.output.kind \in FileKinds
  BY TargetFacts
<1>3. Nothing \in Argument /\ Nothing.kind = "nothing" /\ DashO.kind = "-o" /\ DashO \in Argument
  BY Literals
<1>4. /\ "nothing" \notin FileKinds \cup {"-o", "-O"} /\ "-o" \notin FileKinds /\ "object" \in FileKinds
      /\ "static" \in FileKinds /\ "shared" \in FileKinds /\ "option" \notin FileKinds \cup {"-o", "-O"}
      /\ "word" \notin FileKinds \cup {"-o", "-O"} /\ "-l" \notin FileKinds \cup {"-o", "-O", "option"}
  BY DEF FileKinds
<1>5. t.output # DashO /\ DashO \notin t.files
  BY <1>2, <1>3, <1>4
<1>6. \A a \in t.installed : a.kind = "-l"
  BY DEF WellBuilt
<1>7. ASSUME NEW i \in 1 .. Len(s), NEW g, g = getArchiveArgument(s[i], t, Made(t), NewOutput)
      PROVE  /\ g \in Argument
             /\ s[i] \in t.files => g = Made(t)[s[i]]
             /\ s[i] = t.output => g = NewOutput
             /\ s[i] = DashO => g = DashO
             /\ s[i].kind \notin FileKinds \cup {"-o"} => g.kind \notin FileKinds \cup {"-o", "-O"}
             /\ s[i].kind = "option" => g.kind = "option"
  <2>1. CASE s[i] \in t.files
    <3>1. g = Made(t)[s[i]]
      BY <1>7, <2>1 DEF getArchiveArgument
    <3> QED
      BY <1>2, <1>4, <1>5, <2>1, <3>1
  <2>2. CASE s[i] = t.output
    <3>1. g = NewOutput
      BY <1>2, <1>7, <2>2 DEF getArchiveArgument
    <3> QED
      BY <1>2, <1>4, <1>5, <2>2, <3>1
  <2>3. CASE s[i] \notin t.files /\ s[i] # t.output /\ (s[i] \in t.installed \cup {DashO} \/ IsWord(s[i]))
    <3>1. g = s[i]
      BY <1>7, <2>3 DEF getArchiveArgument
    <3>2. s[i].kind # "-O"
      <4>1. CASE s[i] \in t.installed
        BY <1>4, <1>6, <4>1
      <4>2. CASE s[i] = DashO
        BY <1>3, <4>2
      <4>3. CASE IsWord(s[i])
        BY <4>3 DEF IsWord, FileKinds
      <4> QED
        BY <2>3, <4>1, <4>2, <4>3
    <3> QED
      BY <1>1, <1>5, <2>3, <3>1, <3>2
  <2>4. CASE s[i] \notin t.files /\ s[i] # t.output /\ ~ (s[i] \in t.installed \cup {DashO} \/ IsWord(s[i]))
    <3>1. g = Nothing /\ s[i] # DashO /\ s[i].kind # "option"
      BY <1>7, <2>4 DEF getArchiveArgument, IsWord
    <3> QED
      BY <1>3, <1>4, <2>4, <3>1
  <2> QED
    BY <2>1, <2>2, <2>3, <2>4
<1>8. \A i \in 1 .. Len(s) : r[i] = getArchiveArgument(s[i], t, Made(t), NewOutput)
  BY <1>1 DEF Archived
<1>9. r \in Seq(Argument) /\ Len(r) = Len(s)
  <2>1. r \in [1 .. Len(s) -> Argument]
    BY <1>1, <1>7 DEF Archived
  <2> QED
    BY <1>1, <2>1, FunctionIsSeq
<1>10. Renews(s, r, t)
  BY <1>7, <1>8, <1>9 DEF Renews
<1> QED
  BY <1>7, <1>8, <1>10 DEF KeepsOptions

LEMMA TailFacts ==
    ASSUME NEW line \in Seq(Argument), Len(line) >= 1, NEW s, s = Tail(line)
    PROVE  /\ s \in Seq(Argument) /\ Len(s) = Len(line) - 1 /\ Len(line) \in Nat
           /\ \A i \in 1 .. Len(line) - 1 : s[i] = line[i + 1]
BY HeadTailProperties

LEMMA GivenHolds ==
    ASSUME NEW t, WellBuilt(t), NEW c, NEW lev, Does(c, t.files, t.output, lev), NEW s, s = Tail(c.line)
    PROVE  \E q \in Nat : HoldsAt(s, t, q) /\ HoldsFiles(s, q, t.files)
<1>1. Sound(c) /\ Inputs(c) = t.files /\ c.line[c.output] = t.output
  BY DEF Does, OutputOf
<1>2. /\ c.line \in Seq(Argument) /\ Len(c.line) \in Nat /\ c.output \in 3 .. Len(c.line)
      /\ c.line[1].kind = "tool" /\ c.line[c.output - 1] = DashO
      /\ \A i \in 1 .. Len(c.line) : c.line[i].kind = "-o" <=> i = c.output - 1
  BY <1>1, SoundFacts
<1>3. PICK q : q = c.output - 2
  OBVIOUS
<1>4. /\ s \in Seq(Argument) /\ Len(s) = Len(c.line) - 1
      /\ \A i \in 1 .. Len(c.line) - 1 : s[i] = c.line[i + 1]
  <2>1. PICK line : line = c.line
    OBVIOUS
  <2>2. /\ s \in Seq(Argument) /\ Len(s) = Len(line) - 1
        /\ \A i \in 1 .. Len(line) - 1 : s[i] = line[i + 1]
    BY <1>2, <2>1, TailFacts
  <2> QED
    BY <2>1, <2>2
<1>5. q \in Nat /\ 1 <= q /\ q < Len(s) /\ q + 1 = c.output - 1 /\ (q + 1) + 1 = c.output
  BY <1>2, <1>3, <1>4
<1>6. q \in 1 .. Len(c.line) - 1 /\ q + 1 \in 1 .. Len(c.line) - 1
  BY <1>2, <1>4, <1>5
<1>7. s[q] = DashO /\ s[q + 1] = t.output
  BY <1>1, <1>2, <1>4, <1>5, <1>6
<1>8. \A i \in 1 .. Len(s) : i \in 1 .. Len(c.line) - 1 /\ i + 1 \in 1 .. Len(c.line) /\ s[i] = c.line[i + 1]
  BY <1>2, <1>4
<1>9. \A i \in 1 .. Len(s) : s[i].kind = "-o" => i = q
  BY <1>2, <1>3, <1>8
<1>10. \A i \in 1 .. Len(s) : s[i].kind \in FileKinds => i = q + 1 \/ s[i] \in t.files
  <2>1. \A j \in 1 .. Len(c.line) : c.line[j].kind \in FileKinds => j = c.output \/ c.line[j] \in t.files
    BY <1>1 DEF Inputs, FilePlaces
  <2> QED
    BY <1>2, <1>3, <1>8, <2>1
<1>11. ASSUME NEW a \in t.files
       PROVE  \E i \in 1 .. Len(s) : s[i] = a
  <2>1. PICK j \in 1 .. Len(c.line) : c.line[j] = a /\ c.line[j].kind \in FileKinds
    BY <1>1 DEF Inputs, FilePlaces
  <2>2. "tool" \notin FileKinds
    BY DEF FileKinds
  <2>3. j # 1
    BY <1>2, <2>1, <2>2
  <2>4. PICK i : i = j - 1
    OBVIOUS
  <2>5. i \in 1 .. Len(c.line) - 1 /\ i \in 1 .. Len(s) /\ i + 1 = j
    BY <1>2, <1>4, <2>3, <2>4
  <2> QED
    BY <1>4, <2>1, <2>5
<1> QED
  BY <1>4, <1>5, <1>7, <1>9, <1>10, <1>11 DEF HoldsAt, HoldsFiles

(* The letters for ar come first: those of the line, or "r". *)
OptionIsSecond(c) ==
    \A i \in 1 .. Len(c.line) : c.line[i].kind # "word" /\ (c.line[i].kind = "option" => i = 2)
ToArchive(c, t) ==
    LET given == Tail(c.line)
        known == t.files \cup t.installed \cup {t.output}
        hasArchiveOption == \E i \in DOMAIN given : given[i] \notin known /\ IsWord(given[i])
    IN  (IF hasArchiveOption THEN <<>> ELSE <<Arg("option", "r")>>) \o Archived(given, t)

LEMMA OptionFirst ==
    ASSUME NEW t, WellBuilt(t), NEW c, NEW lev, Does(c, t.files, t.output, lev), OptionIsSecond(c),
           NEW a, a = ToArchive(c, t)
    PROVE  \E q \in Nat : Renewed(a, t, q) /\ a[1].kind = "option"
<1> DEFINE has == \E i \in DOMAIN Tail(c.line) :
                     Tail(c.line)[i] \notin t.files \cup t.installed \cup {t.output} /\ IsWord(Tail(c.line)[i])
<1>0. PICK given, r, known : given = Tail(c.line) /\ r = Archived(given, t) /\ known = t.files \cup t.installed \cup {t.output}
  OBVIOUS
<1>0a. has <=> \E i \in DOMAIN given : given[i] \notin known /\ IsWord(given[i])
  BY <1>0
<1>0b. a = (IF has THEN <<>> ELSE <<Arg("option", "r")>>) \o r
  BY <1>0 DEF ToArchive
<1> HIDE DEF has
<1>1. PICK q \in Nat : HoldsAt(given, t, q) /\ HoldsFiles(given, q, t.files)
  BY <1>0, GivenHolds
<1>2. /\ given \in Seq(Argument) /\ given[q + 1] = t.output /\ DOMAIN given = 1 .. Len(given) /\ Len(given) \in Nat
      /\ \A i \in 1 .. Len(given) : given[i].kind \in FileKinds => i = q + 1 \/ given[i] \in t.files
  BY <1>1 DEF HoldsAt, HoldsFiles
<1>3. Renews(given, r, t) /\ KeepsOptions(given, r)
  BY <1>0, <1>2, ArchiveArguments
<1>4. Renewed(r, t, q)
  BY <1>1, <1>3, RenewedBy
<1>5. r \in Seq(Argument)
  BY <1>4 DEF Renewed
<1>6. CASE has
  <2>1. PICK i \in 1 .. Len(given) : given[i] \notin known /\ IsWord(given[i])
    BY <1>0a, <1>2, <1>6
  <2>2. given[i].kind \notin FileKinds
    BY <1>0, <1>2, <2>1
  <2>3. given[i].kind = "option" \/ given[i].kind = "word"
    BY <2>1, <2>2 DEF IsWord
  <2>4. i + 1 \in 1 .. Len(c.line) /\ given[i] = c.line[i + 1]
    <3>1. PICK line : line = c.line
      OBVIOUS
    <3>2. line \in Seq(Argument) /\ Len(line) >= 1
      <4>1. Sound(c)
        BY DEF Does
      <4>2. c.line \in Seq(Argument) /\ Len(c.line) \in Nat /\ c.output \in 3 .. Len(c.line)
        BY <4>1, SoundFacts
      <4> QED
        BY <3>1, <4>2
    <3>3. /\ Len(given) = Len(line) - 1 /\ Len(line) \in Nat
          /\ \A k \in 1 .. Len(line) - 1 : given[k] = line[k + 1]
      BY <1>0, <3>1, <3>2, TailFacts
    <3> QED
      BY <3>1, <3>3
  <2>5. given[i].kind = "option" /\ i = 1
    <3>1. c.line[i + 1].kind # "word" /\ (c.line[i + 1].kind = "option" => i + 1 = 2)
      BY <2>4 DEF OptionIsSecond
    <3> QED
      BY <2>3, <2>4, <3>1
  <2>6. r[1].kind = "option"
    BY <1>3, <2>1, <2>5 DEF KeepsOptions
  <2>7. a = r
    <3>1. a = <<>> \o r
      BY <1>0b, <1>6
    <3> QED
      BY <1>5, <3>1, ConcatEmptySeq
  <2> QED
    BY <1>4, <2>6, <2>7
<1>7. CASE ~ has
  <2>1. PICK option : option = Arg("option", "r")
    OBVIOUS
  <2>2. option \in Argument /\ option.kind = "option"
    <3>1. "option" \in WrittenKinds /\ "r" \in WrittenNames
      BY DEF WrittenKinds, WrittenNames
    <3> QED
      BY <2>1, <3>1, Literal
  <2>3. PICK u : u = <<option>>
    OBVIOUS
  <2>4. Leads(u) /\ u[1].kind = "option" /\ Len(u) = 1
    <3>1. "option" \notin FileKinds \cup {"-o", "-O"}
      BY DEF FileKinds
    <3> QED
      BY <2>2, <2>3, <3>1 DEF Leads
  <2>5. PICK p : p = Len(u) + q
    OBVIOUS
  <2>6. Behind(a, p, u, r, q) /\ p \in Nat
    BY <1>0b, <1>1, <1>7, <2>1, <2>3, <2>4, <2>5 DEF Behind
  <2>4a. Leads(u)
    BY <2>4
  <2>6a. Behind(a, p, u, r, q)
    BY <2>6
  <2>7a. \A x, y : Behind(x, y, u, r, q) => Renewed(x, t, y) /\ x[1] = u[1]
    BY <1>4, <2>4a, RenewedBehind
  <2>7. Renewed(a, t, p) /\ a[1] = u[1]
    BY <2>6a, <2>7a
  <2> QED
    BY <2>4, <2>6, <2>7
<1> QED
  BY <1>6, <1>7
(* The output is moved behind the letters. *)
Begun(s, t) ==
    /\ s \in Seq(Argument) /\ Len(s) >= 3 /\ s[1].kind = "option" /\ s[2] = DashO /\ s[3] = NewOutput
    /\ \A i \in 4 .. Len(s) : /\ s[i].kind \notin {"-o", "-O"}
                              /\ s[i].kind \in FileKinds => s[i] \in NewFiles(t)
    /\ \A a \in NewFiles(t) : \E i \in 4 .. Len(s) : s[i] = a

Others(a, q) == SubSeq(a, 1, q - 1) \o SubSeq(a, q + 2, Len(a))
OthersOf(z, a, q) ==
    /\ z \in Seq(Argument) /\ Len(z) = Len(a) - 2
    /\ \A i \in 1 .. Len(a) - 2 : z[i] = IF i < q THEN a[i] ELSE a[i + 2]

LEMMA OthersFacts ==
    ASSUME NEW a \in Seq(Argument), NEW q \in Nat, 1 <= q, q < Len(a), NEW z, z = Others(a, q)
    PROVE  OthersOf(z, a, q)
<1>1. PICK n : n = Len(a)
  OBVIOUS
<1>2. n \in Nat /\ \A i \in 1 .. n : a[i] \in Argument
  BY <1>1
<1>3. PICK x, y : x = SubSeq(a, 1, q - 1) /\ y = SubSeq(a, q + 2, n)
  OBVIOUS
<1>4. /\ x \in Seq(Argument) /\ Len(x) = q - 1 /\ \A i \in 1 .. q - 1 : x[i] = a[i]
  BY <1>1, <1>2, <1>3
<1>5. /\ y \in Seq(Argument) /\ Len(y) = n - (q + 1)
  BY <1>1, <1>2, <1>3
<1>6. \A i \in 1 .. n - (q + 1) : y[i] = a[q + 1 + i]
  BY <1>1, <1>2, <1>3
<1>7. /\ z \in Seq(Argument) /\ Len(z) = Len(x) + Len(y)
      /\ \A i \in 1 .. Len(x) + Len(y) : z[i] = IF i <= Len(x) THEN x[i] ELSE y[i - Len(x)]
  <2>1. z = x \o y
    BY <1>1, <1>3 DEF Others
  <2>2. x \in Seq(Argument) /\ y \in Seq(Argument)
    BY <1>4, <1>5
  <2> QED
    BY <2>1, <2>2, ConcatProperties
<1>8. Len(z) = n - 2
  <2>1. Len(x) = q - 1 /\ Len(y) = n - (q + 1) /\ Len(z) = Len(x) + Len(y) /\ n \in Nat
    BY <1>2, <1>4, <1>5, <1>7
  <2> QED
    BY <2>1
<1>9. ASSUME NEW i \in 1 .. n - 2
      PROVE  z[i] = IF i < q THEN a[i] ELSE a[i + 2]
  <2>1. i \in 1 .. Len(x) + Len(y)
    BY <1>1, <1>2, <1>4, <1>5
  <2>2. CASE i < q
    <3>1. i <= Len(x) /\ i \in 1 .. q - 1
      BY <1>2, <1>4, <2>2
    <3> QED
      BY <1>4, <1>7, <2>1, <2>2, <3>1
  <2>3. CASE ~ (i < q)
    <3>1. PICK k : k = i - Len(x)
      OBVIOUS
    <3>2. ~ (i <= Len(x)) /\ k \in 1 .. n - (q + 1) /\ q + 1 + k = i + 2
      BY <1>1, <1>2, <1>4, <2>3, <3>1
    <3>3. z[i] = y[k] /\ y[k] = a[q + 1 + k]
      BY <1>6, <1>7, <2>1, <3>1, <3>2
    <3> QED
      BY <2>3, <3>2, <3>3
  <2> QED
    BY <2>2, <2>3
<1> QED
  BY <1>1, <1>7, <1>8, <1>9 DEF OthersOf

LEMMA MovedBegun ==
    ASSUME NEW t, WellBuilt(t), NEW a, NEW q, Renewed(a, t, q), a[1].kind = "option",
           NEW m, m = moveOutputOptionToBegin(a, NewOutput)
    PROVE  Begun(m, t)
<1>1. /\ a \in Seq(Argument) /\ q \in Nat /\ 1 <= q /\ q < Len(a) /\ a[q] = DashO /\ a[q + 1] = NewOutput
      /\ \A i \in 1 .. Len(a) : /\ a[i].kind = "-o" => i = q
                                /\ a[i].kind # "-O"
                                /\ a[i].kind \in FileKinds => i = q + 1 \/ a[i] \in NewFiles(t)
      /\ \A b \in NewFiles(t) : \E i \in 1 .. Len(a) : i # q + 1 /\ a[i] = b
  BY DEF Renewed
<1>2. /\ DashO \in Argument /\ DashO.kind = "-o" /\ NewOutput \in Argument
  BY Literals, TargetFacts
<1>3. q # 1 /\ q \in 1 .. Len(a) /\ Len(a) \in Nat /\ Len(a) >= 3
  BY <1>1, <1>2
<1>4. Find(a, {"-o"}) = q
  <2>1. a[q].kind \in {"-o"} /\ \A i \in 1 .. Len(a) : a[i].kind \in {"-o"} => q <= i
    BY <1>1, <1>2
  <2> QED
    BY <1>1, <1>3, <2>1, FindFacts
<1>5. PICK z : z = Others(a, q)
  OBVIOUS
<1>6. /\ z \in Seq(Argument) /\ Len(z) = Len(a) - 2
      /\ \A i \in 1 .. Len(a) - 2 : z[i] = IF i < q THEN a[i] ELSE a[i + 2]
  <2>1. a \in Seq(Argument) /\ q \in Nat /\ 1 <= q /\ q < Len(a)
    BY <1>1
  <2>2. OthersOf(z, a, q)
    BY <1>5, <2>1, OthersFacts
  <2> QED
    BY <2>2 DEF OthersOf
<1>7. PICK w : w = Tail(z)
  OBVIOUS
<1>8. w \in Seq(Argument) /\ Len(w) = Len(z) - 1 /\ \A i \in 1 .. Len(z) - 1 : w[i] = z[i + 1]
  <2>1. Len(z) >= 1
    BY <1>3, <1>6
  <2> QED
    BY <1>6, <1>7, <2>1, TailFacts
<1>9. PICK b : b = z[1]
  OBVIOUS
<1>10. b = a[1] /\ b \in Argument /\ b.kind = "option"
  <2>1. 1 \in 1 .. Len(a) - 2 /\ 1 < q
    BY <1>1, <1>3
  <2>2. z[1] = a[1]
    BY <1>6, <2>1
  <2> QED
    BY <1>1, <1>3, <1>9, <2>2
<1>11. PICK o : o = NewOutput
  OBVIOUS
<1>12. PICK u : u = <<b, DashO, o>>
  OBVIOUS
<1>13. u \in Seq(Argument) /\ Len(u) = 3 /\ u[1] = b /\ u[2] = DashO /\ u[3] = o
  BY <1>2, <1>10, <1>11, <1>12
<1>14. m = u \o w
  BY <1>4, <1>5, <1>7, <1>9, <1>11, <1>12 DEF moveOutputOptionToBegin, Others
<1>15. /\ m \in Seq(Argument) /\ Len(m) = Len(u) + Len(w)
       /\ \A i \in 1 .. Len(u) + Len(w) : m[i] = IF i <= Len(u) THEN u[i] ELSE w[i - Len(u)]
  <2>1. u \in Seq(Argument) /\ w \in Seq(Argument)
    BY <1>8, <1>13
  <2> QED
    BY <1>14, <2>1, ConcatProperties
<1>16. Len(m) = Len(a) /\ Len(w) = Len(a) - 3
  BY <1>3, <1>6, <1>8, <1>13, <1>15
<1>17. m[1] = b /\ m[2] = DashO /\ m[3] = NewOutput
  <2>1. \A i \in 1 .. 3 : m[i] = u[i]
    BY <1>3, <1>13, <1>15, <1>16
  <2>2. 1 \in 1 .. 3 /\ 2 \in 1 .. 3 /\ 3 \in 1 .. 3
    OBVIOUS
  <2> QED
    BY <1>11, <1>13, <2>1, <2>2
<1>18. ASSUME NEW i \in 4 .. Len(a)
       PROVE  m[i] = IF i - 2 < q THEN a[i - 2] ELSE a[i]
  <2>1. PICK k : k = i - 3
    OBVIOUS
  <2>2. /\ i \in 1 .. Len(u) + Len(w) /\ ~ (i <= Len(u)) /\ i - Len(u) = k
        /\ k \in 1 .. Len(z) - 1 /\ k + 1 \in 1 .. Len(a) - 2 /\ k + 1 = i - 2 /\ (k + 1) + 2 = i
    BY <1>3, <1>6, <1>13, <1>16, <2>1
  <2>3. m[i] = w[k]
    BY <1>15, <2>2
  <2>4. w[k] = z[k + 1]
    BY <1>8, <2>2
  <2>5. z[k + 1] = IF k + 1 < q THEN a[k + 1] ELSE a[(k + 1) + 2]
    BY <1>6, <2>2
  <2> QED
    BY <2>2, <2>3, <2>4, <2>5
<1>19. ASSUME NEW i \in 4 .. Len(a)
       PROVE  \E j \in 1 .. Len(a) : j # q /\ j # q + 1 /\ m[i] = a[j]
  <2>1. CASE i - 2 < q
    <3>1. PICK j : j = i - 2
      OBVIOUS
    <3>2. j \in 1 .. Len(a) /\ j # q /\ j # q + 1
      BY <1>1, <1>3, <2>1, <3>1
    <3>3. m[i] = a[j]
      BY <1>18, <2>1, <3>1
    <3> QED
      BY <3>2, <3>3
  <2>2. CASE ~ (i - 2 < q)
    <3>1. i \in 1 .. Len(a) /\ i # q /\ i # q + 1
      BY <1>1, <1>3, <2>2
    <3>2. m[i] = a[i]
      BY <1>18, <2>2
    <3> QED
      BY <3>1, <3>2
  <2> QED
    BY <2>1, <2>2
<1>20. ASSUME NEW j \in 1 .. Len(a), j # 1, j # q, j # q + 1
       PROVE  \E i \in 4 .. Len(a) : m[i] = a[j]
  <2>1. CASE j < q
    <3>1. PICK i : i = j + 2
      OBVIOUS
    <3>2. i \in 4 .. Len(a) /\ i - 2 < q /\ i - 2 = j
      BY <1>1, <1>3, <1>20, <2>1, <3>1
    <3>3. m[i] = a[j]
      BY <1>18, <3>2
    <3> QED
      BY <3>2, <3>3
  <2>2. CASE ~ (j < q)
    <3>1. j \in 4 .. Len(a) /\ ~ (j - 2 < q)
      BY <1>1, <1>3, <1>20, <2>2
    <3>2. m[j] = a[j]
      BY <1>18, <3>1
    <3> QED
      BY <3>1, <3>2
  <2> QED
    BY <2>1, <2>2
<1>21. ASSUME NEW i \in 4 .. Len(m)
       PROVE  /\ m[i].kind \notin {"-o", "-O"}
              /\ m[i].kind \in FileKinds => m[i] \in NewFiles(t)
  <2>1. PICK j \in 1 .. Len(a) : j # q /\ j # q + 1 /\ m[i] = a[j]
    BY <1>16, <1>19
  <2> QED
    BY <1>1, <2>1
<1>22. ASSUME NEW x \in NewFiles(t)
       PROVE  \E i \in 4 .. Len(m) : m[i] = x
  <2>1. PICK j \in 1 .. Len(a) : j # q + 1 /\ a[j] = x
    BY <1>1
  <2>2. \A f \in t.files : Made(t)[f].kind = "object" \/ Made(t)[f].kind = "static" \/ Made(t)[f].kind = "shared"
    BY TargetFacts
  <2>3. x.kind = "object" \/ x.kind = "static" \/ x.kind = "shared"
    BY <2>2 DEF NewFiles
  <2>4. j # 1 /\ j # q
    BY <1>1, <1>2, <2>1, <2>3
  <2> QED
    BY <1>16, <1>20, <2>1, <2>4
<1> QED
  BY <1>3, <1>10, <1>15, <1>16, <1>17, <1>21, <1>22 DEF Begun

-----------------------------------------------------------------------------
(* The archive command. *)

FirstAt(s, x) == SelectInSeq(s, LAMBDA a : a = x)

LEMMA FirstOf ==
    ASSUME NEW s \in Seq(Argument), NEW x, \E i \in 1 .. Len(s) : s[i] = x,
           NEW k, k = FirstAt(s, x)
    PROVE  k \in 1 .. Len(s) /\ s[k] = x
<1>1. PICK I : I = {i \in 1 .. Len(s) : s[i] = x}
  OBVIOUS
<1>2. k = IF I # {} THEN Min(I) ELSE 0
  BY <1>1 DEF FirstAt, SelectInSeq
<1>3. I \in SUBSET Nat /\ I # {}
  BY <1>1
<1>4. PICK n \in I : \A m \in I : n <= m
  BY <1>3, LeastNumber
<1>5. Min(I) = n
  BY <1>3, <1>4, MinIs
<1> QED
  BY <1>1, <1>2, <1>3, <1>4, <1>5

(* KLEE's own file changes places with the first file. *)
LEMMA KleeFirst ==
    ASSUME NEW t, WellBuilt(t), NEW s, Begun(s, t), NEW klee \in NewFiles(t),
           NEW r, r = moveKleeTemporaryFileArgumentToBegin(s, klee)
    PROVE  Begun(r, t) /\ Len(r) >= 4 /\ r[4] = klee
<1>1. /\ s \in Seq(Argument) /\ Len(s) >= 3 /\ s[1].kind = "option" /\ s[2] = DashO /\ s[3] = NewOutput
      /\ \A i \in 4 .. Len(s) : /\ s[i].kind \notin {"-o", "-O"}
                                /\ s[i].kind \in FileKinds => s[i] \in NewFiles(t)
      /\ \A a \in NewFiles(t) : \E i \in 4 .. Len(s) : s[i] = a
  BY DEF Begun
<1>2. Len(s) \in Nat /\ DOMAIN s = 1 .. Len(s)
  BY <1>1
<1>3. klee \in Argument /\ klee.kind \in FileKinds /\ klee.kind \notin {"program", "option", "-o", "-O"}
  <2>1. \A f \in t.files : Made(t)[f] \in Argument /\ Made(t)[f].kind \in {"object", "static", "shared"}
    BY TargetFacts
  <2>2. PICK f \in t.files : klee = Made(t)[f]
    BY DEF NewFiles
  <2>3. klee \in Argument /\ (klee.kind = "object" \/ klee.kind = "static" \/ klee.kind = "shared")
    BY <2>1, <2>2
  <2> QED
    BY <2>3 DEF FileKinds
<1>4. PICK k : k = FirstAt(s, klee)
  OBVIOUS
<1>5. k \in 1 .. Len(s) /\ s[k] = klee
  <2>1. \E i \in 1 .. Len(s) : s[i] = klee
    BY <1>1, <1>2
  <2> QED
    BY <1>1, <1>4, <2>1, FirstOf
<1>6. k # 1 /\ k # 2 /\ k # 3
  <2>1. DashO.kind = "-o" /\ NewOutput.kind = "program"
    BY Literals, TargetFacts
  <2> QED
    BY <1>1, <1>3, <1>5, <2>1
<1>7. k \in 4 .. Len(s) /\ 4 \in 4 .. Len(s) /\ 4 \in 1 .. Len(s) /\ k # 0
  BY <1>2, <1>5, <1>6
<1>8. PICK x : x = s[4]
  OBVIOUS
<1>9. x \in Argument
  BY <1>1, <1>7, <1>8
<1>10. r = [s EXCEPT ![4] = klee, ![k] = x]
  BY <1>4, <1>7, <1>8 DEF moveKleeTemporaryFileArgumentToBegin, FirstAt
<1>11. r \in Seq(Argument) /\ Len(r) = Len(s) /\ \A i \in 1 .. Len(s) : r[i] = IF i = k THEN x ELSE IF i = 4 THEN klee ELSE s[i]
  BY <1>1, <1>2, <1>3, <1>5, <1>7, <1>9, <1>10
<1>12. r[4] = klee
  BY <1>5, <1>7, <1>8, <1>11
<1>13. r[1] = s[1] /\ r[2] = s[2] /\ r[3] = s[3]
  <2>1. 1 \in 1 .. Len(s) /\ 2 \in 1 .. Len(s) /\ 3 \in 1 .. Len(s)
    BY <1>1, <1>2
  <2> QED
    BY <1>6, <1>11, <2>1
<1>14. \A i \in 4 .. Len(r) : i \in 1 .. Len(s) /\ \E j \in 4 .. Len(s) : r[i] = s[j]
  BY <1>2, <1>5, <1>7, <1>8, <1>11
<1>15. ASSUME NEW a \in NewFiles(t)
       PROVE  \E i \in 4 .. Len(r) : r[i] = a
  <2>1. PICK i \in 4 .. Len(s) : s[i] = a
    BY <1>1
  <2>2. CASE i = 4
    <3>1. r[k] = a
      BY <1>5, <1>8, <1>11, <2>1, <2>2
    <3> QED
      BY <1>7, <1>11, <3>1
  <2>3. CASE i = k
    <3>1. r[4] = a
      BY <1>5, <1>12, <2>1, <2>3
    <3> QED
      BY <1>7, <1>11, <3>1
  <2>4. CASE i # 4 /\ i # k
    <3>1. i \in 1 .. Len(s)
      BY <1>2, <2>1
    <3>2. r[i] = a
      BY <1>11, <2>1, <2>4, <3>1
    <3> QED
      BY <1>11, <2>1, <3>2
  <2> QED
    BY <2>2, <2>3, <2>4
<1>16. Begun(r, t)
  <2>1. \A i \in 4 .. Len(r) : /\ r[i].kind \notin {"-o", "-O"}
                               /\ r[i].kind \in FileKinds => r[i] \in NewFiles(t)
    BY <1>1, <1>14
  <2> QED
    BY <1>1, <1>11, <1>13, <1>15, <2>1 DEF Begun
<1> QED
  BY <1>2, <1>7, <1>11, <1>12, <1>16

(* "ar" stands before the line, and "--plugin" behind it. *)
ArchiveLineOf(s) == <<Arg("tool", "ar")>> \o s \o <<Flag("--plugin")>>

LEMMA ArchiveWritten ==
    ASSUME NEW t, WellBuilt(t), NEW s, Begun(s, t), NEW r, r = ArchiveLineOf(s)
    PROVE  Renewed(r, t, 3) /\ r[1].kind = "tool" /\ (Len(s) >= 4 => r[5] = s[4] /\ 5 \in 1 .. Len(r))
<1>1. /\ s \in Seq(Argument) /\ Len(s) >= 3 /\ s[1].kind = "option" /\ s[2] = DashO /\ s[3] = NewOutput
      /\ \A i \in 4 .. Len(s) : /\ s[i].kind \notin {"-o", "-O"}
                                /\ s[i].kind \in FileKinds => s[i] \in NewFiles(t)
      /\ \A a \in NewFiles(t) : \E i \in 4 .. Len(s) : s[i] = a
  BY DEF Begun
<1>2. PICK a, b : a = Arg("tool", "ar") /\ b = Flag("--plugin")
  OBVIOUS
<1>3. a \in Argument /\ a.kind = "tool" /\ b \in Argument /\ b.kind = "flag"
  <2>1. "tool" \in WrittenKinds /\ "ar" \in WrittenNames /\ "--plugin" \in WrittenNames
    BY DEF WrittenKinds, WrittenNames
  <2> QED
    BY <1>2, <2>1, Literals
<1>4. PICK u, w : u = <<a>> /\ w = <<b>>
  OBVIOUS
<1>5. u \in Seq(Argument) /\ Len(u) = 1 /\ u[1] = a /\ w \in Seq(Argument) /\ Len(w) = 1 /\ w[1] = b
  BY <1>3, <1>4
<1>6. /\ r \in Seq(Argument) /\ Len(r) = Len(s) + 2 /\ Len(s) \in Nat
      /\ r[1] = a /\ r[Len(s) + 2] = b
      /\ \A i \in 1 .. Len(s) : r[1 + i] = s[i]
  <2>1. u \in Seq(Argument) /\ s \in Seq(Argument) /\ w \in Seq(Argument)
    BY <1>1, <1>5
  <2>2. PICK whole : whole = u \o s \o w
    OBVIOUS
  <2>3. /\ whole \in Seq(Argument) /\ Len(whole) = Len(u) + Len(s) + Len(w)
        /\ \A i \in 1 .. Len(u) : whole[i] = u[i]
        /\ \A i \in 1 .. Len(s) : whole[Len(u) + i] = s[i]
        /\ \A i \in 1 .. Len(w) : whole[Len(u) + Len(s) + i] = w[i]
    BY <2>1, <2>2, Joined3
  <2>4. whole = r
    BY <1>2, <1>4, <2>2 DEF ArchiveLineOf
  <2>5. Len(s) \in Nat /\ 1 + Len(s) + 1 = Len(s) + 2 /\ 1 \in 1 .. Len(u) /\ 1 \in 1 .. Len(w)
    BY <1>1, <1>5
  <2>6. whole[1] = a
    BY <1>5, <2>3, <2>5
  <2>7. whole[Len(s) + 2] = b
    <3>1. whole[Len(u) + Len(s) + 1] = w[1]
      BY <2>3, <2>5
    <3> QED
      BY <1>5, <2>5, <3>1
  <2>8. Len(whole) = Len(s) + 2
    <3>1. Len(whole) = 1 + Len(s) + 1
      BY <1>5, <2>3
    <3> QED
      BY <2>5, <3>1
  <2>9. \A i \in 1 .. Len(s) : whole[1 + i] = s[i]
    BY <1>5, <2>3
  <2> QED
    BY <2>3, <2>4, <2>5, <2>6, <2>7, <2>8, <2>9
<1>7. r[2] = s[1] /\ r[3] = s[2] /\ r[4] = s[3] /\ (Len(s) >= 4 => r[5] = s[4])
  <2>1. \A i \in 1 .. Len(s) : \A j : j = 1 + i => r[j] = s[i]
    BY <1>6
  <2>2. 1 \in 1 .. Len(s) /\ 2 \in 1 .. Len(s) /\ 3 \in 1 .. Len(s) /\ (Len(s) >= 4 => 4 \in 1 .. Len(s))
    BY <1>1, <1>6
  <2>3. 2 = 1 + 1 /\ 3 = 1 + 2 /\ 4 = 1 + 3 /\ 5 = 1 + 4
    OBVIOUS
  <2> QED
    BY <2>1, <2>2, <2>3
<1>8. \A j \in 1 .. Len(r) : \/ j = 1 \/ j = 2 \/ j = 3 \/ j = 4 \/ j = Len(s) + 2
                             \/ \E i \in 4 .. Len(s) : r[j] = s[i]
  <2>1. ASSUME NEW j \in 5 .. Len(s) + 1
        PROVE  \E i \in 4 .. Len(s) : r[j] = s[i]
    <3>1. PICK i : i = j - 1
      OBVIOUS
    <3>2. i \in 4 .. Len(s) /\ i \in 1 .. Len(s) /\ 1 + i = j
      BY <1>6, <2>1, <3>1
    <3> QED
      BY <1>6, <3>2
  <2>2. \A j \in 1 .. Len(r) : j = 1 \/ j = 2 \/ j = 3 \/ j = 4 \/ j = Len(s) + 2 \/ j \in 5 .. Len(s) + 1
    BY <1>1, <1>6
  <2> QED
    BY <2>1, <2>2
<1>9. DashO.kind = "-o" /\ NewOutput.kind = "program"
  BY Literals, TargetFacts
<1>10. ASSUME NEW j \in 1 .. Len(r)
       PROVE  /\ r[j].kind = "-o" => j = 3
              /\ r[j].kind # "-O"
              /\ r[j].kind \in FileKinds => j = 4 \/ r[j] \in NewFiles(t)
  <2>1. /\ "-o" \notin FileKinds /\ "-O" \notin FileKinds /\ "tool" \notin FileKinds /\ "flag" \notin FileKinds
        /\ "option" \notin FileKinds
    BY DEF FileKinds
  <2>2. CASE j = 1
    BY <1>3, <1>6, <2>1, <2>2
  <2>3. CASE j = 2
    BY <1>1, <1>7, <2>1, <2>3
  <2>4. CASE j = 3
    BY <1>1, <1>7, <1>9, <2>1, <2>4
  <2>5. CASE j = 4
    BY <1>1, <1>7, <1>9, <2>1, <2>5
  <2>6. CASE j = Len(s) + 2
    BY <1>3, <1>6, <2>1, <2>6
  <2>7. CASE \E i \in 4 .. Len(s) : r[j] = s[i]
    BY <1>1, <2>7
  <2> QED
    BY <1>8, <2>2, <2>3, <2>4, <2>5, <2>6, <2>7
<1>11. ASSUME NEW x \in NewFiles(t)
       PROVE  \E j \in 1 .. Len(r) : j # 4 /\ r[j] = x
  <2>1. PICK i \in 4 .. Len(s) : s[i] = x
    BY <1>1
  <2>2. PICK j : j = 1 + i
    OBVIOUS
  <2>3. i \in 1 .. Len(s) /\ j \in 1 .. Len(r) /\ j # 4
    BY <1>6, <2>1, <2>2
  <2>4. r[j] = x
    BY <1>6, <2>1, <2>2, <2>3
  <2> QED
    BY <2>3, <2>4
<1>12. 3 < Len(r) /\ 3 \in Nat /\ 1 <= 3 /\ 3 + 1 = 4 /\ (Len(s) >= 4 => 5 \in 1 .. Len(r))
  BY <1>1, <1>6
<1>13. r[3] = DashO /\ r[4] = NewOutput
  BY <1>1, <1>7
<1>14. Renewed(r, t, 3)
  BY <1>6, <1>10, <1>11, <1>12, <1>13 DEF Renewed
<1> QED
  BY <1>3, <1>6, <1>7, <1>12, <1>14

LEMMA ArchiveCommandDoes ==
    ASSUME NEW t, WellBuilt(t), NEW c, NEW lev, Does(c, t.files, t.output, lev),
           OptionIsSecond(c), NEW klee \in NewFiles(t),
           NEW d, d = getArchiveCommands(c, t, Made(t), NewOutput, klee)
    PROVE  (\E level : Does(d, NewFiles(t), NewOutput, level)) /\ d.line[5] = klee
<1>3. PICK a : a = ToArchive(c, t)
  OBVIOUS
<1>4. \E q \in Nat : Renewed(a, t, q) /\ a[1].kind = "option"
  BY <1>3, OptionFirst
<1>5. PICK m : m = moveOutputOptionToBegin(a, NewOutput)
  OBVIOUS
<1>6. Begun(m, t)
  BY <1>4, <1>5, MovedBegun
<1>7. PICK s : s = moveKleeTemporaryFileArgumentToBegin(m, klee)
  OBVIOUS
<1>8. Begun(s, t) /\ Len(s) >= 4 /\ s[4] = klee
  BY <1>6, <1>7, KleeFirst
<1>9. PICK l : l = ArchiveLineOf(s)
  OBVIOUS
<1>10. PICK q : q = 3
  OBVIOUS
<1>11. Renewed(l, t, q) /\ l[1].kind = "tool" /\ l[5] = klee /\ 5 \in 1 .. Len(l) /\ 5 # q + 1
  <2>1. Renewed(l, t, 3) /\ l[1].kind = "tool" /\ (Len(s) >= 4 => l[5] = s[4] /\ 5 \in 1 .. Len(l))
    BY <1>8, <1>9, ArchiveWritten
  <2> QED
    BY <1>8, <1>10, <2>1
<1>12. d = setOutput(LinkCommand(l), NewOutput)
  BY <1>3, <1>5, <1>7, <1>9 DEF getArchiveCommands, ToArchive, Archived, ArchiveLineOf
<1>13. (\E level : Does(d, NewFiles(t), NewOutput, level)) /\ \A i \in 1 .. Len(l) : i # q + 1 => d.line[i] = l[i]
  BY <1>11, <1>12, RenewedDoes
<1> QED
  BY <1>11, <1>13

-----------------------------------------------------------------------------
(* All link lines. *)

LEMMA LinkLineIsRight ==
    ASSUME NEW l \in LinkLines
    PROVE  LinkLineDoesItsTask(l)
<1>1. PICK t, c : t = l.target /\ c = ReadLinkLine(l.line, TRUE, l.target.files)
  OBVIOUS
<1>2. WellBuilt(t)
  BY <1>1, LinkLinesAssumption
<1>3. ReadOf(c, l.line, t)
  BY <1>1, ReadLinkLineReads
<1>4. PICK lev : Does(c, t.files, t.output, lev)
  BY <1>3 DEF ReadOf
<1>5. /\ ~ isArchiveCommand(c) => NoStray(c.line) /\ Named(c.line)
      /\ StaticComesLast(l.line) => StaticComesLast(c.line)
      /\ OptionIsSecond(c)
  BY <1>3 DEF ReadOf, OptionIsSecond
<1>6. PICK isExecutable : isExecutable = (t.output.kind = "program")
  OBVIOUS
<1>7. isExecutable \in BOOLEAN
  BY <1>6
<1>8. PICK new, libraries, stubs : /\ new = NewFiles(t) /\ libraries = NewLibraries(t)
                                   /\ stubs = IF ~ isArchiveCommand(c) /\ isSharedLibraryCommand(c) THEN {Stubs} ELSE {}
  OBVIOUS
<1>9. PICK native, program, executable, archive, test :
          /\ native = NativeLink(c, t, Made(t), NewOutput, isExecutable, TRUE)
          /\ program = NativeLink(c, t, Made(t), NewOutput, TRUE, FALSE)
          /\ executable = getLinkActionsForExecutable(c, t, Made(t), NewOutput)
          /\ archive = getArchiveCommands(c, t, Made(t), NewOutput, NewFile(ObjectFile))
          /\ test = linkTest(c, t, Made(t), TestFiles, NewOutput)
  OBVIOUS
<1>10. ASSUME StaticComesLast(l.line)
       PROVE  Links(native, new \cup stubs) /\ (~ isArchiveCommand(c) => Plain(native.line))
  <2>1. StaticComesLast(c.line)
    BY <1>5, <1>10
  <2>2. CASE isArchiveCommand(c)
    <3>1. Does(native, NewFiles(t), NewOutput, lev)
      BY <1>2, <1>4, <1>9, <2>1, <2>2, ArchiveDoes
    <3>2. Links(native, NewFiles(t))
      BY <3>1, DoesLink
    <3>3. new \cup stubs = NewFiles(t)
      BY <1>8, <2>2
    <3> QED
      BY <2>2, <3>2, <3>3
  <2>3. CASE ~ isArchiveCommand(c)
    <3>1. PICK more : more = IF isSharedLibraryCommand(c) THEN {Stubs} ELSE {}
      OBVIOUS
    <3>2. Does(native, NewFiles(t) \cup more, NewOutput, Nought) /\ NoSoname(native.line)
      BY <1>2, <1>4, <1>5, <1>7, <1>9, <2>1, <2>3, <3>1, LibraryDoes
    <3>3. PICK ins, out : ins = NewFiles(t) \cup more /\ out = NewOutput
      OBVIOUS
    <3>4. Does(native, ins, NewOutput, Nought) /\ Does(native, ins, out, Nought)
      BY <3>2, <3>3
    <3>5. Links(native, ins)
      BY <3>4, DoesLink
    <3>6. Plain(native.line)
      BY <3>2, <3>4, DoesPlainly
    <3>7. ins = new \cup stubs
      BY <1>8, <2>3, <3>1, <3>3
    <3> QED
      BY <3>5, <3>6, <3>7
  <2> QED
    BY <2>2, <2>3
<1>11. isExecutable => Links(executable, new)
  <2>1. PICK level : Does(executable, NewFiles(t), NewOutput, level)
    BY <1>2, <1>4, <1>9, ExecutableDoes
  <2> QED
    BY <1>8, <2>1, DoesLink
<1>12. ASSUME isExecutable, StaticComesLast(l.line)
       PROVE  Links(program, new)
  <2>1. StaticComesLast(c.line)
    BY <1>5, <1>12
  <2>2. Does(program, NewFiles(t), NewOutput, lev)
    <3>1. CASE isArchiveCommand(c)
      BY <1>2, <1>4, <1>9, <2>1, <3>1, ArchiveDoes
    <3>2. CASE ~ isArchiveCommand(c)
      BY <1>2, <1>4, <1>9, <2>1, <3>2, ProgramDoes
    <3> QED
      BY <3>1, <3>2
  <2> QED
    BY <1>8, <2>2, DoesLink
<1>13. Links(archive, new) /\ archive.line[5] = NewFile(ObjectFile)
  <2>1. PICK klee : klee = NewFile(ObjectFile)
    OBVIOUS
  <2>2. klee \in NewFiles(t)
    <3>1. ObjectFile \in t.files
      BY <1>2 DEF WellBuilt
    <3>2. Made(t)[ObjectFile] = klee
      BY <2>1, <3>1 DEF Made
    <3> QED
      BY <3>1, <3>2 DEF NewFiles
  <2>3. (\E level : Does(archive, NewFiles(t), NewOutput, level)) /\ archive.line[5] = klee
    BY <1>2, <1>4, <1>5, <1>9, <2>1, <2>2, ArchiveCommandDoes
  <2>4. Links(archive, NewFiles(t))
    BY <2>3, DoesLink
  <2> QED
    BY <1>8, <2>1, <2>3, <2>4
<1>14. ASSUME ~ isArchiveCommand(c)
       PROVE  Links(test, Range(TestFiles) \cup libraries) /\ Plain(test.line)
  <2>1. NoStray(c.line) /\ Named(c.line)
    BY <1>5, <1>14
  <2>2. Does(test, Range(TestFiles) \cup NewLibraries(t), NewOutput, Nought) /\ NoSoname(test.line)
    BY <1>2, <1>4, <1>9, <2>1, TestDoes
  <2>3. PICK ins, out : ins = Range(TestFiles) \cup NewLibraries(t) /\ out = NewOutput
    OBVIOUS
  <2>4. Does(test, ins, NewOutput, Nought) /\ Does(test, ins, out, Nought)
    BY <2>2, <2>3
  <2>5. Links(test, ins)
    BY <2>4, DoesLink
  <2>6. Plain(test.line)
    BY <2>2, <2>4, DoesPlainly
  <2> QED
    BY <1>8, <2>3, <2>5, <2>6
<1>15. LinkDoesItsTask(c, t, StaticComesLast(l.line))
  BY <1>6, <1>8, <1>9, <1>10, <1>11, <1>12, <1>13, <1>14 DEF LinkDoesItsTask
<1> QED
  BY <1>1, <1>15 DEF LinkLineDoesItsTask

(* Whatever line links a target, the commands the server makes of it (native,  *)
(* for the program and the archive KLEE is given, for the tests) link what was  *)
(* built anew of its files and nothing else, to the new output: LinkCommand,    *)
(* Linker, NativeMakefilePrinter.                                               *)
THEOREM LinkLinesAreRight == LinkLinesDoTheirTask
BY LinkLineIsRight DEF LinkLinesDoTheirTask
=============================================================================
