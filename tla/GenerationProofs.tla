-------------------------- MODULE GenerationProofs --------------------------
(***************************************************************************)
(* Proofs about Generation for any files, functions and number of requests.*)
(*                                                                         *)
(* Along a request: KLEE's output and the cases made of it are of this     *)
(* request once runKlee has removed the old ones (OfRequest); nothing is   *)
(* written before the link, whose outcome agrees with what the files say   *)
(* of themselves (Linking); a file leaves the loop when it was written, or *)
(* was not linked (Settled); and a function leaves a batch with tests or a *)
(* comment (Accounted).                                                    *)
(***************************************************************************)
EXTENDS Generation, TLAPS

Running == stage \in {"klee", "run", "write"}

(* What is known of the request, and of the file it is at. *)
Position ==
    /\ \A f \in Requested : tests[f].methods \subseteq Functions[f]
    /\ stage # "idle" => request # 0
    /\ stage \in {"run", "write"} => file \in todo /\ tests[file].presented
    /\ stage = "write" => batch = {}

OfRequest ==
    /\ Running => \A o \in kleeOut : o.by = request
    /\ \A f \in Requested : \A c \in tests[f].cases : c[2] = request

NotYetWritten ==
    /\ \A f \in Files : testFiles[f].by <= request
    /\ stage \in {"fetch", "build", "link", "collect"} => \A f \in Requested : ~ Written(f)

(* When the link fails in a batch there is nothing to run. *)
Linking ==
    /\ stage = "collect" \/ Running =>
          \A f \in Requested : /\ bitcode[f] = "linked" => tests[f].presented
                               /\ kind \notin Batched => bitcode[f] # "none"
    /\ stage = "collect" /\ kind \in Batched =>
          \/ \A f \in Requested : tests[f].presented => bitcode[f] = "linked"
          \/ \A f \in Requested : bitcode[f] = "none"
    /\ Running /\ kind \in Batched =>
          \A f \in Requested : tests[f].presented => bitcode[f] = "linked"

Settled ==
    /\ Running => \A f \in Requested \ todo : bitcode[f] = "linked" => Written(f)
    /\ status = "OK" => stage = "idle"

(* One late file, after which the cancellation is seen. *)
Late == lateWrites = 0 \/ (lateWrites = 1 /\ cancelled /\ stage \in {"klee", "idle"})

Settles(m) ==
    \/ kind = "line"
    \/ m \in tests[file].commented \/ \E r \in 1..MaxRequests : <<m, r>> \in tests[file].cases
    \/ \A o \in kleeOut : o.file # file \/ o.method # m

Accounted ==
    /\ stage \in {"build", "link", "collect"} \/ Running =>
          kind = "line" \/ \A f \in Requested : Functions[f] \subseteq tests[f].methods \cup tests[f].commented
    /\ stage \in {"link", "collect"} \/ Running =>
          \A f \in Requested : tests[f].methods \ tests[f].correct \subseteq tests[f].commented
    /\ stage \in {"run", "write"} => \A m \in Functions[file] \ batch : Settles(m)

(* The inductive invariant. *)
GenInv ==
    /\ GenTypeOK
    /\ Position
    /\ OfRequest
    /\ TestsAreOfTheirRequest
    /\ NotYetWritten
    /\ UnlinkedKeepsItsTests
    /\ Linking
    /\ Settled
    /\ NoFileIsForgotten
    /\ Late
    /\ Accounted
-----------------------------------------------------------------------------
LEMMA InitGenInv == GenInit => GenInv
<1> SUFFICES ASSUME GenInit
             PROVE  GenInv
  OBVIOUS
<1> USE DEF GenInit
<1>1. GenTypeOK
  <2>1. tests \in [DOMAIN tests -> Tests] /\ DOMAIN tests = {}
    OBVIOUS
  <2>2. testFiles \in [Files -> TestFile]
    BY GenerationAssumption DEF TestFile
  <2>5. cancelled \in BOOLEAN
    OBVIOUS
  <2>3. /\ request \in 0..MaxRequests /\ lateWrites \in Nat
        /\ bitcode \in [Files -> {"none", "empty", "linked"}]
        /\ batch \subseteq Functions[file] /\ kleeOut \subseteq Output
    BY GenerationAssumption
  <2>4. todo \subseteq DOMAIN tests /\ kind \in Kinds /\ file \in Files
    BY <2>1
  <2> QED
    BY <2>1, <2>2, <2>3, <2>4, <2>5 DEF GenTypeOK
<1>2. Requested = {}
  BY DEF Requested
<1>3. Position /\ OfRequest /\ TestsAreOfTheirRequest
  BY <1>2 DEF Position, OfRequest, Running, TestsAreOfTheirRequest
<1>4. NotYetWritten /\ UnlinkedKeepsItsTests /\ Linking
  BY <1>2 DEF NotYetWritten, UnlinkedKeepsItsTests, Linking, Running
<1>5. Settled /\ NoFileIsForgotten /\ Late /\ Accounted
  BY <1>2 DEF Settled, NoFileIsForgotten, Late, Accounted, Running
<1> QED
  BY <1>1, <1>3, <1>4, <1>5 DEF GenInv

(***************************************************************************)
(* The steps that only end the request, or note its cancellation.          *)
(***************************************************************************)
LEMMA QuietStep ==
    ASSUME GenInv,
           UNCHANGED <<request, kind, tests, todo, bitcode, batch, file, testFiles, kleeOut, lateWrites>>,
           \/ stage' = "idle" /\ status' \in {"FAILED", "CANCELLED", "crashed"} /\ UNCHANGED cancelled
           \/ stage' = stage /\ status' = status /\ (cancelled' = TRUE \/ UNCHANGED cancelled)
    PROVE  GenInv'
<1> USE DEF GenInv
<1>0. UNCHANGED Requested /\ \A f : UNCHANGED Written(f)
  BY DEF Requested, Written
<1>1. GenTypeOK'
  <2>1. cancelled' \in BOOLEAN
    BY DEF GenTypeOK
  <2>2. /\ stage' \in {"idle", "fetch", "build", "link", "collect", "klee", "run", "write"}
        /\ status' \in {"none", "OK", "FAILED", "CANCELLED", "crashed"}
    BY DEF GenTypeOK
  <2> QED
    BY <2>1, <2>2 DEF GenTypeOK
<1>2. Position' /\ OfRequest' /\ TestsAreOfTheirRequest'
  BY <1>0 DEF Position, OfRequest, Running, TestsAreOfTheirRequest
<1>3. NotYetWritten' /\ UnlinkedKeepsItsTests' /\ Linking'
  BY <1>0 DEF NotYetWritten, UnlinkedKeepsItsTests, Linking, Running
<1>4. Settled' /\ NoFileIsForgotten' /\ Accounted'
  BY <1>0 DEF Settled, NoFileIsForgotten, Accounted, Settles, Running
<1>5. Late'
  BY DEF Late
<1> QED
  BY <1>1, <1>2, <1>3, <1>4, <1>5

LEMMA StartInv ==
    ASSUME GenInv, NEW k \in Kinds, NEW fs \in SUBSET Files, Start(k, fs)
    PROVE  GenInv'
<1> USE DEF GenInv, Start
<1>0. Requested' = fs /\ NewTests \in Tests /\ \A f \in fs : tests'[f] = NewTests
  BY DEF Requested, NewTests, Tests
<1>1. GenTypeOK'
  <2>1. request' \in 0..MaxRequests /\ lateWrites' \in Nat
    BY GenerationAssumption DEF GenTypeOK
  <2>2. tests' \in [DOMAIN tests' -> Tests] /\ DOMAIN tests' \subseteq Files
    BY <1>0
  <2> QED
    BY <2>1, <2>2 DEF GenTypeOK
<1>2. \A f \in Files : testFiles'[f].by <= request' /\ testFiles'[f].by # request'
  BY GenerationAssumption DEF GenTypeOK, NotYetWritten, TestFile
<1>3. \A f \in fs : ~ Written(f)'
  BY <1>2 DEF Written
<1>4. Position' /\ OfRequest' /\ TestsAreOfTheirRequest'
  BY <1>0, GenerationAssumption DEF Position, OfRequest, Running, TestsAreOfTheirRequest, NewTests, GenTypeOK
<1>5. NotYetWritten' /\ UnlinkedKeepsItsTests' /\ Linking'
  BY <1>0, <1>2, <1>3 DEF NotYetWritten, UnlinkedKeepsItsTests, Linking, Running
<1>6. Settled' /\ NoFileIsForgotten' /\ Late' /\ Accounted'
  BY <1>0 DEF Settled, NoFileIsForgotten, Late, Accounted, Running
<1> QED
  BY <1>1, <1>4, <1>5, <1>6
-----------------------------------------------------------------------------
(***************************************************************************)
(* The steps that change what is known of the functions of the files, up   *)
(* to the link: nothing was written, and no file has test cases.           *)
(***************************************************************************)
LEMMA EarlyStep ==
    ASSUME GenInv, stage \in {"fetch", "build", "link"}, stage' \in {"build", "link", "collect"},
           UNCHANGED <<request, kind, status, cancelled, batch, file, testFiles, kleeOut, lateWrites>>,
           DOMAIN tests' = Requested, todo' \subseteq Requested, tests' \in [Requested -> Tests],
           bitcode' \in [Files -> {"none", "empty", "linked"}],
           \A f \in Requested : tests'[f].methods \subseteq Functions[f] /\ tests'[f].cases \subseteq tests[f].cases,
           Linking', Accounted'
    PROVE  GenInv'
<1> USE DEF GenInv
<1>0. Requested' = Requested /\ \A f : Written(f)' = Written(f)
  BY DEF Requested, Written
<1>1. GenTypeOK'
  BY DEF GenTypeOK, Requested
<1>2. Position' /\ OfRequest' /\ TestsAreOfTheirRequest'
  BY <1>0 DEF Position, OfRequest, Running, TestsAreOfTheirRequest
<1>3. NotYetWritten' /\ UnlinkedKeepsItsTests'
  BY <1>0 DEF NotYetWritten, UnlinkedKeepsItsTests
<1>4. Settled' /\ NoFileIsForgotten' /\ Late'
  BY <1>0 DEF Settled, NoFileIsForgotten, Late, Running
<1> QED
  BY <1>1, <1>2, <1>3, <1>4

LEMMA PrepareInv ==
    ASSUME GenInv, Prepare
    PROVE  GenInv'
<1> USE DEF GenInv, Prepare, Disk
<1>1. PICK asked \in [Requested -> SUBSET Methods], dropped \in [Requested -> SUBSET Methods] :
          /\ \A f \in Requested :
                /\ IF kind = "line" THEN asked[f] \in {{m} : m \in Functions[f]}
                                    ELSE asked[f] = Functions[f]
                /\ dropped[f] \subseteq asked[f]
          /\ tests' = [f \in Requested |->
                [NewTests EXCEPT !.methods = asked[f] \ dropped[f], !.commented = dropped[f]]]
  OBVIOUS
<1>2. ASSUME NEW f \in Requested
      PROVE  /\ tests'[f] \in Tests
             /\ tests'[f].methods = asked[f] \ dropped[f] /\ tests'[f].commented = dropped[f]
             /\ tests'[f].cases = {} /\ asked[f] \subseteq Functions[f]
  <2>1. asked[f] \in SUBSET Methods /\ dropped[f] \in SUBSET Methods
    BY <1>1
  <2>2. asked[f] \subseteq Functions[f]
    <3>1. CASE kind = "line"
      <4>1. PICK m \in Functions[f] : asked[f] = {m}
        BY <1>1, <3>1
      <4> QED
        BY <4>1
    <3>2. CASE kind # "line"
      BY <1>1, <3>2
    <3> QED
      BY <3>1, <3>2
  <2> QED
    BY <1>1, <2>1, <2>2 DEF NewTests, Tests
<1>3. DOMAIN tests' = Requested /\ tests' \in [Requested -> Tests] /\ Requested' = Requested
  BY <1>1, <1>2 DEF Requested
<1>4. Linking'
  BY DEF Linking, Running
<1>5. Accounted'
  <2>1. ASSUME kind # "line", NEW f \in Requested
        PROVE  Functions[f] \subseteq tests'[f].methods \cup tests'[f].commented
    <3>1. asked[f] = Functions[f]
      BY <1>1, <2>1
    <3> QED
      BY <1>2, <3>1
  <2> QED
    BY <1>3, <2>1 DEF Accounted, Running
<1>6. \A f \in Requested : tests'[f].methods \subseteq Functions[f] /\ tests'[f].cases \subseteq tests[f].cases
  BY <1>2
<1>7. bitcode' \in [Files -> {"none", "empty", "linked"}]
  BY DEF GenTypeOK
<1> QED
  BY <1>3, <1>4, <1>5, <1>6, <1>7, EarlyStep

LEMMA BuildKleeFileInv ==
    ASSUME GenInv, NEW f \in Files, BuildKleeFile(f)
    PROVE  GenInv'
<1> USE DEF GenInv, BuildKleeFile, Disk
<1>0. f \in Requested /\ tests \in [Requested -> Tests] /\ DOMAIN tests = Requested
  BY DEF GenTypeOK, Requested
<1>1. PICK correct \in SUBSET tests[f].methods : tests' = [tests EXCEPT ![f] = [@ EXCEPT !.correct = correct]]
  OBVIOUS
<1>2. [tests[f] EXCEPT !.correct = correct] \in Tests
  BY <1>0 DEF Tests
<1>3. ASSUME NEW g \in Requested
      PROVE  /\ tests'[g].methods = tests[g].methods /\ tests'[g].cases = tests[g].cases
             /\ tests'[g].commented = tests[g].commented
  BY <1>0, <1>1 DEF Tests
<1>4. DOMAIN tests' = Requested /\ tests' \in [Requested -> Tests] /\ Requested' = Requested
  BY <1>0, <1>1, <1>2 DEF Requested
<1>5. Linking'
  BY DEF Linking, Running
<1>6. Accounted'
  BY <1>3, <1>4 DEF Accounted, Running
<1> QED
  BY <1>3, <1>4, <1>5, <1>6, EarlyStep DEF GenTypeOK, Position, Requested

LEMMA HandleFailedFunctionsInv ==
    ASSUME GenInv, HandleFailedFunctions
    PROVE  GenInv'
<1> USE DEF GenInv, HandleFailedFunctions, Disk
<1>0. tests \in [Requested -> Tests] /\ DOMAIN tests = Requested
  BY DEF GenTypeOK, Requested
<1>1. ASSUME NEW g \in Requested
      PROVE  /\ tests'[g] \in Tests
             /\ tests'[g].methods = tests[g].methods /\ tests'[g].cases = tests[g].cases
             /\ tests'[g].correct = tests[g].correct
             /\ tests'[g].commented = tests[g].commented \cup (tests[g].methods \ tests[g].correct)
  BY <1>0 DEF Tests
<1>2. DOMAIN tests' = Requested /\ tests' \in [Requested -> Tests] /\ Requested' = Requested
  BY <1>1 DEF Requested
<1>3. Linking'
  BY DEF Linking, Running
<1>4. Accounted'
  BY <1>1, <1>2 DEF Accounted, Running
<1> QED
  BY <1>1, <1>2, <1>3, <1>4, EarlyStep DEF GenTypeOK, Position, Requested

LEMMA LinkFailsInv ==
    ASSUME GenInv, LinkFails
    PROVE  GenInv'
<1> USE DEF GenInv, LinkFails, Disk, AddToGenerated
<1>0. tests \in [Requested -> Tests] /\ DOMAIN tests = Requested /\ Requested \subseteq Files
      /\ UNCHANGED Requested
  BY DEF GenTypeOK, Requested
<1>1. Linking'
  BY <1>0 DEF Linking, Running
<1>2. Accounted'
  BY <1>0 DEF Accounted, Running
<1> QED
  BY <1>0, <1>1, <1>2, EarlyStep DEF GenTypeOK, Position, Requested

LEMMA SetPresented ==
    ASSUME NEW r \in Tests, NEW b \in BOOLEAN, NEW s, s = [r EXCEPT !.presented = b]
    PROVE  /\ s \in Tests /\ s.presented <=> b
           /\ s.methods = r.methods /\ s.cases = r.cases
           /\ s.correct = r.correct /\ s.commented = r.commented
  BY DEF Tests

LEMMA LinkInv ==
    ASSUME GenInv, Link
    PROVE  GenInv'
<1> USE DEF GenInv, Link, Disk
<1> DEFINE presented == {f \in Requested : tests[f].methods \subseteq tests[f].correct}
<1>0. /\ tests \in [Requested -> Tests] /\ DOMAIN tests = Requested /\ Requested \subseteq Files
      /\ tests' = [f \in Requested |-> [tests[f] EXCEPT !.presented = f \in presented]]
      /\ bitcode' = AddToGenerated(presented)
  BY DEF GenTypeOK, Requested
<1> HIDE DEF presented
<1>1. ASSUME NEW g \in Requested
      PROVE  /\ tests'[g] \in Tests
             /\ tests'[g].methods = tests[g].methods /\ tests'[g].cases = tests[g].cases
             /\ tests'[g].correct = tests[g].correct /\ tests'[g].commented = tests[g].commented
             /\ tests'[g].presented <=> g \in presented
  <2>1. tests[g] \in Tests /\ (g \in presented) \in BOOLEAN
    BY <1>0
  <2>2. tests'[g] = [tests[g] EXCEPT !.presented = g \in presented]
    BY <1>0
  <2>3. CASE g \in presented
    <3>1. tests'[g] = [tests[g] EXCEPT !.presented = TRUE]
      BY <2>2, <2>3
    <3> QED
      BY <2>1, <2>3, <3>1, SetPresented
  <2>4. CASE g \notin presented
    <3>1. (g \in presented) = FALSE
      BY <2>4
    <3>2. tests'[g] = [tests[g] EXCEPT !.presented = FALSE]
      BY <2>2, <3>1, Zenon
    <3> QED
      BY <2>1, <2>4, <3>2 DEF Tests
  <2> QED
    BY <2>3, <2>4
<1>2. DOMAIN tests' = Requested /\ tests' \in [Requested -> Tests] /\ Requested' = Requested
  BY <1>0, <1>1 DEF Requested
<1>3. \A g \in Requested : bitcode'[g] = IF g \in presented THEN "linked" ELSE IF kind \in Batched THEN "none" ELSE "empty"
  BY <1>0 DEF AddToGenerated
<1>4. bitcode' \in [Files -> {"none", "empty", "linked"}]
  BY <1>0 DEF AddToGenerated
<1>5. Linking'
  BY <1>1, <1>2, <1>3 DEF Linking, Running
<1>6. Accounted'
  BY <1>1, <1>2 DEF Accounted, Running
<1> QED
  BY <1>1, <1>2, <1>4, <1>5, <1>6, EarlyStep DEF GenTypeOK, Position, Requested
-----------------------------------------------------------------------------
LEMMA CollectInv ==
    ASSUME GenInv, Collect
    PROVE  GenInv'
<1> USE DEF GenInv, Collect
<1>0. UNCHANGED Requested /\ \A f : UNCHANGED Written(f)
  BY DEF Requested, Written
<1>1. GenTypeOK'
  BY DEF GenTypeOK, Requested, Cleaned, Output
<1>2. Position' /\ OfRequest' /\ TestsAreOfTheirRequest'
  BY <1>0 DEF Position, OfRequest, Running, TestsAreOfTheirRequest, Cleaned
<1>3. NotYetWritten' /\ UnlinkedKeepsItsTests'
  BY <1>0 DEF NotYetWritten, UnlinkedKeepsItsTests
<1>4. Linking'
  BY <1>0 DEF Linking, Running, TestMethods
<1>5. Settled' /\ NoFileIsForgotten' /\ Late' /\ Accounted'
  BY <1>0 DEF Settled, NoFileIsForgotten, Late, Accounted, Running
<1> QED
  BY <1>1, <1>2, <1>3, <1>4, <1>5

LEMMA SkipInv ==
    ASSUME GenInv, NEW f \in Files, Skip(f)
    PROVE  GenInv'
<1> USE DEF GenInv, Skip, MayVisit, Skipped, Disk
<1>0. UNCHANGED Requested /\ (\A g : UNCHANGED Written(g)) /\ f \in Requested
  BY DEF Requested, Written, GenTypeOK
<1>1. GenTypeOK'
  BY DEF GenTypeOK
<1>2. Position' /\ OfRequest' /\ TestsAreOfTheirRequest'
  BY <1>0 DEF Position, OfRequest, Running, TestsAreOfTheirRequest
<1>3. NotYetWritten' /\ UnlinkedKeepsItsTests' /\ Linking'
  BY <1>0 DEF NotYetWritten, UnlinkedKeepsItsTests, Linking, Running
<1>4. Settled' /\ NoFileIsForgotten'
  BY <1>0 DEF Settled, NoFileIsForgotten, Linking, Running
<1>5. Late' /\ Accounted'
  BY <1>0 DEF Late, Accounted, Settles, Running
<1> QED
  BY <1>1, <1>2, <1>3, <1>4, <1>5

LEMMA VisitInv ==
    ASSUME GenInv, NEW f \in Files, Visit(f)
    PROVE  GenInv'
<1> USE DEF GenInv, Visit, MayVisit, Disk
<1>0. UNCHANGED Requested /\ (\A g : UNCHANGED Written(g)) /\ f \in Requested
  BY DEF Requested, Written, GenTypeOK
<1>1. TestMethods(f) \subseteq Functions[f]
  BY <1>0 DEF TestMethods, Position
<1>2. GenTypeOK'
  BY <1>1 DEF GenTypeOK
<1>3. Position' /\ OfRequest' /\ TestsAreOfTheirRequest'
  BY <1>0 DEF Position, OfRequest, Running, TestsAreOfTheirRequest
<1>4. NotYetWritten' /\ UnlinkedKeepsItsTests' /\ Linking'
  BY <1>0 DEF NotYetWritten, UnlinkedKeepsItsTests, Linking, Running
<1>5. Settled' /\ NoFileIsForgotten'
  BY <1>0 DEF Settled, NoFileIsForgotten, Running
<1>6. Late'
  BY DEF Late
<1>7. Accounted'
  <2>1. bitcode[f] # "none"
    BY <1>0 DEF Linking, Running
  <2>2. \A m \in Functions[f] \ TestMethods(f) : kind = "line" \/ m \in tests[f].commented
    BY <1>0, <2>1 DEF TestMethods, Accounted, Running
  <2> QED
    BY <1>0, <2>2 DEF Accounted, Settles, Running
<1> QED
  BY <1>2, <1>3, <1>4, <1>5, <1>6, <1>7

LEMMA WriteInv ==
    ASSUME GenInv, Write
    PROVE  GenInv'
<1> USE DEF GenInv, Write
<1>0. /\ UNCHANGED Requested /\ file \in Requested /\ file \in Files
      /\ tests[file] \in Tests /\ tests[file].presented
  BY DEF Requested, GenTypeOK, Position
<1>1. [by |-> request, cases |-> tests[file].cases, commented |-> tests[file].commented] \in TestFile
  BY <1>0 DEF GenTypeOK, Tests, TestFile
<1>2. \A g \in Files : IF g = file THEN testFiles'[g].by = request /\ testFiles'[g].cases = tests[file].cases
                                   ELSE testFiles'[g] = testFiles[g]
  BY <1>0 DEF GenTypeOK
<1>3. \A g \in Files : Written(g)' <=> (g = file \/ Written(g))
  BY <1>2 DEF Written
<1>4. GenTypeOK'
  <2>1. testFiles' \in [Files -> TestFile]
    BY <1>1 DEF GenTypeOK
  <2>2. lateWrites' \in Nat
    BY DEF GenTypeOK
  <2>3. /\ request' \in 0..MaxRequests /\ kind' \in Kinds /\ stage' = "klee"
        /\ status' \in {"none", "OK", "FAILED", "CANCELLED", "crashed"}
        /\ tests' \in [DOMAIN tests' -> Tests] /\ DOMAIN tests' \subseteq Files
        /\ todo' \subseteq DOMAIN tests'
        /\ bitcode' \in [Files -> {"none", "empty", "linked"}]
        /\ file' \in Files /\ batch' \subseteq Functions[file'] /\ kleeOut' \subseteq Output
    BY DEF GenTypeOK
  <2>4. cancelled' \in BOOLEAN
    BY DEF GenTypeOK
  <2> QED
    BY <2>1, <2>2, <2>3, <2>4 DEF GenTypeOK
<1>5. Position' /\ OfRequest'
  BY <1>0 DEF Position, OfRequest, Running
<1>6. TestsAreOfTheirRequest'
  BY <1>0, <1>2 DEF TestsAreOfTheirRequest, OfRequest
<1>7. NotYetWritten'
  BY <1>2, GenerationAssumption DEF NotYetWritten, GenTypeOK
<1>8. UnlinkedKeepsItsTests' /\ Linking'
  BY <1>0, <1>3 DEF UnlinkedKeepsItsTests, Linking, Running, GenTypeOK, Requested
<1>9. Settled' /\ NoFileIsForgotten'
  BY <1>0, <1>3 DEF Settled, NoFileIsForgotten, Running, GenTypeOK, Requested
<1>10. Late'
  BY DEF Late
<1>11. Accounted'
  BY <1>0 DEF Accounted, Running
<1> QED
  BY <1>4, <1>5, <1>6, <1>7, <1>8, <1>9, <1>10, <1>11

LEMMA FinishInv ==
    ASSUME GenInv, Finish
    PROVE  GenInv'
<1> USE DEF GenInv, Finish, EndWith
<1>0. UNCHANGED Requested /\ \A f : UNCHANGED Written(f)
  BY DEF Requested, Written
<1>1. GenTypeOK'
  BY DEF GenTypeOK
<1>2. Position' /\ OfRequest' /\ TestsAreOfTheirRequest'
  BY <1>0 DEF Position, OfRequest, Running, TestsAreOfTheirRequest
<1>3. NotYetWritten' /\ UnlinkedKeepsItsTests' /\ Linking'
  BY <1>0 DEF NotYetWritten, UnlinkedKeepsItsTests, Linking, Running
<1>4. Settled' /\ NoFileIsForgotten' /\ Late' /\ Accounted'
  BY <1>0 DEF Settled, NoFileIsForgotten, Late, Accounted, Running
<1> QED
  BY <1>1, <1>2, <1>3, <1>4

LEMMA AddCases ==
    ASSUME NEW t \in Tests, NEW c, c \subseteq Case, NEW d, d \subseteq Methods
    PROVE  WithCases(t, c, d) \in Tests /\ (WithCases(t, c, d).presented <=> t.presented)
  BY DEF Tests, WithCases

(* What a run of KLEE adds to its output. *)
LEMMA OutputsAreOfTheRun ==
    ASSUME file \in Files, request \in 1..MaxRequests, NEW reached \in SUBSET Methods,
           NEW ktest, NEW early
    PROVE  /\ Outputs(reached, ktest, early) \subseteq Output
           /\ \A o \in Outputs(reached, ktest, early) :
                 o.file = file /\ o.method \in reached /\ o.by = request
<1> DEFINE rec(m) == [file |-> file, method |-> m, by |-> request,
                      ktest |-> m \in ktest, early |-> m \in early]
<1>1. ASSUME NEW m \in reached
      PROVE  rec(m) \in Output /\ rec(m).file = file /\ rec(m).method = m /\ rec(m).by = request
  <2>1. (m \in ktest) \in BOOLEAN /\ (m \in early) \in BOOLEAN /\ m \in Methods
    OBVIOUS
  <2>2. \A b, c \in BOOLEAN : [file |-> file, method |-> m, by |-> request, ktest |-> b, early |-> c] \in Output
    BY <2>1 DEF Output
  <2>3. rec(m) \in Output
    BY <2>1, <2>2, Zenon
  <2> QED
    BY <2>3
<1>2. Outputs(reached, ktest, early) = {rec(m) : m \in reached}
  BY DEF Outputs
<1> HIDE DEF rec
<1>3. ASSUME NEW o \in Outputs(reached, ktest, early)
      PROVE  o \in Output /\ o.file = file /\ o.method \in reached /\ o.by = request
  <2>1. PICK m \in reached : o = rec(m)
    BY <1>2, <1>3
  <2> QED
    BY <1>1, <2>1
<1> QED
  BY <1>3

LEMMA RunKleeInv ==
    ASSUME GenInv, NEW ms \in SUBSET Methods, RunKlee(ms)
    PROVE  GenInv'
<1> USE DEF GenInv
<1>1. PICK reached \in SUBSET ms, ktest \in SUBSET Methods, early \in SUBSET Methods :
         kleeOut' = kleeOut \cup Outputs(reached, ktest, early)
  BY DEF RunKlee
<1> DEFINE mine == {o \in kleeOut' : o.file = file /\ o.method \in ms}
           found == {<<o.method, o.by>> : o \in {p \in mine : p.ktest}}
<1>2. /\ stage = "run" /\ ms \subseteq batch
      /\ UNCHANGED <<request, kind, cancelled, todo, bitcode, file, testFiles, lateWrites>>
  BY DEF RunKlee
<1>3. /\ request \in 1..MaxRequests /\ file \in Requested /\ file \in Files
      /\ tests[file] \in Tests /\ DOMAIN tests = Requested /\ tests[file].presented
  BY <1>2, GenerationAssumption DEF GenTypeOK, Position, Requested
<1>4. /\ kleeOut \subseteq kleeOut' /\ kleeOut' \subseteq Output
      /\ \A o \in kleeOut' \ kleeOut : o.file = file /\ o.method \in ms /\ o.by = request
  <2> DEFINE new == Outputs(reached, ktest, early)
  <2>1. new \subseteq Output /\ \A o \in new : o.file = file /\ o.method \in reached /\ o.by = request
    BY <1>3, OutputsAreOfTheRun
  <2> HIDE DEF new
  <2> QED
    BY <1>1, <2>1 DEF GenTypeOK, new
<1>5. \A o \in kleeOut' : o.by = request
  BY <1>2, <1>4 DEF OfRequest, Running
<1>6. CASE cancelled
  <2>1. stage' = "idle" /\ status' = "CANCELLED" /\ UNCHANGED <<tests, batch>>
    BY <1>6 DEF RunKlee
  <2>2. UNCHANGED Requested /\ \A f : UNCHANGED Written(f)
    BY <1>2, <2>1 DEF Requested, Written
  <2>3. GenTypeOK'
    BY <1>2, <1>4, <2>1 DEF GenTypeOK
  <2>4. Position' /\ OfRequest' /\ TestsAreOfTheirRequest'
    BY <1>2, <2>1, <2>2 DEF Position, OfRequest, Running, TestsAreOfTheirRequest
  <2>5. NotYetWritten' /\ UnlinkedKeepsItsTests' /\ Linking'
    BY <1>2, <2>1, <2>2 DEF NotYetWritten, UnlinkedKeepsItsTests, Linking, Running
  <2>6. Settled' /\ NoFileIsForgotten' /\ Late' /\ Accounted'
    BY <1>2, <2>1, <2>2 DEF Settled, NoFileIsForgotten, Late, Accounted, Running
  <2> QED
    BY <2>3, <2>4, <2>5, <2>6
<1>7. CASE ~ cancelled
  <2>1. /\ tests' = [tests EXCEPT ![file] = WithCases(@, found, Comments(mine))]
        /\ batch' = batch \ ms /\ stage' = (IF batch = ms THEN "write" ELSE "run") /\ UNCHANGED status
    BY <1>7 DEF RunKlee, TakeOver
  <2>2. found \subseteq Case /\ Comments(mine) \subseteq Methods /\ \A c \in found : c[2] = request
    BY <1>4, <1>5 DEF Case, Comments, Output
  <2>3. /\ tests'[file] \in Tests
        /\ tests'[file].methods = tests[file].methods /\ tests'[file].correct = tests[file].correct
        /\ tests'[file].presented <=> tests[file].presented
        /\ tests'[file].cases = tests[file].cases \cup found
        /\ tests'[file].commented = tests[file].commented \cup Comments(mine)
    <3> HIDE DEF found, mine, GenInv
    <3>1. tests'[file] = WithCases(tests[file], found, Comments(mine))
      BY <1>3, <2>1
    <3>2. found \subseteq Case /\ Comments(mine) \subseteq Methods
      BY <2>2
    <3> DEFINE r == WithCases(tests[file], found, Comments(mine))
    <3>3. /\ r \in Tests
          /\ r.methods = tests[file].methods /\ r.correct = tests[file].correct
          /\ r.presented <=> tests[file].presented
          /\ r.cases = tests[file].cases \cup found
          /\ r.commented = tests[file].commented \cup Comments(mine)
      <4>1. tests[file] \in Tests
        BY <1>3
      <4>2. r \in Tests
        BY <3>2, <4>1, AddCases
      <4>3. r.methods = tests[file].methods /\ r.correct = tests[file].correct
        BY <4>1 DEF WithCases, Tests
      <4>4. r.presented <=> tests[file].presented
        BY <3>2, <4>1, AddCases
      <4>5. r.cases = tests[file].cases \cup found /\ r.commented = tests[file].commented \cup Comments(mine)
        BY <4>1 DEF WithCases, Tests
      <4> QED
        BY <4>2, <4>3, <4>4, <4>5
    <3> QED
      BY <3>1, <3>3, Zenon
  <2>4. /\ DOMAIN tests' = Requested /\ Requested' = Requested
        /\ \A f \in Requested : f # file => tests'[f] = tests[f]
    BY <1>3, <2>1 DEF Requested
  <2>5. \A f : UNCHANGED Written(f)
    BY <1>2 DEF Written
  <2>6. GenTypeOK'
    <3>1. tests' \in [DOMAIN tests' -> Tests]
      <4>1. \A f \in Requested : tests'[f] \in Tests
        BY <2>3, <2>4 DEF GenTypeOK, Requested
      <4>2. tests' = [f \in Requested |-> tests'[f]]
        BY <1>3, <2>1
      <4> QED
        BY <2>4, <4>1, <4>2
    <3>2. stage' \in {"run", "write"} /\ batch' \subseteq Functions[file']
      BY <1>2, <2>1 DEF GenTypeOK
    <3> HIDE DEF found, mine
    <3> QED
      BY <1>2, <1>4, <2>1, <2>4, <3>1, <3>2 DEF GenTypeOK, Requested
  <2>7. Position'
    BY <1>2, <1>3, <2>1, <2>3, <2>4 DEF Position, Requested
  <2>8. OfRequest' /\ TestsAreOfTheirRequest'
    BY <1>2, <1>5, <2>2, <2>3, <2>4 DEF OfRequest, TestsAreOfTheirRequest
  <2>9. NotYetWritten' /\ UnlinkedKeepsItsTests'
    BY <1>2, <2>1, <2>4, <2>5 DEF NotYetWritten, UnlinkedKeepsItsTests
  <2>10. Linking'
    BY <1>2, <2>1, <2>3, <2>4 DEF Linking, Running
  <2>11. Settled' /\ NoFileIsForgotten' /\ Late'
    BY <1>2, <1>7, <2>1, <2>4, <2>5 DEF Settled, NoFileIsForgotten, Late, Running
  <2>12. Accounted'
    <3>1. ASSUME NEW m \in Functions[file] \ batch, Settles(m)
          PROVE  Settles(m)'
      <4>1. CASE \A o \in kleeOut : o.file # file \/ o.method # m
        <5>1. \A o \in kleeOut' : o.file # file \/ o.method # m
          BY <1>2, <1>4, <4>1
        <5> QED
          BY <1>2, <5>1 DEF Settles
      <4>2. CASE \E o \in kleeOut : o.file = file /\ o.method = m
        BY <1>2, <2>3, <3>1, <4>2 DEF Settles
      <4> QED
        BY <4>1, <4>2
    <3>2. ASSUME NEW m \in ms
          PROVE  Settles(m)'
      <4>1. CASE \A o \in kleeOut' : o.file # file \/ o.method # m
        BY <1>2, <4>1 DEF Settles
      <4>2. CASE \E o \in kleeOut' : o.file = file /\ o.method = m
        <5>1. PICK o \in mine : o.method = m
          BY <3>2, <4>2
        <5>2. o \in Output /\ o.by \in 1..MaxRequests
          BY <1>4 DEF Output
        <5>3. CASE o.ktest
          <6>1. <<m, o.by>> \in found
            BY <5>1, <5>3
          <6> QED
            BY <1>2, <2>3, <5>2, <6>1 DEF Settles
        <5>4. CASE ~ o.ktest
          <6>1. m \in Comments(mine)
            BY <5>1, <5>4 DEF Comments
          <6> QED
            BY <1>2, <2>3, <6>1 DEF Settles
        <5> QED
          BY <5>3, <5>4
      <4> QED
        BY <4>1, <4>2
    <3>3. \A m \in Functions[file'] \ batch' : Settles(m)'
      BY <1>2, <2>1, <3>1, <3>2 DEF Accounted
    <3> HIDE DEF found, mine
    <3>4. \A f \in Requested : /\ tests'[f].methods = tests[f].methods /\ tests'[f].correct = tests[f].correct
                               /\ tests[f].commented \subseteq tests'[f].commented
      BY <2>3, <2>4
    <3> QED
      BY <1>2, <2>1, <2>4, <3>3, <3>4 DEF Accounted, Running
  <2> QED
    BY <2>6, <2>7, <2>8, <2>9, <2>10, <2>11, <2>12
<1> QED
  BY <1>6, <1>7
-----------------------------------------------------------------------------
(* GenInv holds in every reachable state. *)
THEOREM GenInvariance == GenSpec => []GenInv
<1>1. ASSUME GenInv, [GenNext]_genVars
      PROVE  GenInv'
  <2>1. CASE UNCHANGED genVars
    BY <1>1, <2>1, QuietStep DEF genVars
  <2>2. CASE Cancel \/ Fails \/ Crash \/ SeesCancellation \/ NothingSupported \/ NothingToRun
             \/ \E f \in Files : NotInArtifact(f)
    BY <1>1, <2>2, QuietStep DEF Cancel, Fails, Crash, SeesCancellation, NothingSupported,
                                NothingToRun, NotInArtifact, EndWith, Disk
  <2>3. CASE \E k \in Kinds, fs \in SUBSET Files : Start(k, fs)
    BY <1>1, <2>3, StartInv
  <2>4. CASE Prepare \/ HandleFailedFunctions \/ LinkFails \/ Link \/ Collect
    BY <1>1, <2>4, PrepareInv, HandleFailedFunctionsInv, LinkFailsInv, LinkInv, CollectInv
  <2>5. CASE \E f \in Files : BuildKleeFile(f) \/ Skip(f) \/ Visit(f)
    BY <1>1, <2>5, BuildKleeFileInv, SkipInv, VisitInv
  <2>6. CASE Write \/ Finish \/ \E ms \in SUBSET Methods : RunKlee(ms)
    BY <1>1, <2>6, WriteInv, FinishInv, RunKleeInv
  <2> QED
    BY <1>1, <2>1, <2>2, <2>3, <2>4, <2>5, <2>6 DEF GenNext
<1> QED
  BY <1>1, InitGenInv, PTL DEF GenSpec

(* The variables keep their types. *)
THEOREM GenTypeInvariant == GenSpec => []GenTypeOK
<1>1. GenInv => GenTypeOK
  BY DEF GenInv
<1> QED
  BY <1>1, GenInvariance, PTL

(* A test file holds test cases of the request that wrote it only. *)
THEOREM GenTestsAreOfTheirRequest == GenSpec => []TestsAreOfTheirRequest
<1>1. GenInv => TestsAreOfTheirRequest
  BY DEF GenInv
<1> QED
  BY <1>1, GenInvariance, PTL

(* A function KLEE has left output for has tests or a comment. *)
THEOREM GenFunctionsAreAccountedFor == GenSpec => []FunctionsAreAccountedFor
<1>1. GenInv => FunctionsAreAccountedFor
  BY DEF GenInv, Accounted, Settles, Position, FunctionsAreAccountedFor
<1> QED
  BY <1>1, GenInvariance, PTL

(* A request that ends well has written every file that was linked. *)
THEOREM GenNoFileIsForgotten == GenSpec => []NoFileIsForgotten
<1>1. GenInv => NoFileIsForgotten
  BY DEF GenInv
<1> QED
  BY <1>1, GenInvariance, PTL

(* A batch leaves the tests of a file alone that it could not link. *)
THEOREM GenUnlinkedKeepsItsTests == GenSpec => []UnlinkedKeepsItsTests
<1>1. GenInv => UnlinkedKeepsItsTests
  BY DEF GenInv
<1> QED
  BY <1>1, GenInvariance, PTL

(* At most one test file is written after the cancellation. *)
THEOREM GenCancelStopsWriting == GenSpec => []CancelStopsWriting
<1>1. GenInv => CancelStopsWriting
  BY DEF GenInv, Late, CancelStopsWriting
<1> QED
  BY <1>1, GenInvariance, PTL
=============================================================================
