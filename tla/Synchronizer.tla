---------------------------- MODULE Synchronizer ----------------------------
(***************************************************************************)
(* Stubs and wrappers (Synchronizer.cpp).  Every request for tests, and    *)
(* one for stubs, first brings them up to date: a stub begins with the     *)
(* time of its making, a wrapper has that of its file, and what is not     *)
(* younger than its source is made again.  The user may edit, delete or    *)
(* restore sources and edit stubs at any moment; the requests of a project *)
(* follow each other, and may fail, be cancelled or die with the server.   *)
(*                                                                         *)
(* Time is counted in ticks in which several things may happen.  The time  *)
(* of a source moves only forward.                                         *)
(***************************************************************************)
EXTENDS Naturals, FiniteSets

CONSTANTS Files,                     \* C sources
          MaxTime, MaxVersion, MaxRequests    \* bounds: ticks, versions of a source, requests

ASSUME SynchronizerAssumption == MaxTime \in Nat /\ MaxVersion \in Nat /\ MaxRequests \in Nat

VARIABLES now, requests,
          source,     \* [f] version (0: absent), the newest one, and mtime
          generated,  \* on disk: the .c stub, the .h stub and the wrapper of each source
          stage, project, target,    \* of the request: its compile database, its target's sources
          outdated,   \* sources whose stubs, then sources whose wrappers, are made again
          fetched,    \* file -> the version whose functions were fetched
          made,       \* synchronizedStubs, and a wrapper before it is printed
          excused     \* history: edited between reading and stamp, or cut off by a crash

work == <<stage, project, target, outdated, fetched, made>>
syncVars == <<now, requests, source, generated, work, excused>>

Version == 0..MaxVersion
Items == Files \X {"stub", "header", "wrapper"}
Generated == [exists : BOOLEAN, version : Version, stamp : 0..MaxTime, edited : BOOLEAN]
Nothing == [exists |-> FALSE, version |-> 0, stamp |-> 0, edited |-> FALSE]

SyncTypeOK ==
    /\ now \in 0..MaxTime /\ requests \in 0..MaxRequests
    /\ source \in [Files -> [version : Version, newest : Version, mtime : 0..MaxTime]]
    /\ generated \in [Items -> Generated]
    /\ stage \in {"idle", "fetch", "make", "write", "compare", "wrap"}
    /\ project \subseteq Files /\ target \subseteq project /\ outdated \subseteq project
    /\ fetched \in [DOMAIN fetched -> Version] /\ DOMAIN fetched \subseteq outdated
    /\ made \in [DOMAIN made -> Generated] /\ DOMAIN made \subseteq Items
    /\ excused \subseteq Items

SyncInit ==
    /\ now = 1 /\ requests = 0
    /\ source = [f \in Files |-> [version |-> 1, newest |-> 1, mtime |-> 0]]
    /\ generated = [i \in Items |-> Nothing]
    /\ stage = "idle" /\ project = {} /\ target = {} /\ outdated = {}
    /\ fetched = <<>> /\ made = <<>> /\ excused = {}

Absent(f) == source[f].version = 0
Put(function, x, v) == [y \in (DOMAIN function) \cup {x} |-> IF y = x THEN v ELSE function[y]]
Make(v) == [exists |-> TRUE, version |-> v, stamp |-> now, edited |-> FALSE]
-----------------------------------------------------------------------------
(* The user, and time. *)

Tick == now < MaxTime /\ now' = now + 1 /\ UNCHANGED <<requests, source, generated, work, excused>>

(* What the server has read of f and not yet given its time. *)
Unstamped(f) ==
    IF stage \notin {"fetch", "make"} \/ <<f, "stub">> \in DOMAIN made
    THEN {i \in {<<f, "wrapper">>} : i \in DOMAIN made}
    ELSE {i \in {<<f, "stub">>} : f \in DOMAIN fetched} \cup {i \in {<<f, "header">>} : i \in DOMAIN made}

Edit(f) ==
    /\ source[f].newest < MaxVersion
    /\ source' = [source EXCEPT ![f] = [version |-> @.newest + 1, newest |-> @.newest + 1, mtime |-> now]]
    /\ excused' = excused \cup Unstamped(f)
    /\ UNCHANGED <<now, requests, generated, work>>

Delete(f) ==
    /\ ~ Absent(f)
    /\ source' = [source EXCEPT ![f].version = 0]
    /\ UNCHANGED <<now, requests, generated, work, excused>>

(* The user may give a stub bodies of their own, but keeps its first line. *)
EditStub(f) ==
    /\ generated[<<f, "stub">>].exists
    /\ generated' = [generated EXCEPT ![<<f, "stub">>].edited = TRUE]
    /\ UNCHANGED <<now, requests, source, work, excused>>
-----------------------------------------------------------------------------
(* Mutants of isProbablyOutdated: a source of the same tick is taken for   *)
(* older; a file that is missing is not noticed.                           *)
OlderOnly(g, f) == ~ g.exists \/ (~ Absent(f) /\ g.stamp < source[f].mtime)
ExistingOnly(g, f) == g.exists /\ ~ Absent(f) /\ g.stamp <= source[f].mtime

(***************************************************************************)
(* isProbablyOutdatedStubs, isProbablyOutdatedWrappers.  For a source that *)
(* is absent the time is that of the clock in seconds, long past for the   *)
(* nanoseconds it is compared with.                                        *)
(***************************************************************************)
isProbablyOutdated(g, f) == ~ g.exists \/ (~ Absent(f) /\ g.stamp <= source[f].mtime)

(* Mutant of Extra: a stub has to belong to the target. *)
ExtraForTarget(p, t) == (Files \ t) \X {"stub"}

(* prepareDirectory: stubs whose source is not in the project are removed; *)
(* their headers stay.                                                     *)
Extra(p, t) == (Files \ p) \X {"stub"}

(***************************************************************************)
(* A request: the stubs are looked through, and the directory is prepared; *)
(* without the option useStubs only the wrappers are brought up to date.   *)
(***************************************************************************)
Begin(p, t, useStubs) ==
    /\ stage = "idle" /\ requests < MaxRequests
    /\ requests' = requests + 1
    /\ project' = p /\ target' = t
    /\ fetched' = <<>> /\ made' = <<>>
    /\ IF useStubs
       THEN /\ stage' = "fetch"
            /\ outdated' = {f \in p : isProbablyOutdated(generated[<<f, "stub">>], f)}
            /\ generated' = [i \in Items |-> IF i \in Extra(p, t) THEN Nothing ELSE generated[i]]
       ELSE stage' = "compare" /\ outdated' = {} /\ UNCHANGED generated
    /\ UNCHANGED <<now, source, excused>>

(* stubFetcher: an error is only logged, and an absent source has no functions. *)
Fetch(f) ==
    /\ stage = "fetch" /\ f \in outdated \ DOMAIN fetched
    /\ fetched' = Put(fetched, f, source[f].version)
    /\ stage' = IF DOMAIN fetched' = outdated THEN "make" ELSE "fetch"
    /\ excused' = excused \ {<<f, "stub">>, <<f, "header">>}
    /\ UNCHANGED <<now, requests, source, generated, project, target, outdated, made>>

(***************************************************************************)
(* genStubFile and generateStubHeader, in either order.  The stub is made  *)
(* of the functions that were fetched and of none of the old stub, which   *)
(* no one has fetched; the header reads the source again.                  *)
(***************************************************************************)
MakeStub(f) ==
    /\ stage = "make" /\ f \in outdated /\ <<f, "stub">> \notin DOMAIN made
    /\ made' = Put(made, <<f, "stub">>, Make(fetched[f]))
    /\ UNCHANGED <<now, requests, source, generated, stage, project, target, outdated, fetched, excused>>

MakeHeader(f) ==
    /\ stage = "make" /\ f \in outdated /\ <<f, "header">> \notin DOMAIN made
    /\ made' = Put(made, <<f, "header">>, Make(source[f].version))
    /\ UNCHANGED <<now, requests, source, generated, stage, project, target, outdated, fetched, excused>>

Complete ==
    /\ \/ stage = "fetch" /\ outdated = {}
       \/ stage = "make" /\ outdated \X {"stub", "header"} = DOMAIN made
    /\ stage' = "write"
    /\ UNCHANGED <<now, requests, source, generated, project, target, outdated, fetched, made, excused>>

(* writeStubsFilesOnServer, file by file; nothing is looked at again. *)
Write(i) ==
    /\ stage = "write" /\ i \in DOMAIN made
    /\ generated' = [generated EXCEPT ![i] = made[i]]
    /\ made' = [j \in (DOMAIN made) \ {i} |-> made[j]]
    /\ UNCHANGED <<now, requests, source, stage, project, target, outdated, fetched, excused>>

(* Mutant of Written: what was fetched is kept for the wrappers. *)
WrittenButFetched ==
    /\ stage = "write" /\ DOMAIN made = {}
    /\ stage' = "compare" /\ outdated' = {}
    /\ UNCHANGED <<now, requests, source, generated, project, target, fetched, made, excused>>

Written ==
    /\ stage = "write" /\ DOMAIN made = {}
    /\ stage' = "compare" /\ outdated' = {} /\ fetched' = <<>>
    /\ UNCHANGED <<now, requests, source, generated, project, target, made, excused>>

(* getOutdatedSourcePaths, of the target's sources; synchronizeWrappers. *)
Compare ==
    /\ stage = "compare" /\ stage' = "wrap"
    /\ outdated' = {f \in target : isProbablyOutdated(generated[<<f, "wrapper">>], f)}
    /\ UNCHANGED <<now, requests, source, generated, project, target, fetched, made, excused>>

(* generateWrapper reads the source; the time of the file is that of print. *)
Wrap(f) ==
    /\ stage = "wrap" /\ f \in outdated /\ DOMAIN made = {}
    /\ made' = Put(made, <<f, "wrapper">>, Make(source[f].version))
    /\ excused' = excused \ {<<f, "wrapper">>}
    /\ UNCHANGED <<now, requests, source, generated, stage, project, target, outdated, fetched>>

PrintWrapper(f) ==
    /\ stage = "wrap" /\ <<f, "wrapper">> \in DOMAIN made
    /\ generated' = [generated EXCEPT ![<<f, "wrapper">>] = Make(made[<<f, "wrapper">>].version)]
    /\ made' = <<>> /\ outdated' = outdated \ {f}
    /\ UNCHANGED <<now, requests, source, stage, project, target, fetched, excused>>

Synchronized ==
    /\ stage = "wrap" /\ outdated = {} /\ stage' = "idle"
    /\ UNCHANGED <<now, requests, source, generated, project, target, outdated, fetched, made, excused>>

(* An exception, or a cancellation seen between two files. *)
Stop ==
    /\ stage \notin {"idle", "write"} /\ stage' = "idle"
    /\ outdated' = {} /\ fetched' = <<>> /\ made' = <<>>
    /\ UNCHANGED <<now, requests, source, generated, project, target, excused>>

(***************************************************************************)
(* The server dies, or cannot write: the file it is writing keeps its      *)
(* first line at most, and of a pair only one may have been written.       *)
(***************************************************************************)
Crash(i) ==
    /\ stage \in {"write", "wrap"} /\ i \in DOMAIN made
    /\ generated' = [generated EXCEPT ![i] = [made[i] EXCEPT !.version = 0]]
    /\ excused' = excused \cup DOMAIN made
    /\ stage' = "idle" /\ outdated' = {} /\ fetched' = <<>> /\ made' = <<>>
    /\ UNCHANGED <<now, requests, source, project, target>>

SyncNext ==
    \/ Tick
    \/ \E f \in Files : \/ Edit(f) \/ Delete(f) \/ EditStub(f) \/ Fetch(f)
                        \/ MakeStub(f) \/ MakeHeader(f) \/ Wrap(f) \/ PrintWrapper(f)
    \/ \E p \in SUBSET Files : \E t \in SUBSET p, useStubs \in BOOLEAN : Begin(p, t, useStubs)
    \/ Complete \/ Written \/ Compare \/ Synchronized \/ Stop
    \/ \E i \in Items : Write(i) \/ Crash(i)

SyncSpec == SyncInit /\ [][SyncNext]_syncVars
-----------------------------------------------------------------------------
Current(i) ==
    LET g == generated[i]
        judged == IF i[2] = "header" THEN generated[<<i[1], "stub">>] ELSE g
    IN  isProbablyOutdated(judged, i[1]) \/ g.version = source[i[1]].version

(***************************************************************************)
(* A stub or wrapper that the next request will not make again was made of *)
(* the source as it is now, however edits, requests and their failures     *)
(* follow each other.  What is excused is read and given its time in two   *)
(* steps, and an edit between them goes unnoticed; or its writing was cut  *)
(* off after its first line.                                               *)
(***************************************************************************)
WhatIsKeptIsCurrent ==
    stage = "idle" => \A i \in Items \ excused : Absent(i[1]) \/ Current(i)

(***************************************************************************)
(* The bodies a user has written into a stub are lost only if the source   *)
(* has changed since the stub was made, or has left the project or disk.   *)
(***************************************************************************)
KeepsEdits(f) ==
    generated[<<f, "stub">>].edited /\ ~ generated'[<<f, "stub">>].edited =>
       isProbablyOutdated(generated[<<f, "stub">>], f) \/ Absent(f) \/ f \notin project'

EditsSurvive == [][\A f \in Files : KeepsEdits(f)]_syncVars

(* At the end of its work a request has the stubs and wrappers it needs. *)
NothingIsMissing ==
    stage = "wrap" /\ outdated = {} => \A f \in target : generated[<<f, "wrapper">>].exists
=============================================================================
