--------------------------- MODULE ForkTaskProofs ---------------------------
(***************************************************************************)
(* Proofs about ForkTask for any set of tasks, lists of signals (that end  *)
(* with SIGKILL) and exit codes.                                           *)
(*                                                                         *)
(* The index of the next signal tells what the child has received: at the  *)
(* end of the list SIGKILL was sent, and a child that is not alive stays   *)
(* so (KilledAtLast).  A signal has a reason that is never forgotten, as a *)
(* stopped child does not run again (Provoked, StopIsLast).                *)
(***************************************************************************)
EXTENDS ForkTask, TLAPS

(* There is no child before fork(), and nothing has been sent. *)
NotForked == pc = "fork" => child = "none" /\ signalId = 0

(* The stop that was reported is that of a child that does not run any more. *)
StopIsLast == stopSeen => child \in {"stopped", "dying", "zombie", "reaped"}

(* A signal that is about to be sent, or was, has a reason. *)
Provoked ==
    sendSignals \/ signalId > 0 \/ pc \in {"group", "pkill"} =>
        timedOut \/ cancelRequested \/ stopSeen

(* On the way to pkill there is a signal left in the list. *)
SignalLeft == pc \in {"group", "pkill"} => signalId < Len(task.signals)

(* Once the list is exhausted SIGKILL has been sent. *)
KilledAtLast == signalId = Len(task.signals) => child \notin Alive

(* run() leaves its loop with a child that was reaped or killed. *)
LeftLoop ==
    pc \in {"collect", "done"} =>
        /\ child \notin Alive
        /\ result # NOT_KILLED => child = "reaped" /\ result = ended.code

(* What the argument about signals needs of the types. *)
SignalType == task \in Tasks /\ signalId \in 0 .. Len(task.signals)

(* The inductive invariant. *)
ForkInv ==
    /\ SignalType
    /\ NotForked
    /\ StopIsLast
    /\ Provoked
    /\ SignalLeft
    /\ KilledAtLast
    /\ LeftLoop
-----------------------------------------------------------------------------
LEMMA SignalsAreASequence ==
    ASSUME NEW k \in Tasks
    PROVE  /\ k.signals \in Seq({"TERM", "KILL"})
           /\ Len(k.signals) \in Nat
           /\ Len(k.signals) > 0
           /\ k.signals[Len(k.signals)] = "KILL"
<1>1. k.signals \in Seq({"TERM", "KILL"}) /\ k.signals # <<>> /\ k.signals[Len(k.signals)] = "KILL"
  BY ForkAssumption, KillAssumption
<1> QED
  BY <1>1

LEMMA InitForkInv == ForkInit => ForkInv
<1> SUFFICES ASSUME ForkInit
             PROVE  ForkInv
  OBVIOUS
<1>1. Len(task.signals) \in Nat /\ Len(task.signals) > 0
  BY SignalsAreASequence DEF ForkInit
<1> QED
  BY <1>1 DEF ForkInit, ForkInv, SignalType, NotForked, StopIsLast, Provoked, SignalLeft,
              KilledAtLast, LeftLoop

LEMMA WorldInv ==
    ASSUME ForkInv, World
    PROVE  ForkInv'
<1> USE DEF ForkInv, SignalType, NotForked, StopIsLast, Provoked, SignalLeft, KilledAtLast, LeftLoop,
            Alive, parentVars
<1>1. CASE TimeoutPasses
  BY <1>1 DEF TimeoutPasses
<1>2. CASE ClientCancels
  BY <1>2 DEF ClientCancels
<1>3. CASE ChildStopped
  BY <1>3 DEF ChildStopped
<1> QED
  BY <1>1, <1>2, <1>3 DEF World

LEMMA ChildInv ==
    ASSUME ForkInv, Child
    PROVE  ForkInv'
<1> USE DEF ForkInv, SignalType, NotForked, StopIsLast, Provoked, SignalLeft, KilledAtLast, LeftLoop,
            Alive, childKeeps, Exits
<1>1. CASE SetPgid
  BY <1>1 DEF SetPgid
<1>2. CASE RedirectOutput
  BY <1>2 DEF RedirectOutput
<1>3. CASE JobEnds
  BY <1>3 DEF JobEnds
<1>4. CASE Dies
  BY <1>4 DEF Dies
<1> QED
  BY <1>1, <1>2, <1>3, <1>4 DEF Child

LEMMA ParentInv ==
    ASSUME ForkInv, Parent
    PROVE  ForkInv'
<1> USE DEF ForkInv, SignalType, NotForked, StopIsLast, Provoked, SignalLeft, KilledAtLast, LeftLoop,
            Alive, parentKeeps
<1> DEFINE n == Len(task.signals)
<1>0. n \in Nat /\ n > 0 /\ task.signals[n] = "KILL" /\ task' = task
  BY SignalsAreASequence DEF Parent, Fork, CheckStop, GetPgid, PkillChild, PkillServer, PkillFails,
                             Poll, Collect
<1>1. CASE Fork
  BY <1>0, <1>1 DEF Fork
<1>2. CASE CheckStop
  <2>1. MustStop => timedOut \/ cancelRequested \/ stopSeen
    BY DEF MustStop
  <2>2. /\ sendSignals' <=> MustStop
        /\ pc = "check" /\ pc' \in {"poll", "collect", "group"}
        /\ pc' # "poll" => MustStop
        /\ pc' = "collect" => signalId = n /\ result' = NOT_KILLED
        /\ pc' = "group" => signalId # n
    BY <1>2 DEF CheckStop
  <2>3. UNCHANGED <<timedOut, cancelRequested, stopSeen, signalId, child, ended>>
    BY <1>2 DEF CheckStop
  <2> QED
    BY <1>0, <2>1, <2>2, <2>3
<1>3. CASE GetPgid
  BY <1>0, <1>3 DEF GetPgid
<1>4. CASE PkillChild
  <2>1. signalId < n /\ pc' = "poll" /\ signalId' = signalId + 1
    BY <1>4 DEF PkillChild
  <2>2. signalId' = n => task.signals[signalId + 1] = "KILL"
    BY <1>0, <2>1
  <2>3. KilledAtLast'
    BY <1>0, <1>4, <2>1, <2>2 DEF PkillChild, Receives
  <2>4. StopIsLast'
    BY <1>4 DEF PkillChild, Receives
  <2> QED
    BY <1>0, <1>4, <2>1, <2>3, <2>4 DEF PkillChild
<1>5. CASE PkillServer \/ PkillFails
  BY <1>0, <1>5 DEF PkillServer, PkillFails
<1>6. CASE Poll
  BY <1>0, <1>6 DEF Poll
<1>7. CASE Collect
  BY <1>0, <1>7 DEF Collect
<1> QED
  BY <1>1, <1>2, <1>3, <1>4, <1>5, <1>6, <1>7 DEF Parent

(* ForkInv holds in every reachable state. *)
THEOREM ForkInvariance == ForkSpec => []ForkInv
<1>1. ForkInv /\ UNCHANGED forkVars => ForkInv'
  BY DEF forkVars, ForkInv, SignalType, NotForked, StopIsLast, Provoked, SignalLeft, KilledAtLast,
         LeftLoop
<1>2. ForkInv /\ [ForkNext]_forkVars => ForkInv'
  BY <1>1, WorldInv, ChildInv, ParentInv DEF ForkNext
<1> QED
  BY <1>2, InitForkInv, PTL DEF ForkSpec
-----------------------------------------------------------------------------
(* The status run() returns is the wait status of its own reaped child. *)
THEOREM ForkReportsTheChild == ForkSpec => []ReportsTheChild
<1>1. ForkInv => ReportsTheChild
  BY DEF ForkInv, LeftLoop, ReportsTheChild, Returned
<1> QED
  BY <1>1, ForkInvariance, PTL

(* run() returns with a child that has ended or was sent SIGKILL. *)
THEOREM ForkChildDoesNotOutlive == ForkSpec => []ChildDoesNotOutlive
<1>1. ForkInv => ChildDoesNotOutlive
  BY DEF ForkInv, LeftLoop, ChildDoesNotOutlive, Returned
<1> QED
  BY <1>1, ForkInvariance, PTL

(* No signal without a timeout, a cancellation or a stop of the child. *)
THEOREM ForkNoUnprovokedSignal == ForkSpec => []NoUnprovokedSignal
<1>1. ForkInv => NoUnprovokedSignal
  BY DEF ForkInv, Provoked, NoUnprovokedSignal
<1> QED
  BY <1>1, ForkInvariance, PTL
-----------------------------------------------------------------------------
(* The type invariant; what a child's end is known by decides the result. *)
TypeInv == ForkTypeOK /\ (child = "zombie" => ended \in Endings)

LEMMA EndingCodes ==
    /\ \A e \in Endings : e.code \in {15, 9, 11} \cup ChildCodes
    /\ \A k \in Tasks : \A c \in k.codes : [how |-> "exit", code |-> c] \in Endings
    /\ \A c \in {LOG_FAIL_CODE, SETPGID_FAIL_CODE} : [how |-> "exit", code |-> c] \in Endings
    /\ \A c \in {15, 9, 11} : [how |-> "signal", code |-> c] \in Endings
  BY DEF Endings, ChildCodes

LEMMA InitTypeInv == ForkInit => TypeInv
<1> SUFFICES ASSUME ForkInit
             PROVE  TypeInv
  OBVIOUS
<1>1. task \in Tasks /\ signalId \in 0 .. Len(task.signals)
  BY SignalsAreASequence DEF ForkInit
<1>2. /\ sendSignals \in BOOLEAN /\ timedOut \in BOOLEAN /\ cancelRequested \in BOOLEAN
      /\ stopSeen \in BOOLEAN /\ logLocked \in BOOLEAN /\ logFile \in BOOLEAN
  BY DEF ForkInit
<1>3. /\ pc = "fork" /\ pgid = "none" /\ result = 0 /\ child = "none"
      /\ group = "server" /\ ended = NotEnded
  BY DEF ForkInit
<1> QED
  BY <1>1, <1>2, <1>3 DEF TypeInv, ForkTypeOK

LEMMA NextTypeInv ==
    ASSUME TypeInv, ForkInv', [ForkNext]_forkVars
    PROVE  TypeInv'
<1> USE DEF TypeInv, ForkTypeOK
<1>0. task' \in Tasks /\ signalId' \in 0 .. Len(task'.signals)
  BY DEF ForkInv, SignalType
<1>1. CASE World
  <2>1. CASE TimeoutPasses
    BY <1>0, <2>1 DEF TimeoutPasses, parentVars
  <2>2. CASE ClientCancels
    BY <1>0, <2>2 DEF ClientCancels, parentVars
  <2>3. CASE ChildStopped
    <3>1. stopSeen' \in BOOLEAN
      BY <2>3 DEF ChildStopped
    <3> QED
      BY <1>0, <2>3, <3>1 DEF ChildStopped, parentVars, Alive
  <2> QED
    BY <1>1, <2>1, <2>2, <2>3 DEF World
<1>2. CASE SetPgid
  <2>1. logFile' \in BOOLEAN
    BY <1>2 DEF SetPgid, childKeeps
  <2>2. /\ child' \in Alive \cup {"zombie"} /\ group' \in {"server", "own"}
        /\ ended' = ended \/ ended' \in Endings
        /\ child' = "zombie" => ended' \in Endings
    BY <1>2, EndingCodes DEF SetPgid, Exits, childKeeps, Alive
  <2>3. /\ sendSignals' \in BOOLEAN /\ timedOut' \in BOOLEAN /\ cancelRequested' \in BOOLEAN
        /\ stopSeen' \in BOOLEAN /\ logLocked' \in BOOLEAN
    BY <1>2 DEF SetPgid, childKeeps
  <2>4. UNCHANGED <<pc, pgid, result>>
    BY <1>2 DEF SetPgid, childKeeps
  <2> QED
    BY <1>0, <2>1, <2>2, <2>3, <2>4
<1>3. CASE RedirectOutput
  <2>1. logFile' \in BOOLEAN
    BY <1>3 DEF RedirectOutput, childKeeps
  <2>2. /\ child' \in Alive \cup {"zombie"} /\ group' \in {"server", "own"}
        /\ ended' = ended \/ ended' \in Endings
        /\ child' = "zombie" => ended' \in Endings
    BY <1>3, EndingCodes DEF RedirectOutput, Exits, childKeeps, Alive
  <2>3. /\ sendSignals' \in BOOLEAN /\ timedOut' \in BOOLEAN /\ cancelRequested' \in BOOLEAN
        /\ stopSeen' \in BOOLEAN /\ logLocked' \in BOOLEAN
    BY <1>3 DEF RedirectOutput, childKeeps
  <2>4. UNCHANGED <<pc, pgid, result>>
    BY <1>3 DEF RedirectOutput, childKeeps
  <2> QED
    BY <1>0, <2>1, <2>2, <2>3, <2>4
<1>4. CASE JobEnds
  BY <1>0, <1>4, EndingCodes DEF JobEnds, Exits, childKeeps, Alive, SignalStatus
<1>5. CASE Dies
  BY <1>0, <1>5, EndingCodes DEF Dies, childKeeps, Alive, SignalStatus
<1>6. CASE Fork
  BY <1>0, <1>6 DEF Fork, parentKeeps, Alive
<1>7. CASE CheckStop
  <2>1. sendSignals' \in BOOLEAN
    BY <1>7 DEF CheckStop, MustStop
  <2>2. pc' \in {"poll", "collect", "group"} /\ result' \in {result, NOT_KILLED}
    BY <1>7 DEF CheckStop
  <2> QED
    BY <1>0, <1>7, <2>1, <2>2 DEF CheckStop, parentKeeps
<1>8. CASE GetPgid
  <2>1. pgid' \in {"none", "server", "own"}
    BY <1>8 DEF GetPgid
  <2> QED
    BY <1>0, <1>8, <2>1 DEF GetPgid, parentKeeps
<1>9. CASE PkillChild
  <2>1. /\ child' \in Alive \cup {"none", "dying", "zombie", "reaped"}
        /\ ended' \in Endings \cup {NotEnded}
        /\ child' = "zombie" => ended' \in Endings
    BY <1>9, EndingCodes DEF PkillChild, Receives, Alive, SignalStatus
  <2> QED
    BY <1>0, <1>9, <2>1 DEF PkillChild, parentKeeps
<1>10. CASE PkillServer \/ PkillFails
  BY <1>0, <1>10 DEF PkillServer, PkillFails, parentKeeps
<1>11. CASE Poll
  BY <1>0, <1>11, EndingCodes DEF Poll, parentKeeps
<1>12. CASE Collect
  BY <1>0, <1>12 DEF Collect, parentKeeps
<1>13. CASE UNCHANGED forkVars
  BY <1>0, <1>13 DEF forkVars
<1> QED
  BY <1>1, <1>2, <1>3, <1>4, <1>5, <1>6, <1>7, <1>8, <1>9, <1>10, <1>11, <1>12, <1>13
     DEF ForkNext, Child, Parent

(* The variables keep their types; the result is a status waitpid can give. *)
THEOREM ForkTypeInvariant == ForkSpec => []ForkTypeOK
<1>1. TypeInv => ForkTypeOK
  BY DEF TypeInv
<1> QED
  BY <1>1, InitTypeInv, NextTypeInv, ForkInvariance, PTL DEF ForkSpec
=============================================================================
