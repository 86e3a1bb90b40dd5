------------------------------- MODULE ForkTask -------------------------------
(***************************************************************************)
(* One run of a child process by the server (tasks/BaseForkTask.cpp): the  *)
(* parent's loop that polls the child and escalates through a list of      *)
(* signals when the timeout expires, the request is cancelled or the child *)
(* is stopped; the child's way to its job; and the delivery of signals by  *)
(* `pkill -g`.  RunKleeTask and ShellExecTask are values of the constants. *)
(*                                                                         *)
(* throwIfNoSuchProcess never throws here: no call of this code sets errno *)
(* to ESRCH for a child that has not been reaped, and run() returns as     *)
(* soon as it reaps.  For the same reason waitpid never fails.             *)
(***************************************************************************)
EXTENDS Sequences, Integers

CONSTANT Tasks         \* the tasks the server may run

(***************************************************************************)
(* signals      shutDownSignals       handlesTerm  has a SIGTERM handler   *)
(* timed        timeout.has_value()   logs         logs between fork() and *)
(* retain       retainOutputFile                   its job                 *)
(* codes        the exit codes of the program                              *)
(***************************************************************************)
ASSUME ForkAssumption == \A k \in Tasks :
    /\ DOMAIN k = {"signals", "timed", "handlesTerm", "logs", "retain", "codes"}
    /\ k.signals \in Seq({"TERM", "KILL"})
    /\ {k.timed, k.handlesTerm, k.logs, k.retain} \subseteq BOOLEAN
    /\ k.codes \subseteq 0 .. 255

(* Both lists of the code end with SIGKILL. *)
ASSUME KillAssumption == \A k \in Tasks : k.signals # <<>> /\ k.signals[Len(k.signals)] = "KILL"

VARIABLES task,         \* the task being run, never changed
          pc,           \* where the parent is in run()
          signalId,     \* index of the next signal to send
          sendSignals,  \* the local flag of the same name
          pgid,         \* the process group read by getpgid(pid)
          result,       \* the status run() returns
          timedOut,     \* more than the timeout has passed since the start
          cancelRequested,  \* RequestEnvironment::isCancelled()
          child,        \* the state of the child process
          group,        \* the process group of the child
          ended,        \* how the child ended, as waitpid will encode it
          stopSeen,     \* the current stop of the child has been reported
          logLocked,    \* the child's copy of the log mutex is held for ever
          logFile       \* the output file exists

parentVars == <<task, pc, signalId, sendSignals, pgid, result, logFile>>
forkVars == <<task, pc, signalId, sendSignals, pgid, result, timedOut, cancelRequested,
              child, group, ended, stopSeen, logLocked, logFile>>

LOG_FAIL_CODE     == 8
SETPGID_FAIL_CODE == 10
NOT_KILLED        == -1

(* The raw wait status of a process that died from a signal. *)
SignalStatus == [TERM |-> 15, KILL |-> 9, SEGV |-> 11]

ChildCodes == (UNION {k.codes : k \in Tasks}) \cup {LOG_FAIL_CODE, SETPGID_FAIL_CODE}
Endings == [how : {"exit"}, code : ChildCodes]
             \cup [how : {"signal"}, code : {15, 9, 11}]
NotEnded == [how |-> "alive", code |-> 0]

(***************************************************************************)
(* The child: none before fork(); forked in the group of the server;       *)
(* grouped after setpgid(); running its job; stopped by a job-control      *)
(* signal; dying when SIGKILL is pending; zombie; reaped by waitpid().     *)
(***************************************************************************)
Alive == {"forked", "grouped", "running", "stopped"}

ForkTypeOK ==
    /\ task \in Tasks
    /\ pc \in {"fork", "check", "group", "pkill", "poll", "collect",
               "done", "failed", "killed"}
    /\ signalId \in 0 .. Len(task.signals)
    /\ sendSignals \in BOOLEAN
    /\ pgid \in {"none", "server", "own"}
    /\ result \in {NOT_KILLED, 0, 15, 9, 11} \cup ChildCodes
    /\ child \in Alive \cup {"none", "dying", "zombie", "reaped"}
    /\ group \in {"server", "own"}
    /\ ended \in Endings \cup {NotEnded}
    /\ timedOut \in BOOLEAN /\ cancelRequested \in BOOLEAN /\ stopSeen \in BOOLEAN
    /\ logLocked \in BOOLEAN /\ logFile \in BOOLEAN

ForkInit ==
    /\ task \in Tasks
    /\ pc = "fork" /\ signalId = 0 /\ sendSignals = FALSE /\ pgid = "none"
    /\ result = 0
    /\ timedOut = FALSE /\ cancelRequested = FALSE
    /\ child = "none" /\ group = "server" /\ ended = NotEnded
    /\ stopSeen = FALSE /\ logLocked = FALSE
    /\ logFile \in BOOLEAN            \* a failed run leaves the file behind
-----------------------------------------------------------------------------
(* The world outside the two processes *)

TimeoutPasses ==
    /\ task.timed /\ pc # "fork" /\ ~ timedOut
    /\ timedOut' = TRUE
    /\ UNCHANGED <<parentVars, cancelRequested, child, group, ended, stopSeen, logLocked>>

ClientCancels ==
    /\ ~ cancelRequested
    /\ cancelRequested' = TRUE
    /\ UNCHANGED <<parentVars, timedOut, child, group, ended, stopSeen, logLocked>>

(* Somebody stops the child. *)
ChildStopped ==
    /\ child = "running"
    /\ child' = "stopped"
    /\ stopSeen' = FALSE
    /\ UNCHANGED <<parentVars, timedOut, cancelRequested, group, ended, logLocked>>

World == TimeoutPasses \/ ClientCancels \/ ChildStopped
-----------------------------------------------------------------------------
(* The child: case 0 of the switch in run() *)

childKeeps == UNCHANGED <<task, pc, signalId, sendSignals, pgid, result, timedOut,
                          cancelRequested, stopSeen, logLocked>>

Exits(code) ==
    /\ child' = "zombie"
    /\ ended' = [how |-> "exit", code |-> code]

(***************************************************************************)
(* setpgid(pid, pid); when it fails the child exits after redirectOutput().*)
(* Both error exits log, and hang if the log mutex is held.                *)
(***************************************************************************)
SetPgid ==
    /\ child = "forked"
    /\ \/ child' = "grouped" /\ group' = "own" /\ UNCHANGED <<ended, logFile>>
       \/ /\ ~ logLocked
          /\ UNCHANGED group
          /\ \/ Exits(SETPGID_FAIL_CODE) /\ logFile' = TRUE
             \/ Exits(LOG_FAIL_CODE) /\ logFile' \in {logFile, TRUE}
    /\ childKeeps

(* redirectOutput(): redirectMessage() may log, an error always does. *)
RedirectOutput ==
    /\ child = "grouped"
    /\ \/ /\ ~ (task.logs /\ logLocked)
          /\ child' = "running" /\ logFile' = TRUE /\ UNCHANGED ended
       \/ /\ ~ logLocked
          /\ Exits(LOG_FAIL_CODE) /\ logFile' \in {logFile, TRUE}
    /\ UNCHANGED group
    /\ childKeeps

(* childProcessJob() returns, or the program crashes. *)
JobEnds ==
    /\ child = "running"
    /\ \/ \E code \in task.codes : Exits(code)
       \/ /\ child' = "zombie"
          /\ ended' = [how |-> "signal", code |-> SignalStatus.SEGV]
    /\ UNCHANGED <<group, logFile>>
    /\ childKeeps

(* The kernel acts on the pending SIGKILL. *)
Dies ==
    /\ child = "dying"
    /\ child' = "zombie"
    /\ ended' = [how |-> "signal", code |-> SignalStatus.KILL]
    /\ UNCHANGED <<group, logFile>>
    /\ childKeeps

Child == SetPgid \/ RedirectOutput \/ JobEnds \/ Dies
-----------------------------------------------------------------------------
(* The parent *)

parentKeeps == UNCHANGED <<task, timedOut, cancelRequested, group>>

(* fork(): the child's copy of a mutex another thread holds stays locked. *)
Fork ==
    /\ pc = "fork"
    /\ \/ /\ pc' = "check" /\ child' = "forked"
          /\ logLocked' \in BOOLEAN
       \/ /\ pc' = "failed"                  \* throws BaseException
          /\ UNCHANGED <<child, logLocked>>
    /\ UNCHANGED <<signalId, sendSignals, pgid, result, ended, stopSeen, logFile>>
    /\ parentKeeps

(* Mutant of MustStop: having a timeout is taken for its having passed. *)
MustStopAtOnce == sendSignals \/ task.timed \/ cancelRequested

(* Mutant of MustStop: the cancellation of the request is not polled. *)
MustStopOnTimeout == sendSignals \/ (task.timed /\ timedOut)

MustStop == sendSignals \/ (task.timed /\ timedOut) \/ cancelRequested

(* Mutant of CheckStop: gives up before the last signal of the list. *)
CheckStopEarly ==
    /\ pc = "check"
    /\ sendSignals' = MustStop
    /\ IF ~ MustStop THEN pc' = "poll" /\ UNCHANGED result
       ELSE IF signalId >= Len(task.signals) - 1 THEN pc' = "collect" /\ result' = NOT_KILLED
       ELSE pc' = "group" /\ UNCHANGED result
    /\ UNCHANGED <<signalId, pgid, child, ended, stopSeen, logLocked, logFile>>
    /\ parentKeeps

(* The head of the loop, up to the decision to send a signal. *)
CheckStop ==
    /\ pc = "check"
    /\ sendSignals' = MustStop
    /\ IF ~ MustStop THEN pc' = "poll" /\ UNCHANGED result
       ELSE IF signalId = Len(task.signals) THEN pc' = "collect" /\ result' = NOT_KILLED
       ELSE pc' = "group" /\ UNCHANGED result
    /\ UNCHANGED <<signalId, pgid, child, ended, stopSeen, logLocked, logFile>>
    /\ parentKeeps

GetPgid ==
    /\ pc = "group"
    /\ pgid' = group
    /\ pc' = "pkill"
    /\ UNCHANGED <<signalId, sendSignals, result, child, ended, stopSeen, logLocked, logFile>>
    /\ parentKeeps

(***************************************************************************)
(* What SIGTERM and SIGKILL do to the child, if it is still alive.  The    *)
(* handler loguru installs in the server is the child's until it execs: it *)
(* logs, so it may hang as the other log calls do.                         *)
(***************************************************************************)
Receives(signal) ==
    \/ child \notin Alive /\ UNCHANGED <<child, ended>>
    \/ child \in Alive /\ signal = "KILL" /\ child' = "dying" /\ UNCHANGED ended
    \/ child \in Alive \ {"stopped"} /\ signal = "TERM"
         /\ child' = "zombie" /\ ended' = [how |-> "signal", code |-> SignalStatus.TERM]
    \/ child = "stopped" /\ signal = "TERM" /\ UNCHANGED <<child, ended>>
    \/ signal = "TERM" /\ task.handlesTerm /\ UNCHANGED <<child, ended>>

(* Mutant of PkillChild: the index is also incremented by waitAfterSignal. *)
PkillSkipsOne ==
    /\ pc = "pkill" /\ pgid = "own"
    /\ Receives(task.signals[signalId + 1])
    /\ signalId' = signalId + 2
    /\ pc' = "poll"
    /\ UNCHANGED <<sendSignals, pgid, result, stopSeen, logLocked, logFile>>
    /\ parentKeeps

(* pkill -g pgid -signal succeeds; waitAfterSignal() follows. *)
PkillChild ==
    /\ pc = "pkill" /\ pgid = "own"
    /\ Receives(task.signals[signalId + 1])
    /\ signalId' = signalId + 1
    /\ pc' = "poll"
    /\ UNCHANGED <<sendSignals, pgid, result, stopSeen, logLocked, logFile>>
    /\ parentKeeps

(* The group read is the server's: the server itself gets the signal. *)
PkillServer ==
    /\ pc = "pkill" /\ pgid = "server"
    /\ pc' = "killed"
    /\ UNCHANGED <<signalId, sendSignals, pgid, result, child, ended, stopSeen,
                   logLocked, logFile>>
    /\ parentKeeps

(* std::system() or pkill fails: `continue` without the next signal. *)
PkillFails ==
    /\ pc = "pkill"
    /\ pc' = "check"
    /\ UNCHANGED <<signalId, sendSignals, pgid, result, child, ended, stopSeen,
                   logLocked, logFile>>
    /\ parentKeeps

(* Mutant of Poll: a stopped child is taken for one that has ended. *)
PollStopIsEnd ==
    /\ pc = "poll"
    /\ IF child \in {"zombie", "stopped"}
       THEN result' = ended.code /\ pc' = "collect"
       ELSE pc' = "check" /\ UNCHANGED result
    /\ child' = IF child = "zombie" THEN "reaped" ELSE child
    /\ UNCHANGED <<signalId, sendSignals, pgid, ended, stopSeen, logLocked, logFile>>
    /\ parentKeeps

(* waitpid(pid, &status, WNOHANG | WUNTRACED) and the tests on its result. *)
Poll ==
    /\ pc = "poll"
    /\ IF child = "zombie"
       THEN /\ result' = ended.code
            /\ child' = "reaped"
            /\ pc' = "collect"
            /\ UNCHANGED <<sendSignals, stopSeen>>
       ELSE /\ pc' = "check"
            /\ stopSeen' = (stopSeen \/ child = "stopped")
            /\ sendSignals' = (sendSignals \/ (child = "stopped" /\ ~ stopSeen))
            /\ UNCHANGED <<result, child>>
    /\ UNCHANGED <<signalId, pgid, ended, logLocked, logFile>>
    /\ parentKeeps

(* The end of run(); the member `cancelled` is false on every path. *)
Collect ==
    /\ pc = "collect"
    /\ pc' = "done"
    /\ logFile' = (logFile /\ (result # 0 \/ task.retain))
    /\ UNCHANGED <<signalId, sendSignals, pgid, result, child, ended, stopSeen, logLocked>>
    /\ parentKeeps

Parent == \/ Fork \/ CheckStop \/ GetPgid \/ PkillChild \/ PkillServer \/ PkillFails
          \/ Poll \/ Collect

ForkNext == World \/ Child \/ Parent

ForkSpec == ForkInit /\ [][ForkNext]_forkVars

(***************************************************************************)
(* Both processes are scheduled and SIGKILL takes effect.  pkill may fail, *)
(* but not for ever.  Nothing makes the program end by itself.             *)
(***************************************************************************)
FairForkSpec ==
    /\ ForkSpec
    /\ WF_forkVars(Parent) /\ WF_forkVars(Dies)
    /\ SF_forkVars(PkillChild \/ PkillServer)
-----------------------------------------------------------------------------
Returned == pc = "done"

(***************************************************************************)
(* run() reports the wait status of its own child: a status other than -1  *)
(* means that the child has been reaped and ended that way.                *)
(***************************************************************************)
ReportsTheChild ==
    Returned /\ result # NOT_KILLED => child = "reaped" /\ result = ended.code

(***************************************************************************)
(* run() never returns with a child that may go on working: it has ended,  *)
(* or SIGKILL has been sent.                                               *)
(***************************************************************************)
ChildDoesNotOutlive == Returned => child \notin Alive

(***************************************************************************)
(* A child is signalled only for a reason: timeout, cancellation or stop.  *)
(***************************************************************************)
NoUnprovokedSignal ==
    signalId > 0 => timedOut \/ cancelRequested \/ stopSeen

(***************************************************************************)
(* A timeout or a cancellation ends the run, even when the child hangs or  *)
(* ignores SIGTERM (or the server has signalled its own group).            *)
(***************************************************************************)
StopEndsRun ==
    ((task.timed /\ timedOut) \/ cancelRequested) /\ pc # "fork"
        ~> pc \in {"done", "failed", "killed"}
=============================================================================
