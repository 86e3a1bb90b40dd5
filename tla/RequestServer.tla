---------------------------- MODULE RequestServer ----------------------------
(***************************************************************************)
(* The life of a gRPC request in the server (Server.h, Server.cpp):        *)
(* identification of the client, the lock that serialises the requests of  *)
(* one client, the work with its exceptions and cancellation points, and   *)
(* the status that is answered.  The locks are those of module FairMutex,  *)
(* one per client, created on demand in the hash map `locks`.              *)
(*                                                                         *)
(* Threads are the threads of gRPC's synchronous server: each runs one     *)
(* handler at a time and keeps its thread_local variables between them.    *)
(***************************************************************************)
EXTENDS FairMutex

CONSTANTS Clients,     \* client ids; Mutexes are the mutexes `locks` may create
          Kinds,       \* the kinds of requests that arrive, a subset of AllKinds
          TestMode,    \* the flag TestsGenServiceImpl::testMode
          TestClient,  \* LogUtils::TEST_CLIENT
          Overlap      \* TRUE: two insertions in `locks` may overlap

VARIABLES phase,       \* [t] the point the handler run by t has reached
          req,         \* [t] the request being handled
          cancelled,   \* [t] ServerContext::IsCancelled() of that request
          env,         \* [t] the thread_local client id and server context
          table,       \* [c] the mutexes stored in `locks` under key c
          lockRef,     \* [t] the mutex returned by getLock()
          announced,   \* [t] the client was told that it has to wait
          status       \* [t] the status the handler is going to return

requestVars == <<phase, req, cancelled, env, table, lockRef, announced, status>>
serverVars == <<mutexVars, requestVars>>

(***************************************************************************)
(* tests     the nine Generate*Tests       stubs    GenerateProjectStubs   *)
(* coverage  CreateTestsCoverageAndResult  config   ConfigureProject       *)
(* query     GetFunctionReturnType, PrintModulesContent, GetSourceCode     *)
(* targets   GetProjectTargets, GetFileTargets                             *)
(* channel   the log channels and Heartbeat: no request lock               *)
(* hello     Handshake and RegisterClient: do not identify the thread      *)
(***************************************************************************)
Streaming == {"tests", "stubs", "coverage", "config"}
Locking   == Streaming \cup {"query", "targets"}
AllKinds  == Locking \cup {"channel", "hello"}

(***************************************************************************)
(* Exceptions: the families the handlers distinguish.  Precondition stands *)
(* for the types answered with FAILED_PRECONDITION, Base for the others    *)
(* derived from BaseException, Std for any other exception.                *)
(***************************************************************************)
Exceptions == {"CompilationDatabase", "Cancellation", "Precondition",
               "NoSuchType", "Base", "Std"}

Statuses == {"OK", "INVALID_ARGUMENT", "FAILED_PRECONDITION", "CANCELLED",
             "UNIMPLEMENTED", "INTERNAL", "UNKNOWN"}

Phases == {"free", "received", "lookup", "insert", "try", "announce", "block",
           "construct", "work", "unwind", "reply"}

NoRequest == [kind |-> "hello", client |-> TestClient, named |-> FALSE]
Requests == [kind : AllKinds, client : Clients, named : BOOLEAN]
Contexts == {"none", "current", "ended"}

ASSUME RequestAssumption ==
    /\ Kinds \subseteq AllKinds
    /\ TestMode \in BOOLEAN
    /\ Overlap \in BOOLEAN
    /\ TestClient \in Clients

RequestTypeOK ==
    /\ phase \in [Threads -> Phases]
    /\ req \in [Threads -> Requests]
    /\ cancelled \in [Threads -> BOOLEAN]
    /\ env \in [Threads -> [client : Clients, ctx : Contexts]]
    /\ table \in [Clients -> SUBSET Mutexes]
    /\ lockRef \in [Threads -> Mutexes]
    /\ announced \in [Threads -> BOOLEAN]
    /\ status \in [Threads -> Statuses \cup {"pending"}]

RequestInit ==
    /\ MutexInit
    /\ phase = [t \in Threads |-> "free"]
    /\ req = [t \in Threads |-> NoRequest]
    /\ cancelled = [t \in Threads |-> FALSE]
    /\ env = [t \in Threads |-> [client |-> TestClient, ctx |-> "none"]]
    /\ table = [c \in Clients |-> {}]
    /\ lockRef = target
    /\ announced = [t \in Threads |-> FALSE]
    /\ status = [t \in Threads |-> "pending"]
-----------------------------------------------------------------------------
(* The clauses of BaseTestGenerate, GenerateProjectStubs and Get*Targets. *)
DatabaseClauses == [CompilationDatabase |-> "INVALID_ARGUMENT"]

(* The clauses of ProcessBaseTestRequest. *)
TestsClauses ==
    [CompilationDatabase |-> "FAILED_PRECONDITION",
     Precondition        |-> "FAILED_PRECONDITION",
     Cancellation        |-> "CANCELLED",
     NoSuchType          |-> "UNIMPLEMENTED",
     Base                |-> "INTERNAL"]

(* The clauses of CoverageAndResultsGenerator::generate. *)
CoverageClauses ==
    [Precondition |-> "FAILED_PRECONDITION", Cancellation |-> "CANCELLED"]

NoClauses == [e \in {} |-> "OK"]

(* The catch clauses around the construction of the test generator. *)
ConstructCatches(kind) ==
    IF kind \in {"tests", "stubs", "targets"} THEN DatabaseClauses ELSE NoClauses

(* The catch clauses around the work itself. *)
WorkCatches(kind) ==
    IF kind = "tests" THEN TestsClauses
    ELSE IF kind = "coverage" THEN CoverageClauses
    ELSE IF kind \in {"stubs", "targets"} THEN DatabaseClauses
    ELSE NoClauses

(* What gRPC answers when an exception leaves the handler. *)
Escaped == "UNKNOWN"

(* Mutant of Answer: an exception without a clause is answered as it is. *)
AnswerRaw(catches, e) == IF e \in DOMAIN catches THEN catches[e] ELSE e

Answer(catches, e) == IF e \in DOMAIN catches THEN catches[e] ELSE Escaped

(* ExecUtils::throwIfCancelled() reads the context stored in the thread. *)
SeesCancellation(t) ==
    IF env[t].ctx = "ended" THEN BOOLEAN     \* a destroyed ServerContext
                            ELSE {env[t].ctx = "current" /\ cancelled[t]}

GoTo(t, p) == phase' = [phase EXCEPT ![t] = p]

(* gRPC hands a request to an idle thread. *)
Receive(t, r) ==
    /\ phase[t] = "free"
    /\ r.kind \in Kinds
    /\ req' = [req EXCEPT ![t] = r]
    /\ GoTo(t, "received")
    /\ UNCHANGED <<mutexVars, cancelled, env, table, lockRef, announced, status>>

(* The client cancels the call or disconnects: Cancel may come at any time. *)
Cancel(t) ==
    /\ phase[t] # "free"
    /\ ~ cancelled[t]
    /\ cancelled' = [cancelled EXCEPT ![t] = TRUE]
    /\ UNCHANGED <<mutexVars, phase, req, env, table, lockRef, announced, status>>

AfterOptions(kind) == IF kind \in Locking THEN "lookup" ELSE "work"

(* The client id setThreadOptions() stores, when it does not throw. *)
Identity(r) == IF r.named THEN r.client ELSE TestClient

(* Mutant of SetThreadOptions: the test client keeps the old context. *)
SetOnlyClientId(t) ==
    /\ phase[t] = "received"
    /\ req[t].kind # "hello"
    /\ req[t].named \/ TestMode
    /\ env' = [env EXCEPT ![t] = [client |-> Identity(req[t]),
                                  ctx |-> IF req[t].named THEN "current" ELSE @.ctx]]
    /\ GoTo(t, AfterOptions(req[t].kind))
    /\ UNCHANGED <<mutexVars, req, cancelled, table, lockRef, announced, status>>

(* setThreadOptions(): the two branches that identify the thread. *)
SetThreadOptions(t) ==
    /\ phase[t] = "received"
    /\ req[t].kind # "hello"
    /\ req[t].named \/ TestMode
    /\ env' = [env EXCEPT ![t] = [client |-> Identity(req[t]),
                                  ctx |-> IF req[t].named THEN "current" ELSE "none"]]
    /\ GoTo(t, AfterOptions(req[t].kind))
    /\ UNCHANGED <<mutexVars, req, cancelled, table, lockRef, announced, status>>

(* setThreadOptions() throws; no handler has a clause for it there. *)
RejectUnnamed(t) ==
    /\ phase[t] = "received"
    /\ req[t].kind # "hello"
    /\ ~ req[t].named /\ ~ TestMode
    /\ status' = [status EXCEPT ![t] = Escaped]
    /\ GoTo(t, "reply")
    /\ UNCHANGED <<mutexVars, req, cancelled, env, table, lockRef, announced>>

(* Handshake and RegisterClient start working at once. *)
StartHello(t) ==
    /\ phase[t] = "received"
    /\ req[t].kind = "hello"
    /\ GoTo(t, "work")
    /\ UNCHANGED <<mutexVars, req, cancelled, env, table, lockRef, announced, status>>

(***************************************************************************)
(* getLock(): locks.try_emplace(client).  phmap::node_hash_map does not    *)
(* synchronise, so a search that finds no entry and the insertion after it *)
(* are two steps, and another thread's may fall between them.              *)
(***************************************************************************)
FindLock(t) ==
    /\ phase[t] = "lookup"
    /\ \E m \in table[env[t].client] : lockRef' = [lockRef EXCEPT ![t] = m]
    /\ GoTo(t, "try")
    /\ UNCHANGED <<mutexVars, req, cancelled, env, table, announced, status>>

MissLock(t) ==
    /\ phase[t] = "lookup"
    /\ table[env[t].client] = {}
    /\ Overlap \/ \A u \in Threads : phase[u] # "insert"
    /\ GoTo(t, "insert")
    /\ UNCHANGED <<mutexVars, req, cancelled, env, table, lockRef, announced, status>>

Unused == Mutexes \ UNION {table[c] : c \in Clients}

InsertLock(t) ==
    /\ phase[t] = "insert"
    /\ Unused # {}
    /\ LET m == CHOOSE m \in Unused : TRUE
       IN /\ table' = [table EXCEPT ![env[t].client] = @ \cup {m}]
          /\ lockRef' = [lockRef EXCEPT ![t] = m]
    /\ GoTo(t, "try")
    /\ UNCHANGED <<mutexVars, req, cancelled, env, announced, status>>

(* acquireLock(): try_lock(), the progress message, then lock(). *)
TryAcquire(t) ==
    /\ phase[t] = "try"
    /\ TryLockTrue(t, lockRef[t])
    /\ GoTo(t, "construct")
    /\ UNCHANGED <<req, cancelled, env, table, lockRef, announced, status>>

FindBusy(t) ==
    /\ phase[t] = "try"
    /\ TryLockFalse(t, lockRef[t])
    /\ GoTo(t, IF req[t].kind \in Streaming THEN "announce" ELSE "block")
    /\ UNCHANGED <<req, cancelled, env, table, lockRef, announced, status>>

AnnounceWait(t) ==
    /\ phase[t] = "announce"
    /\ announced' = [announced EXCEPT ![t] = TRUE]
    /\ GoTo(t, "block")
    /\ UNCHANGED <<mutexVars, req, cancelled, env, table, lockRef, status>>

(* Mutant of BlockOnLock: waits without a ticket of its own. *)
BlockWithoutTicket(t) ==
    /\ phase[t] = "block"
    /\ state' = [state EXCEPT ![t] = "asleep"]
    /\ UNCHANGED <<next, curr, ticket>>
    /\ target' = [target EXCEPT ![t] = lockRef[t]]
    /\ GoTo(t, "construct")
    /\ UNCHANGED <<req, cancelled, env, table, lockRef, announced, status>>

BlockOnLock(t) ==
    /\ phase[t] = "block"
    /\ LockEnter(t, lockRef[t])
    /\ GoTo(t, "construct")
    /\ UNCHANGED <<req, cancelled, env, table, lockRef, announced, status>>

(* The steps of a thread that sleeps inside lock(). *)
Wake(t)  == SpuriousWake(t) /\ UNCHANGED requestVars
Check(t) == Recheck(t) /\ UNCHANGED requestVars

(* The constructor of the test generator or build database succeeds. *)
Construct(t) ==
    /\ phase[t] = "construct"
    /\ state[t] = "holds"
    /\ GoTo(t, "work")
    /\ UNCHANGED <<mutexVars, req, cancelled, env, table, lockRef, announced, status>>

(* The constructor throws; nothing there looks at the cancellation. *)
ConstructFails(t, e) ==
    /\ phase[t] = "construct"
    /\ state[t] = "holds"
    /\ e # "Cancellation"
    /\ status' = [status EXCEPT ![t] = Answer(ConstructCatches(req[t].kind), e)]
    /\ GoTo(t, "unwind")
    /\ UNCHANGED <<mutexVars, req, cancelled, env, table, lockRef, announced>>

(* Mutant of AfterWork: the handler returns without releasing the lock. *)
ReplyAtOnce(kind) == "reply"

AfterWork(kind) == IF kind \in Locking THEN "unwind" ELSE "reply"

(* Besides OK: GetSourceCode without a file, ConfigureProject without a mode. *)
Returned(kind) == {"OK"}
    \cup (IF kind = "query" THEN {"INVALID_ARGUMENT"} ELSE {})
    \cup (IF kind = "config" THEN {"CANCELLED"} ELSE {})

(* ProcessBaseTestRequest(), generate() and their like run to the end. *)
WorkDone(t) ==
    /\ phase[t] = "work"
    /\ \E s \in Returned(req[t].kind) : status' = [status EXCEPT ![t] = s]
    /\ GoTo(t, AfterWork(req[t].kind))
    /\ UNCHANGED <<mutexVars, req, cancelled, env, table, lockRef, announced>>

(* The work throws; Cancellation only where throwIfCancelled() saw it. *)
WorkFails(t, e) ==
    /\ phase[t] = "work"
    /\ e = "Cancellation" => req[t].kind \in Locking /\ TRUE \in SeesCancellation(t)
    /\ status' = [status EXCEPT ![t] = Answer(WorkCatches(req[t].kind), e)]
    /\ GoTo(t, AfterWork(req[t].kind))
    /\ UNCHANGED <<mutexVars, req, cancelled, env, table, lockRef, announced>>

(* The std::unique_lock goes out of scope, normally or by unwinding. *)
Release(t) ==
    /\ phase[t] = "unwind"
    /\ Unlock(t, lockRef[t])
    /\ GoTo(t, "reply")
    /\ UNCHANGED <<req, cancelled, env, table, lockRef, announced, status>>

(* The handler has returned: the answer is sent, the ServerContext dies. *)
Reply(t) ==
    /\ phase[t] = "reply"
    /\ req' = [req EXCEPT ![t] = NoRequest]
    /\ cancelled' = [cancelled EXCEPT ![t] = FALSE]
    /\ env' = [env EXCEPT ![t] = [client |-> @.client,
                                  ctx |-> IF @.ctx = "current" THEN "ended" ELSE @.ctx]]
    /\ announced' = [announced EXCEPT ![t] = FALSE]
    /\ status' = [status EXCEPT ![t] = "pending"]
    /\ GoTo(t, "free")
    /\ UNCHANGED <<mutexVars, table, lockRef>>

(* The steps of a handler that need nobody else's help to be taken. *)
HandlerStep(t) ==
    \/ SetThreadOptions(t) \/ RejectUnnamed(t) \/ StartHello(t)
    \/ FindLock(t) \/ MissLock(t) \/ InsertLock(t)
    \/ TryAcquire(t) \/ FindBusy(t) \/ AnnounceWait(t) \/ BlockOnLock(t) \/ Check(t)
    \/ Construct(t) \/ (\E e \in Exceptions : ConstructFails(t, e))
    \/ WorkDone(t) \/ (\E e \in Exceptions : WorkFails(t, e))
    \/ Release(t) \/ Reply(t)

RequestNext ==
    \E t \in Threads :
        \/ \E r \in Requests : Receive(t, r)
        \/ Cancel(t)
        \/ Wake(t)
        \/ HandlerStep(t)

RequestSpec == RequestInit /\ [][RequestNext]_serverVars

(***************************************************************************)
(* Threads are scheduled and the work of a request ends: its loops range   *)
(* over finite lists and its child processes end (module ForkTask).        *)
(***************************************************************************)
FairRequestSpec == RequestSpec /\ \A t \in Threads : WF_serverVars(HandlerStep(t))
-----------------------------------------------------------------------------
(* t runs the part of a handler that the request lock protects. *)
Running(t) == phase[t] \in {"construct", "work", "unwind"} /\ state[t] = "holds"

(***************************************************************************)
(* The requests of one client run one after the other: they share its      *)
(* project directories, logs and build artifacts.                          *)
(***************************************************************************)
OneTaskPerClient ==
    \A t, u \in Threads :
        Running(t) /\ Running(u) /\ env[t].client = env[u].client => t = u

(***************************************************************************)
(* Whatever handler the thread ran before, a running request reads its own *)
(* client id and its own cancellation flag from the thread_local storage.  *)
(***************************************************************************)
OwnEnvironment ==
    \A t \in Threads : Running(t) =>
        /\ env[t].client = Identity(req[t])
        /\ env[t].ctx = IF req[t].named THEN "current" ELSE "none"

(***************************************************************************)
(* Generation and coverage requests answer CANCELLED only to a client that *)
(* cancelled; the handlers take another's flag for none of theirs.         *)
(***************************************************************************)
CancelledOnlyOnRequest ==
    \A t \in Threads :
        status[t] = "CANCELLED" /\ req[t].kind \in {"tests", "coverage"} => cancelled[t]

(***************************************************************************)
(* A thread between two requests owns no lock and is in no queue, on every *)
(* path: normal end, caught or escaping exception, rejected client.        *)
(***************************************************************************)
NoLockLeak ==
    \A t \in Threads : phase[t] \in {"free", "reply"} => state[t] = "idle"

(***************************************************************************)
(* A client with a progress stream is told before its request goes to      *)
(* sleep behind another one.                                               *)
(***************************************************************************)
WaitIsAnnounced ==
    \A t \in Threads :
        state[t] = "asleep" /\ req[t].kind \in Streaming => announced[t]

(***************************************************************************)
(* Every request is answered: no handler waits for ever for the lock of    *)
(* its client, cancelled or not.                                           *)
(***************************************************************************)
EveryRequestAnswered ==
    \A t \in Threads : phase[t] # "free" ~> phase[t] = "free"

(***************************************************************************)
(* The handlers use the mutexes as FairMutex specifies: a step of the      *)
(* server is a step of the mutexes or leaves them alone.                   *)
(***************************************************************************)
UsesFairMutex == MutexInit /\ [][MutexNext]_mutexVars
=============================================================================
