------------------------------ MODULE Session ------------------------------
(***************************************************************************)
(* A VS Code client (client.ts) and its server: the heartbeats of the      *)
(* client, each preceded by a registration, its calls that close and open  *)
(* the log channel, and a server that dies and is started again with the   *)
(* clients it finds in clients.json (ServerUtils.cpp).                     *)
(*                                                                         *)
(* Calls are served in any order.  The client runs one callback at a time, *)
(* up to its first wait for something outside it.  The ticker is started   *)
(* when the initial heartbeat has ended.  The channel of GTest is opened   *)
(* and closed together with the log channel and is left out.               *)
(***************************************************************************)
EXTENDS LogChannels

CONSTANTS Me,           \* the client id of the VS Code client
          Beats, Initial,   \* its heartbeats that may overlap, and that of initHeartbeat
          MaxFailures, MaxCalls   \* bounds: crashes and lost answers, pending Open or Close calls

ASSUME SessionAssumption ==
    Me \in Clients /\ Initial \in Beats /\ MaxFailures \in Nat /\ MaxCalls \in Nat

VARIABLES status,       \* connectionStatus
          first,        \* noConnectionEstablishedBefore
          newClient, named,    \* newClient; the metadata name the client
          ticker,       \* setInterval was called
          stage,        \* [b] where a heartbeat is
          pending,      \* Open and Close calls on their way
          up, failures,
          clients,      \* Server::clients, a concurrent_set
          file,         \* clients.json: whole or cut off, and the ids it is to hold
          acknowledged, \* history: the clients told that they are registered
          asked         \* history: this run of the server was sent an Open

view == <<status, first, newClient, named, ticker>>
registry == <<clients, file, acknowledged>>
server == <<up, failures>>
sessionVars == <<logVars, view, stage, pending, server, registry, asked>>

Channel == <<Me, "log">>

Places == {"none", "register", "write", "writing", "registered", "refused", "beat", "unnamed",
           "linked", "unlinked", "failed", "await linked", "await unlinked"}

SessionTypeOK ==
    /\ LogTypeOK
    /\ status \in {"INIT", "BROKEN", "ESTABLISHED"}
    /\ first \in BOOLEAN /\ newClient \in BOOLEAN /\ named \in BOOLEAN /\ ticker \in BOOLEAN
    /\ up \in BOOLEAN /\ asked \in BOOLEAN
    /\ stage \in [Beats -> Places]
    /\ pending \in [{"Open", "Close"} -> 0..(MaxCalls + 3)]
    /\ failures \in 0..MaxFailures
    /\ clients \subseteq Clients /\ acknowledged \subseteq Clients
    /\ file \in [whole : BOOLEAN, ids : SUBSET Clients]

SessionInit ==
    /\ LogInit /\ \A h \in Handlers : channel[h] = Channel
    /\ status = "INIT" /\ first = TRUE /\ newClient = TRUE /\ named = FALSE
    /\ ticker = FALSE
    /\ stage = [b \in Beats |-> IF b = Initial THEN "register" ELSE "none"]
    /\ pending = [Open |-> 0, Close |-> 0]
    /\ up = TRUE /\ failures = 0 /\ asked = FALSE
    /\ clients = {} /\ acknowledged = {} /\ file = [whole |-> TRUE, ids |-> {}]

Awaits(b) == stage[b] \in {"await linked", "await unlinked"}
To(b, s) == stage' = [stage EXCEPT ![b] = s]
-----------------------------------------------------------------------------
(* The client. *)

(* heartbeat() by the ticker, whether the last one is answered or not. *)
Tick(b) ==
    /\ ticker /\ stage[b] = "none" /\ To(b, "register")
    /\ UNCHANGED <<logVars, view, pending, server, registry, asked>>

(* ProjectConfig.configure, for the user or the first connection, sends one, too. *)
Configure(b) ==
    /\ status # "ESTABLISHED" \/ newClient
    /\ ticker \/ b # Initial
    /\ stage[b] = "none" /\ To(b, "register")
    /\ UNCHANGED <<logVars, view, pending, server, registry, asked>>

(* The promise of a heartbeat is settled; initHeartbeat waits for that of the first. *)
Settled(b) == ticker' = (ticker \/ b = Initial) /\ To(b, "none")

(* setMetadata resolves in any case, and the heartbeat follows. *)
Named(b) ==
    /\ stage[b] \in {"registered", "refused"}
    /\ named' = (named \/ stage[b] = "registered")
    /\ To(b, IF named' THEN "beat" ELSE "unnamed")
    /\ UNCHANGED <<logVars, status, first, newClient, ticker, pending, server, registry, asked>>

(* provideLogChannel, n times: a Close that is not awaited, then an Open. *)
Ask(n) ==
    /\ pending' = IF up THEN [k \in {"Open", "Close"} |-> pending[k] + n] ELSE pending
    /\ asked' = (asked \/ (up /\ n > 0))

Room == \A k \in {"Open", "Close"} : pending[k] <= MaxCalls

(* Mutant of Provisions: the answer "not linked" is not looked at. *)
ProvisionsOfNew(isLinked) == (IF status # "ESTABLISHED" THEN 1 ELSE 0) + (IF newClient THEN 1 ELSE 0)

(* How often a successful heartbeat provides the channels, the first time apart. *)
Provisions(isLinked) ==
    (IF status # "ESTABLISHED" THEN 1 ELSE 0) + (IF newClient \/ ~ isLinked THEN 1 ELSE 0)

(* Mutant of Connected: only the first connection is shown as alive. *)
ConnectedFromInit(b, isLinked, n) ==
    /\ Ask(n + Provisions(isLinked))
    /\ newClient' = FALSE /\ status' = IF status = "INIT" THEN "ESTABLISHED" ELSE status
    /\ Settled(b)
    /\ UNCHANGED <<logVars, named, server, registry>>

(* The rest of the success handler, which waits for nothing outside. *)
Connected(b, isLinked, n) ==
    /\ Ask(n + Provisions(isLinked))
    /\ newClient' = FALSE /\ status' = "ESTABLISHED"
    /\ Settled(b)
    /\ UNCHANGED <<logVars, named, server, registry>>

(* Before the first time it fires an event and waits for its listeners. *)
Succeed(b) ==
    /\ stage[b] \in {"linked", "unlinked"} /\ Room
    /\ IF first
       THEN /\ first' = FALSE /\ To(b, IF stage[b] = "linked" THEN "await linked" ELSE "await unlinked")
            /\ UNCHANGED <<logVars, status, newClient, named, ticker, pending, server, registry, asked>>
       ELSE Connected(b, stage[b] = "linked", 0) /\ UNCHANGED first

(* The project is configured and its stubs are made. *)
FirstTime(b) ==
    /\ Awaits(b) /\ Room
    /\ Connected(b, stage[b] = "await linked", 1) /\ UNCHANGED first

(* A listener fails: nothing more is done for this heartbeat, and its promise *)
(* is never settled.                                                         *)
FirstTimeFails(b) ==
    /\ Awaits(b) /\ To(b, "none")
    /\ UNCHANGED <<logVars, view, pending, server, registry, asked>>

Fail(b) ==
    /\ stage[b] = "failed" /\ Settled(b)
    /\ status' = "BROKEN"
    /\ UNCHANGED <<logVars, first, newClient, named, pending, server, registry, asked>>
-----------------------------------------------------------------------------
(* The server. *)

Writing == \E b \in Beats : stage[b] = "writing"

(* Mutant of Insert: a client that is known is told so at once. *)
InsertOnce(b) ==
    /\ up /\ stage[b] = "register" /\ ~ Writing
    /\ clients' = clients \cup {Me}
    /\ IF Me \in clients
       THEN acknowledged' = acknowledged \cup {Me} /\ To(b, "registered")
       ELSE To(b, "write") /\ UNCHANGED acknowledged
    /\ UNCHANGED <<logVars, view, pending, server, file, asked>>

(* registerClient: insert, then writeToJson, each under the mutex of the set. *)
Insert(b) ==
    /\ up /\ stage[b] = "register" /\ ~ Writing
    /\ clients' = clients \cup {Me}
    /\ To(b, "write")
    /\ UNCHANGED <<logVars, view, pending, server, file, acknowledged, asked>>

StartWrite(b) ==
    /\ up /\ stage[b] = "write" /\ ~ Writing
    /\ file' = [whole |-> FALSE, ids |-> clients]
    /\ To(b, "writing")
    /\ UNCHANGED <<logVars, view, pending, server, clients, acknowledged, asked>>

EndWrite(b) ==
    /\ up /\ stage[b] = "writing"
    /\ file' = [file EXCEPT !.whole = TRUE]
    /\ acknowledged' = acknowledged \cup {Me}
    /\ To(b, "registered")
    /\ UNCHANGED <<logVars, view, pending, server, clients, asked>>

(* Heartbeat; an exception of setThreadOptions answers a client without a name. *)
Serve(b) ==
    /\ up
    /\ \/ /\ stage[b] = "beat" /\ Heartbeat(Me)
          /\ To(b, IF linked'[Me] THEN "linked" ELSE "unlinked")
       \/ /\ stage[b] = "unnamed" /\ To(b, "failed") /\ UNCHANGED logVars
    /\ UNCHANGED <<view, pending, server, registry, asked>>

ServeOpen(h) ==
    /\ up /\ pending["Open"] > 0 /\ Open(h, Channel)
    /\ pending' = [pending EXCEPT !["Open"] = @ - 1]
    /\ UNCHANGED <<view, stage, server, registry, asked>>

(* Mutant of ServeClose: a Close may be served once too often. *)
ServeCloseAgain ==
    /\ up /\ Close(Channel)
    /\ pending' = [pending EXCEPT !["Close"] = @ - 1]
    /\ UNCHANGED <<view, stage, server, registry, asked>>

ServeClose ==
    /\ up /\ pending["Close"] > 0 /\ Close(Channel)
    /\ pending' = [pending EXCEPT !["Close"] = @ - 1]
    /\ UNCHANGED <<view, stage, server, registry, asked>>

Run(h) == up /\ Provide(h) /\ UNCHANGED <<view, stage, pending, server, registry, asked>>

(* A call finds no server. *)
Refuse(b) ==
    /\ ~ up
    /\ \/ stage[b] = "register" /\ To(b, "refused")
       \/ stage[b] \in {"beat", "unnamed"} /\ To(b, "failed")
    /\ UNCHANGED <<logVars, view, pending, server, registry, asked>>

(* The answer to a heartbeat is lost with its connection. *)
LoseAnswer(b) ==
    /\ stage[b] \in {"linked", "unlinked"} /\ To(b, "failed")
    /\ failures < MaxFailures /\ failures' = failures + 1
    /\ UNCHANGED <<logVars, view, pending, up, registry, asked>>

(* The process ends: streams and callbacks with it, and the calls it has. *)
Crash ==
    /\ up /\ failures < MaxFailures
    /\ up' = FALSE /\ failures' = failures + 1
    /\ opened' = [ch \in Channels |-> FALSE] /\ hold' = [ch \in Channels |-> FALSE]
    /\ callbacks' = [ch \in Channels |-> <<>>] /\ at' = [h \in Handlers |-> "out"]
    /\ lastBeat' = [c \in Clients |-> "absent"] /\ linked' = [c \in Clients |-> FALSE]
    /\ clients' = {} /\ asked' = FALSE /\ pending' = [Open |-> 0, Close |-> 0]
    /\ stage' = [b \in Beats |->
          IF stage[b] \in {"register", "write", "writing"} THEN "refused"
          ELSE IF stage[b] \in {"beat", "unnamed"} THEN "failed" ELSE stage[b]]
    /\ UNCHANGED <<channel, view, file, acknowledged>>

(* loadClientsData: clients with a log directory of more than a day are forgotten. *)
Start(kept) ==
    /\ ~ up /\ file.whole /\ kept \subseteq file.ids
    /\ up' = TRUE /\ clients' = kept
    /\ acknowledged' = acknowledged \cap kept
    /\ UNCHANGED <<logVars, view, stage, pending, failures, file, asked>>

(* It cannot parse a file that was cut off, and ends, until someone removes it. *)
RemoveFile ==
    /\ ~ up /\ ~ file.whole
    /\ file' = [whole |-> TRUE, ids |-> {}] /\ acknowledged' = {}
    /\ UNCHANGED <<logVars, view, stage, pending, server, clients, asked>>

Beat(b) == \/ Succeed(b) \/ FirstTime(b) \/ FirstTimeFails(b) \/ Fail(b) \/ Serve(b)
Call(b) == \/ Tick(b) \/ Named(b) \/ Insert(b) \/ StartWrite(b) \/ EndWrite(b) \/ Refuse(b)

SessionNext ==
    \/ \E b \in Beats : Beat(b) \/ LoseAnswer(b)
    \/ \E b \in Beats : Call(b) \/ Configure(b)
    \/ \E h \in Handlers : ServeOpen(h) \/ Run(h)
    \/ ServeClose \/ Crash \/ RemoveFile
    \/ \E kept \in SUBSET Clients : Start(kept)

SessionSpec == SessionInit /\ [][SessionNext]_sessionVars

(***************************************************************************)
(* The ticker ticks, calls are served or refused, and handlers run.  No    *)
(* one owes a start of the server, or the removal of a broken file.        *)
(***************************************************************************)
FairSessionSpec ==
    /\ SessionSpec
    /\ \A b \in Beats : WF_sessionVars(Beat(b)) /\ WF_sessionVars(Call(b))
    /\ WF_sessionVars(ServeClose) /\ WF_sessionVars(\E h \in Handlers : ServeOpen(h))
    /\ \A h \in Handlers : WF_sessionVars(Run(h))
-----------------------------------------------------------------------------
(***************************************************************************)
(* A client that was told it is registered is known to the server, and is  *)
(* in clients.json whenever that is whole, across crashes at any point,    *)
(* registrations that overlap, and restarts; the exceptions are clients    *)
(* forgotten for their age, and a file removed by hand.                    *)
(***************************************************************************)
RegistryIsDurable ==
    \A c \in acknowledged : (file.whole => c \in file.ids) /\ (up => c \in clients)

(***************************************************************************)
(* A client that shows its connection as alive has asked the server that   *)
(* answers it for its log, also if that was started anew between two       *)
(* heartbeats, or answers to overlapping heartbeats are lost or swapped.   *)
(***************************************************************************)
StreamsAskedAgain ==
    /\ status = "ESTABLISHED" /\ lastBeat[Me] # "absent"
    /\ \A b \in Beats : ~ Awaits(b) /\ stage[b] \notin {"linked", "unlinked", "failed"}
    => asked

(***************************************************************************)
(* When the server stays up the client finds it, and does not lose it      *)
(* again, whatever failures of earlier heartbeats are still to arrive,     *)
(* provided that the initial heartbeat has ended.                          *)
(***************************************************************************)
Reconnects == <>[](up /\ ticker) => <>[](status = "ESTABLISHED")
=============================================================================
