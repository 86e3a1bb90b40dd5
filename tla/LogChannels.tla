----------------------------- MODULE LogChannels -----------------------------
(***************************************************************************)
(* The log streams of the server (Server.cpp, utils/LogUtils.cpp).         *)
(*                                                                         *)
(* An Open call keeps its handler thread, and with it the ServerWriter of  *)
(* the stream, alive in a spin loop until a Close call lowers a flag.  The *)
(* handler registers a loguru callback whose data is on its own stack.     *)
(* The watcher forgets clients that sent no heartbeat for IDLE_TIMEOUT.    *)
(***************************************************************************)
EXTENDS Sequences, Naturals, FiniteSets

CONSTANTS Handlers,    \* gRPC threads that may serve an Open call
          Clients,     \* client ids
          Silent       \* the clients that may stop sending heartbeats

ASSUME SilentAssumption == Silent \subseteq Clients /\ IsFiniteSet(Handlers)

VARIABLES opened,      \* [ch] openedChannel[client], openedGTestChannel[client]
          hold,        \* [ch] holdLockFlag[callbackName]
          callbacks,   \* [ch] the callbacks loguru has under that name, oldest first
          at,          \* [h] the point of provideLoggingCallbacks h has reached
          channel,     \* [h] the channel h was asked to open
          lastBeat,    \* [c] linkedWithClient[c]: absent, recent or outdated
          linked       \* [c] the last HeartbeatResponse sent to c

logVars == <<opened, hold, callbacks, at, channel, lastBeat, linked>>

(* openedChannel with logPrefix, and openedGTestChannel with gtestLogPrefix. *)
Streams  == {"log", "gtest"}
Channels == Clients \X Streams

(***************************************************************************)
(* out       not in an Open call     loaded   read openedChannel as false  *)
(* claimed   changed it to true      added    has registered its callback  *)
(* spin      raised the flag         leave    found the flag lowered       *)
(* removed   has called remove_callback                                    *)
(***************************************************************************)
Points == {"out", "loaded", "claimed", "added", "spin", "leave", "removed"}

LogTypeOK ==
    /\ opened \in [Channels -> BOOLEAN]
    /\ hold \in [Channels -> BOOLEAN]
    /\ callbacks \in [Channels -> Seq(Handlers)]
    /\ at \in [Handlers -> Points]
    /\ channel \in [Handlers -> Channels]
    /\ lastBeat \in [Clients -> {"absent", "recent", "outdated"}]
    /\ linked \in [Clients -> BOOLEAN]

LogInit ==
    /\ opened = [ch \in Channels |-> FALSE]
    /\ hold = [ch \in Channels |-> FALSE]
    /\ callbacks = [ch \in Channels |-> <<>>]
    /\ at = [h \in Handlers |-> "out"]
    /\ channel \in {[h \in Handlers |-> ch] : ch \in Channels}
    /\ lastBeat = [c \in Clients |-> "absent"]
    /\ linked = [c \in Clients |-> FALSE]
-----------------------------------------------------------------------------
Goto(h, p) == at' = [at EXCEPT ![h] = p]

(* oldValue = channelStorage[client].load(): the call returns when it is set. *)
Open(h, ch) ==
    /\ at[h] = "out"
    /\ channel' = [channel EXCEPT ![h] = ch]
    /\ Goto(h, IF opened[ch] THEN "out" ELSE "loaded")
    /\ UNCHANGED <<opened, hold, callbacks, lastBeat, linked>>

(* Mutant of Claim: a plain store instead of the compare-and-exchange. *)
ClaimByStore(h) ==
    /\ at[h] = "loaded"
    /\ Goto(h, "claimed")
    /\ opened' = [opened EXCEPT ![channel[h]] = TRUE]
    /\ UNCHANGED <<hold, callbacks, channel, lastBeat, linked>>

(* compare_exchange(false, true): the loser of the race returns. *)
Claim(h) ==
    /\ at[h] = "loaded"
    /\ Goto(h, IF opened[channel[h]] THEN "out" ELSE "claimed")
    /\ opened' = [opened EXCEPT ![channel[h]] = TRUE]
    /\ UNCHANGED <<hold, callbacks, channel, lastBeat, linked>>

(* Mutant of AddCallback: registers something that is not the handler's data. *)
AddWrongData(h) ==
    /\ at[h] = "claimed"
    /\ callbacks' = [callbacks EXCEPT ![channel[h]] = Append(@, channel[h])]
    /\ Goto(h, "added")
    /\ UNCHANGED <<opened, hold, channel, lastBeat, linked>>

(* loguru::add_callback(callbackName, handler, &data) *)
AddCallback(h) ==
    /\ at[h] = "claimed"
    /\ callbacks' = [callbacks EXCEPT ![channel[h]] = Append(@, h)]
    /\ Goto(h, "added")
    /\ UNCHANGED <<opened, hold, channel, lastBeat, linked>>

(* holdLockFlag[callbackName] = true *)
RaiseFlag(h) ==
    /\ at[h] = "added"
    /\ hold' = [hold EXCEPT ![channel[h]] = TRUE]
    /\ Goto(h, "spin")
    /\ UNCHANGED <<opened, callbacks, channel, lastBeat, linked>>

(* The turn of the spin loop in which exchange(true) returns false. *)
LeaveSpin(h) ==
    /\ at[h] = "spin"
    /\ ~ hold[channel[h]]
    /\ hold' = [hold EXCEPT ![channel[h]] = TRUE]
    /\ Goto(h, "leave")
    /\ UNCHANGED <<opened, callbacks, channel, lastBeat, linked>>

(* Mutant of RemoveCallback: the call is forgotten. *)
KeepCallback(h) ==
    /\ at[h] = "leave"
    /\ Goto(h, "removed")
    /\ UNCHANGED <<opened, hold, callbacks, channel, lastBeat, linked>>

(* Mutant of RemoveCallback: removes every callback of that name. *)
RemoveAllOfName(h) ==
    /\ at[h] = "leave"
    /\ callbacks' = [callbacks EXCEPT ![channel[h]] = <<>>]
    /\ Goto(h, "removed")
    /\ UNCHANGED <<opened, hold, channel, lastBeat, linked>>

(* loguru::remove_callback(name) removes the first callback of that name. *)
RemoveCallback(h) ==
    /\ at[h] = "leave"
    /\ callbacks' = [callbacks EXCEPT ![channel[h]] = IF @ = <<>> THEN @ ELSE Tail(@)]
    /\ Goto(h, "removed")
    /\ UNCHANGED <<opened, hold, channel, lastBeat, linked>>

(* Mutant of EndStream: the channel stays marked as open. *)
EndWithoutReset(h) ==
    /\ at[h] = "removed"
    /\ Goto(h, "out")
    /\ UNCHANGED <<opened, hold, callbacks, channel, lastBeat, linked>>

(* channelStorage[client] = false; the handler returns, the writer dies. *)
EndStream(h) ==
    /\ at[h] = "removed"
    /\ opened' = [opened EXCEPT ![channel[h]] = FALSE]
    /\ Goto(h, "out")
    /\ UNCHANGED <<hold, callbacks, channel, lastBeat, linked>>

(* CloseLogChannel, CloseGTestChannel *)
Close(ch) ==
    /\ hold' = [hold EXCEPT ![ch] = FALSE]
    /\ UNCHANGED <<opened, callbacks, at, channel, lastBeat, linked>>

(* Heartbeat, under logChannelOperationsMutex. *)
Heartbeat(c) ==
    /\ linked' = [linked EXCEPT ![c] = (lastBeat[c] = "recent")]
    /\ lastBeat' = [lastBeat EXCEPT ![c] = "recent"]
    /\ UNCHANGED <<opened, hold, callbacks, at, channel>>

(* More than IDLE_TIMEOUT passes without a heartbeat of c. *)
FallSilent(c) ==
    /\ c \in Silent
    /\ lastBeat[c] = "recent"
    /\ lastBeat' = [lastBeat EXCEPT ![c] = "outdated"]
    /\ UNCHANGED <<opened, hold, callbacks, at, channel, linked>>

(***************************************************************************)
(* A turn of logChannelsWatcher that finds outdated clients.  It runs      *)
(* under logChannelOperationsMutex; the order of its stores to different   *)
(* channels cannot be observed, as every handler uses one channel.         *)
(***************************************************************************)
Outdated == {c \in Clients : lastBeat[c] = "outdated"}

Watch ==
    /\ Outdated # {}
    /\ lastBeat' = [c \in Clients |-> IF c \in Outdated THEN "absent" ELSE lastBeat[c]]
    /\ opened' = [ch \in Channels |-> ch[1] \notin Outdated /\ opened[ch]]
    /\ UNCHANGED <<hold, callbacks, at, channel, linked>>

(* The steps a handler takes by itself once its Open call has begun. *)
Provide(h) == \/ Claim(h) \/ AddCallback(h) \/ RaiseFlag(h)
              \/ LeaveSpin(h) \/ RemoveCallback(h) \/ EndStream(h)

LogNext ==
    \/ \E h \in Handlers : Provide(h) \/ \E ch \in Channels : Open(h, ch)
    \/ \E ch \in Channels : Close(ch)
    \/ \E c \in Clients : Heartbeat(c) \/ FallSilent(c)
    \/ Watch

LogSpec == LogInit /\ [][LogNext]_logVars

(***************************************************************************)
(* Handler threads and the watcher thread are scheduled.  Clients owe      *)
(* nothing: they need not open, close or send heartbeats.                  *)
(***************************************************************************)
FairLogSpec ==
    LogSpec /\ WF_logVars(Watch) /\ \A h \in Handlers : WF_logVars(Provide(h))
-----------------------------------------------------------------------------
(* The handlers between add_callback and remove_callback of a channel. *)
Registered(ch) == {h \in Handlers : channel[h] = ch /\ at[h] \in {"added", "spin", "leave"}}

(* The handlers that have claimed a channel and not yet given it back. *)
Providers(ch) == {h \in Handlers : channel[h] = ch /\ at[h] \notin {"out", "loaded"}}

(* The channels of clients that keep sending heartbeats. *)
Talking == {ch \in Channels : ch[1] \notin Silent}

(***************************************************************************)
(* Callbacks are removed as often as they were added, and every callback   *)
(* loguru may call belongs to an Open call that has not returned: its      *)
(* data, on the handler's stack, and its writer are alive.  (The latter is *)
(* stated of clients that keep sending heartbeats: after the watcher has   *)
(* closed a channel a second callback may take the same name, and the one  *)
(* that is removed may be the other handler's.)                            *)
(***************************************************************************)
NoDanglingCallback ==
    /\ \A ch \in Channels : Len(callbacks[ch]) = Cardinality(Registered(ch))
    /\ \A ch \in Talking : \A i \in DOMAIN callbacks[ch] : callbacks[ch][i] \in Registered(ch)

(***************************************************************************)
(* A client's log entry is written to one stream, once: two Open calls     *)
(* never provide the same channel at the same time.                        *)
(***************************************************************************)
OneStreamPerChannel ==
    \A ch \in Talking : \A g, h \in Providers(ch) : g = h

(***************************************************************************)
(* A channel marked as open has a handler that will mark it closed again;  *)
(* otherwise no Open call of that client could ever succeed.               *)
(***************************************************************************)
OpenedIsProvided == \A ch \in Channels : opened[ch] => Providers(ch) # {}

(***************************************************************************)
(* Once the flag of a spinning handler is lowered its stream ends and the  *)
(* channel can be opened again.                                            *)
(***************************************************************************)
CloseEndsStream ==
    \A ch \in Talking :
        (opened[ch] /\ ~ hold[ch] /\ \E h \in Providers(ch) : at[h] = "spin") ~> ~ opened[ch]
=============================================================================
