---------------------------- MODULE SessionProofs ----------------------------
(***************************************************************************)
(* Proofs about LogChannels, for any number of handlers and clients, and   *)
(* about Session, for any number of heartbeats, failures and pending calls.*)
(*                                                                         *)
(* On a channel of a client that keeps talking the flag `opened` is owned  *)
(* by the handler that has changed it to true: only the watcher could take *)
(* it away (Owned).  So there is one provider, hence one callback of that  *)
(* name, and the one loguru removes is the handler's own.  On the other    *)
(* channels only the number of callbacks is right (Counted).               *)
(*                                                                         *)
(* One heartbeat at a time is writing clients.json, and what it writes is  *)
(* the set the server holds, as nobody inserts meanwhile (OneWriter); so a *)
(* client is told that it is registered when the file and the server have  *)
(* it.  A server that knows the client from a heartbeat, and was not asked *)
(* for its log, has told it that it is not linked, and either the answer   *)
(* or a failure is still to be looked at, or the connection is not shown   *)
(* as alive (ToBeAsked).                                                   *)
(***************************************************************************)
EXTENDS Session, FiniteSetTheorems, SequenceTheorems, TLAPS

(* LogChannels. *)
(* Only clients that may fall silent are ever outdated. *)
OutdatedIsSilent == \A c \in Clients : lastBeat[c] = "outdated" => c \in Silent

(* The handler of a talking client's stream finds its channel marked open. *)
Owned == \A ch \in Talking : \A h \in Providers(ch) : opened[ch]

(* NoDanglingCallback, in two parts. *)
Counted == \A ch \in Channels : Len(callbacks[ch]) = Cardinality(Registered(ch))
OwnCallbacks ==
    \A ch \in Talking : \A i \in DOMAIN callbacks[ch] : callbacks[ch][i] \in Registered(ch)

(* The inductive invariant. *)
LogInv ==
    /\ LogTypeOK
    /\ OutdatedIsSilent
    /\ OpenedIsProvided
    /\ Owned
    /\ OneStreamPerChannel
    /\ Counted
    /\ OwnCallbacks
-----------------------------------------------------------------------------
LEMMA RegisteredFinite ==
    ASSUME NEW ch
    PROVE  IsFiniteSet(Registered(ch)) /\ Cardinality(Registered(ch)) \in Nat
<1>1. Registered(ch) \subseteq Handlers
  BY DEF Registered
<1> QED
  BY <1>1, SilentAssumption, FS_Subset, FS_CardinalityType

LEMMA InitLogInv == LogInit => LogInv
<1> SUFFICES ASSUME LogInit
             PROVE  LogInv
  OBVIOUS
<1>1. LogTypeOK
  BY DEF LogInit, LogTypeOK, Points
<1>2. \A ch : Providers(ch) = {} /\ Registered(ch) = {}
  BY DEF LogInit, Providers, Registered
<1>3. OpenedIsProvided /\ Owned /\ OneStreamPerChannel
  BY <1>2 DEF LogInit, OpenedIsProvided, Owned, OneStreamPerChannel
<1>4. Counted /\ OwnCallbacks
  <2>1. \A ch \in Channels : callbacks[ch] = <<>> /\ Len(callbacks[ch]) = 0 /\ DOMAIN callbacks[ch] = {}
    BY DEF LogInit
  <2>2. Cardinality({}) = 0
    BY FS_EmptySet
  <2>3. Counted
    BY <1>2, <2>1, <2>2 DEF Counted
  <2>4. OwnCallbacks
    BY <2>1 DEF OwnCallbacks, Talking
  <2> QED
    BY <2>3, <2>4
<1>5. OutdatedIsSilent
  BY DEF LogInit, OutdatedIsSilent
<1> QED
  BY <1>1, <1>3, <1>4, <1>5 DEF LogInv

(***************************************************************************)
(* A step that registers and provides what was registered and provided,    *)
(* and leaves the callbacks alone, keeps what is said of callbacks.        *)
(***************************************************************************)
LEMMA SameCallbacks ==
    ASSUME LogInv, callbacks' = callbacks, \A ch \in Channels : Registered(ch)' = Registered(ch)
    PROVE  Counted' /\ OwnCallbacks'
  BY DEF LogInv, Counted, OwnCallbacks, Talking

LEMMA OpenInv ==
    ASSUME LogInv, NEW h \in Handlers, NEW ch \in Channels, Open(h, ch)
    PROVE  LogInv'
<1> USE DEF LogInv, Open, Goto, LogTypeOK
<1>1. LogTypeOK'
  BY DEF Points
<1>2. \A d : Providers(d)' = Providers(d) /\ Registered(d)' = Registered(d)
  BY DEF Providers, Registered
<1>3. OpenedIsProvided' /\ Owned' /\ OneStreamPerChannel'
  BY <1>2 DEF OpenedIsProvided, Owned, OneStreamPerChannel, Talking
<1>4. Counted' /\ OwnCallbacks'
  BY <1>2, SameCallbacks
<1>5. OutdatedIsSilent'
  BY DEF OutdatedIsSilent
<1> QED
  BY <1>1, <1>3, <1>4, <1>5

(* The handler that changes the flag to true finds no other provider. *)
LEMMA ClaimInv ==
    ASSUME LogInv, NEW h \in Handlers, Claim(h)
    PROVE  LogInv'
<1> USE DEF LogInv, Claim, Goto, LogTypeOK
<1>1. LogTypeOK'
  BY DEF Points
<1>2. \A d : Registered(d)' = Registered(d)
  BY DEF Registered
<1>3. \A d : Providers(d)' = IF d = channel[h] /\ ~ opened[d] THEN Providers(d) \cup {h} ELSE Providers(d)
  BY DEF Providers
<1>4. OpenedIsProvided'
  BY <1>3 DEF OpenedIsProvided
<1>5. Owned' /\ OneStreamPerChannel'
  BY <1>3 DEF Owned, OneStreamPerChannel, Talking
<1>6. Counted' /\ OwnCallbacks'
  BY <1>2, SameCallbacks
<1>7. OutdatedIsSilent'
  BY DEF OutdatedIsSilent
<1> QED
  BY <1>1, <1>4, <1>5, <1>6, <1>7

(* Steps of a provider that stays one, and of no other actor. *)
LEMMA ProviderStays ==
    ASSUME LogInv, NEW h \in Handlers, NEW p \in Points, at' = [at EXCEPT ![h] = p],
           at[h] \notin {"out", "loaded"}, p \notin {"out", "loaded"},
           UNCHANGED <<opened, channel, lastBeat, linked>>
    PROVE  OutdatedIsSilent' /\ OpenedIsProvided' /\ Owned' /\ OneStreamPerChannel'
<1> USE DEF LogInv, LogTypeOK
<1>1. \A d : Providers(d)' = Providers(d)
  BY DEF Providers
<1> QED
  BY <1>1 DEF OutdatedIsSilent, OpenedIsProvided, Owned, OneStreamPerChannel, Talking

LEMMA AddCallbackInv ==
    ASSUME LogInv, NEW h \in Handlers, AddCallback(h)
    PROVE  LogInv'
<1> USE DEF LogInv, AddCallback, Goto, LogTypeOK
<1>1. LogTypeOK'
  BY DEF Points
<1>2. h \notin Registered(channel[h]) /\ channel[h] \in Channels
  BY DEF Registered
<1>3. \A d : Registered(d)' = IF d = channel[h] THEN Registered(d) \cup {h} ELSE Registered(d)
  BY DEF Registered
<1>4. Cardinality(Registered(channel[h]) \cup {h}) = Cardinality(Registered(channel[h])) + 1
  BY <1>2, RegisteredFinite, FS_AddElement
<1>5. Counted'
  <2>1. callbacks'[channel[h]] = Append(callbacks[channel[h]], h)
    BY <1>2
  <2>2. Len(callbacks'[channel[h]]) = Len(callbacks[channel[h]]) + 1
    BY <1>2, <2>1
  <2>3. \A d \in Channels : d # channel[h] => callbacks'[d] = callbacks[d]
    OBVIOUS
  <2> QED
    BY <1>2, <1>3, <1>4, <2>2, <2>3 DEF Counted
<1>6. OwnCallbacks'
  BY <1>2, <1>3 DEF OwnCallbacks, Talking
<1> QED
  BY <1>1, <1>5, <1>6, ProviderStays DEF Points

LEMMA FlagInv ==
    ASSUME LogInv, NEW h \in Handlers, RaiseFlag(h) \/ LeaveSpin(h)
    PROVE  LogInv'
<1> USE DEF LogInv, RaiseFlag, LeaveSpin, Goto, LogTypeOK
<1>1. LogTypeOK'
  BY DEF Points
<1>2. \A d : Registered(d)' = Registered(d)
  BY DEF Registered
<1>3. Counted' /\ OwnCallbacks'
  BY <1>2, SameCallbacks
<1> QED
  BY <1>1, <1>3, ProviderStays DEF Points

(* The only callback of a talking client's channel is that of its provider. *)
LEMMA RemoveCallbackInv ==
    ASSUME LogInv, NEW h \in Handlers, RemoveCallback(h)
    PROVE  LogInv'
<1> USE DEF LogInv, RemoveCallback, Goto, LogTypeOK
<1> DEFINE c == channel[h]
<1>1. h \in Registered(c) /\ c \in Channels
  BY DEF Registered
<1>2. \A d : Registered(d)' = IF d = c THEN Registered(d) \ {h} ELSE Registered(d)
  BY DEF Registered
<1>3. Cardinality(Registered(c) \ {h}) = Cardinality(Registered(c)) - 1
  BY <1>1, RegisteredFinite, FS_RemoveElement
<1>4. callbacks[c] \in Seq(Handlers) /\ callbacks[c] # <<>>
  <2>1. Registered(c) # {} /\ Cardinality(Registered(c)) # 0
    BY <1>1, RegisteredFinite, FS_EmptySet
  <2> QED
    BY <1>1, <2>1 DEF Counted
<1>5. /\ Tail(callbacks[c]) \in Seq(Handlers)
      /\ Len(Tail(callbacks[c])) = Len(callbacks[c]) - 1
  BY <1>4
<1>6. callbacks' = [callbacks EXCEPT ![c] = Tail(@)]
  BY <1>4
<1>7. LogTypeOK'
  BY <1>1, <1>5, <1>6 DEF Points
<1>8. Counted'
  BY <1>1, <1>2, <1>3, <1>5, <1>6 DEF Counted
<1>9. OwnCallbacks'
  <2>1. ASSUME c \in Talking
        PROVE  Tail(callbacks[c]) = <<>>
    <3>1. Registered(c) = {h}
      <4>1. \A g \in Registered(c) : g \in Providers(c)
        BY DEF Registered, Providers
      <4> QED
        BY <1>1, <2>1, <4>1 DEF OneStreamPerChannel
    <3>2. Len(callbacks[c]) = 1
      BY <1>1, <3>1, FS_Singleton DEF Counted
    <3> QED
      <4>1. Len(Tail(callbacks[c])) = 0
        BY <1>5, <3>2
      <4> HIDE DEF c
      <4> QED
        BY <1>5, <4>1, EmptySeq
  <2> QED
    BY <1>1, <1>2, <1>6, <2>1 DEF OwnCallbacks, Talking
<1> QED
  BY <1>7, <1>8, <1>9, ProviderStays DEF Points

LEMMA EndStreamInv ==
    ASSUME LogInv, NEW h \in Handlers, EndStream(h)
    PROVE  LogInv'
<1> USE DEF LogInv, EndStream, Goto, LogTypeOK
<1>1. LogTypeOK'
  BY DEF Points
<1>2. \A d : Registered(d)' = Registered(d)
  BY DEF Registered
<1>3. \A d : Providers(d)' = Providers(d) \ {h}
  BY DEF Providers
<1>4. h \in Providers(channel[h])
  BY DEF Providers
<1>5. \A d : d # channel[h] => Providers(d)' = Providers(d)
  BY DEF Providers
<1>6. OpenedIsProvided'
  BY <1>5 DEF OpenedIsProvided
<1>7. Owned' /\ OneStreamPerChannel'
  BY <1>3, <1>4, <1>5 DEF Owned, OneStreamPerChannel, Talking
<1>8. Counted' /\ OwnCallbacks'
  BY <1>2, SameCallbacks
<1>9. OutdatedIsSilent'
  BY DEF OutdatedIsSilent
<1> QED
  BY <1>1, <1>6, <1>7, <1>8, <1>9

(* Steps of clients and of the watcher: no handler moves. *)
LEMMA ClientInv ==
    ASSUME LogInv, \/ \E ch \in Channels : Close(ch)
                   \/ \E c \in Clients : Heartbeat(c) \/ FallSilent(c)
                   \/ Watch
    PROVE  LogInv'
<1> USE DEF LogInv
<1>1. \A d : Providers(d)' = Providers(d) /\ Registered(d)' = Registered(d)
  BY DEF Providers, Registered, Close, Heartbeat, FallSilent, Watch
<1>2. LogTypeOK'
  <2>1. CASE \E ch \in Channels : Close(ch)
    BY <2>1 DEF LogTypeOK, Close
  <2>2. CASE \E c \in Clients : Heartbeat(c) \/ FallSilent(c)
    BY <2>2 DEF LogTypeOK, Heartbeat, FallSilent
  <2>3. CASE Watch
    BY <2>3 DEF LogTypeOK, Watch
  <2> QED
    BY <2>1, <2>2, <2>3
<1>3. OutdatedIsSilent'
  BY DEF OutdatedIsSilent, LogTypeOK, Close, Heartbeat, FallSilent, Watch
<1>4. ASSUME NEW ch \in Channels
      PROVE  /\ opened'[ch] => opened[ch]
             /\ ch \in Talking => (opened'[ch] <=> opened[ch])
  <2>1. CASE Watch
    <3>1. ch[1] \in Outdated => ch \notin Talking
      BY DEF Outdated, OutdatedIsSilent, Talking
    <3> QED
      BY <2>1, <3>1 DEF Watch
  <2> QED
    BY <2>1 DEF Close, Heartbeat, FallSilent
<1>5. OpenedIsProvided' /\ Owned' /\ OneStreamPerChannel'
  BY <1>1, <1>4 DEF OpenedIsProvided, Owned, OneStreamPerChannel, Talking
<1>6. Counted' /\ OwnCallbacks'
  BY <1>1, SameCallbacks DEF Close, Heartbeat, FallSilent, Watch
<1> QED
  BY <1>2, <1>3, <1>5, <1>6

LEMMA StutterInv ==
    ASSUME LogInv, UNCHANGED logVars
    PROVE  LogInv'
<1>1. \A d : Providers(d)' = Providers(d) /\ Registered(d)' = Registered(d)
  BY DEF Providers, Registered, logVars
<1> QED
  BY <1>1 DEF LogInv, logVars, LogTypeOK, OutdatedIsSilent, OpenedIsProvided, Owned,
              OneStreamPerChannel, Counted, OwnCallbacks, Talking

(* LogInv holds in every reachable state. *)
THEOREM LogInvariance == LogSpec => []LogInv
<1>1. LogInv /\ [LogNext]_logVars => LogInv'
  <2> SUFFICES ASSUME LogInv, [LogNext]_logVars
               PROVE  LogInv'
    OBVIOUS
  <2> QED
    BY OpenInv, ClaimInv, AddCallbackInv, FlagInv, RemoveCallbackInv, EndStreamInv, ClientInv,
       StutterInv DEF LogNext, Provide
<1> QED
  BY <1>1, InitLogInv, PTL DEF LogSpec
-----------------------------------------------------------------------------
(* The variables keep their types (the state of Server.cpp's log channels). *)
THEOREM LogTypeInvariant == LogSpec => []LogTypeOK
<1>1. LogInv => LogTypeOK
  BY DEF LogInv
<1> QED
  BY <1>1, LogInvariance, PTL

(* A talking client's channel is provided by one Open call at a time. *)
THEOREM LogOneStream == LogSpec => []OneStreamPerChannel
<1>1. LogInv => OneStreamPerChannel
  BY DEF LogInv
<1> QED
  BY <1>1, LogInvariance, PTL

(* Callbacks are removed as often as they are added, and no talking client's *)
(* callback outlives the Open call whose stack and writer it uses.           *)
THEOREM LogNoDanglingCallback == LogSpec => []NoDanglingCallback
<1>1. LogInv => NoDanglingCallback
  BY DEF LogInv, Counted, OwnCallbacks, NoDanglingCallback
<1> QED
  BY <1>1, LogInvariance, PTL

(* A channel marked as open has a handler that will mark it closed again. *)
THEOREM LogOpenedIsProvided == LogSpec => []OpenedIsProvided
<1>1. LogInv => OpenedIsProvided
  BY DEF LogInv
<1> QED
  BY <1>1, LogInvariance, PTL
-----------------------------------------------------------------------------
(* Session. *)

Beating == {"absent", "recent", "outdated"}

(* What the argument needs of the types. *)
Shapes ==
    /\ stage \in [Beats -> Places]
    /\ lastBeat \in [Clients -> Beating] /\ linked \in [Clients -> BOOLEAN]
    /\ file \in [whole : BOOLEAN, ids : SUBSET Clients]
    /\ clients \subseteq Clients /\ acknowledged \subseteq Clients

OneWriter ==
    /\ \A b \in Beats : stage[b] \in {"write", "writing"} => up /\ Me \in clients
    /\ \A b \in Beats : stage[b] = "writing" => ~ file.whole /\ file.ids = clients
    /\ \A b, c \in Beats : stage[b] = "writing" /\ stage[c] = "writing" => b = c

ToBeAsked ==
    /\ first => status # "ESTABLISHED" /\ \A b \in Beats : ~ Awaits(b)
    /\ lastBeat[Me] # "absent" =>
          /\ up
          /\ \/ asked
             \/ status # "ESTABLISHED"
             \/ \E b \in Beats : stage[b] \in {"unlinked", "failed"}

(* The inductive invariant. *)
SessionInv == Shapes /\ OneWriter /\ RegistryIsDurable /\ ToBeAsked
-----------------------------------------------------------------------------
LEMMA InitSessionInv == SessionInit => SessionInv
  BY SessionAssumption DEF SessionInit, LogInit, SessionInv, Shapes, Beating, Places, OneWriter,
       RegistryIsDurable, ToBeAsked, Awaits

(* Steps that leave the server's knowledge of its clients alone. *)
LEMMA RegistrySame ==
    ASSUME Shapes, OneWriter, RegistryIsDurable, UNCHANGED <<registry, up>>,
           NEW b \in Beats, NEW s \in Places, stage' = [stage EXCEPT ![b] = s],
           s \notin {"write", "writing"}
    PROVE  OneWriter' /\ RegistryIsDurable'
  BY DEF Shapes, OneWriter, RegistryIsDurable, registry

LEMMA RegistryUntouched ==
    ASSUME OneWriter, RegistryIsDurable, UNCHANGED <<registry, up, stage>>
    PROVE  OneWriter' /\ RegistryIsDurable'
  BY DEF OneWriter, RegistryIsDurable, registry

(* A heartbeat moves on from where its answer was already looked at. *)
LEMMA AskedSame ==
    ASSUME Shapes, ToBeAsked, UNCHANGED <<logVars, status, first, up, asked>>,
           NEW b \in Beats, NEW s \in Places, stage' = [stage EXCEPT ![b] = s],
           stage[b] \notin {"unlinked", "failed"} \/ s \in {"unlinked", "failed"},
           s \notin {"await linked", "await unlinked"}
    PROVE  ToBeAsked'
<1> USE DEF logVars, Awaits
<1>1. \A c \in Beats : stage[c] \in {"unlinked", "failed"} => stage'[c] \in {"unlinked", "failed"}
  BY DEF Shapes
<1> QED
  BY <1>1 DEF ToBeAsked, Shapes

LEMMA ConnectedInv ==
    ASSUME SessionInv, NEW b \in Beats, NEW isLinked \in BOOLEAN, NEW n \in {0, 1},
           Connected(b, isLinked, n), ~ first, UNCHANGED first,
           ~ isLinked \/ n = 1 \/ stage[b] \notin {"unlinked", "failed"}
    PROVE  SessionInv'
<1> USE DEF SessionInv, Connected, Ask, Settled, To
<1>0. "none" \in Places
  BY DEF Places
<1>1. Shapes'
  BY <1>0 DEF Shapes, logVars, registry
<1>2. OneWriter' /\ RegistryIsDurable'
  BY <1>0, RegistrySame DEF server
<1>3. ToBeAsked'
  <2> SUFFICES ASSUME lastBeat[Me] # "absent"
               PROVE  up /\ (asked' \/ \E c \in Beats : stage'[c] \in {"unlinked", "failed"})
    BY DEF ToBeAsked, logVars, server
  <2>1. up
    BY DEF ToBeAsked
  <2>2. CASE status # "ESTABLISHED" \/ ~ isLinked \/ n = 1
    <3>1. n + Provisions(isLinked) > 0
      BY <2>2 DEF Provisions
    <3> QED
      BY <2>1, <3>1
  <2>3. CASE status = "ESTABLISHED" /\ isLinked /\ n = 0
    <3>1. \A c \in Beats : stage[c] \in {"unlinked", "failed"} => stage'[c] = stage[c]
      BY <2>3 DEF Shapes
    <3> QED
      BY <2>1, <2>3, <3>1 DEF ToBeAsked
  <2> QED
    BY <2>2, <2>3
<1> QED
  BY <1>1, <1>2, <1>3

LEMMA BeatInv ==
    ASSUME SessionInv, NEW b \in Beats, Beat(b)
    PROVE  SessionInv'
<1> USE DEF SessionInv, Places
<1>1. CASE Succeed(b)
  <2>1. CASE first
    <3>1. stage' = [stage EXCEPT ![b] = IF stage[b] = "linked" THEN "await linked" ELSE "await unlinked"]
      BY <1>1, <2>1 DEF Succeed, To
    <3>2. Shapes'
      BY <1>1, <2>1, <3>1 DEF Shapes, Succeed, logVars, registry
    <3>3. OneWriter' /\ RegistryIsDurable'
      BY <1>1, <2>1, <3>1, RegistrySame DEF Succeed, server
    <3>4. ToBeAsked'
      BY <1>1, <2>1 DEF ToBeAsked, Succeed, logVars, server
    <3> QED
      BY <3>2, <3>3, <3>4
  <2>2. CASE ~ first
    BY <1>1, <2>2, ConnectedInv DEF Succeed
  <2> QED
    BY <2>1, <2>2
<1>2. CASE FirstTime(b)
  <2>1. ~ first
    BY <1>2 DEF FirstTime, ToBeAsked
  <2>2. CASE stage[b] = "await linked"
    BY <1>2, <2>1, <2>2, ConnectedInv DEF FirstTime
  <2>3. CASE stage[b] # "await linked"
    BY <1>2, <2>1, <2>3, ConnectedInv DEF FirstTime
  <2> QED
    BY <2>2, <2>3
<1>3. CASE FirstTimeFails(b)
  <2>1. /\ stage' = [stage EXCEPT ![b] = "none"] /\ stage[b] \notin {"unlinked", "failed"}
        /\ UNCHANGED <<logVars, status, first, server, asked, registry, up>>
    BY <1>3 DEF FirstTimeFails, Awaits, To, view, server
  <2>2. Shapes'
    BY <2>1 DEF Shapes, logVars, registry
  <2> QED
    BY <2>1, <2>2, RegistrySame, AskedSame
<1>4. CASE Fail(b)
  <2>1. stage' = [stage EXCEPT ![b] = "none"] /\ UNCHANGED <<logVars, first, server, registry, up>>
    BY <1>4 DEF Fail, Settled, To, server
  <2>2. Shapes'
    BY <2>1 DEF Shapes, logVars, registry
  <2>3. \A c \in Beats : Awaits(c)' => Awaits(c)
    BY <2>1 DEF Awaits, Shapes
  <2>4. ToBeAsked'
    BY <1>4, <2>1, <2>3 DEF ToBeAsked, Fail, logVars, server
  <2> QED
    BY <2>1, <2>2, <2>4, RegistrySame
<1>5. CASE Serve(b)
  <2>1. CASE stage[b] = "beat" /\ Heartbeat(Me) /\ To(b, IF linked'[Me] THEN "linked" ELSE "unlinked")
    <3>0. Me \in Clients
      BY SessionAssumption
    <3>1. lastBeat'[Me] = "recent" /\ lastBeat' \in [Clients -> Beating]
      BY <2>1, <3>0 DEF Heartbeat, Shapes, Beating
    <3>9. linked' \in [Clients -> BOOLEAN] /\ (lastBeat[Me] # "recent" => ~ linked'[Me])
      <4>1. CASE lastBeat[Me] = "recent"
        <5>1. linked' = [linked EXCEPT ![Me] = TRUE]
          BY <2>1, <4>1 DEF Heartbeat
        <5> QED
          BY <3>0, <4>1, <5>1 DEF Shapes
      <4>2. CASE lastBeat[Me] # "recent"
        <5>1. linked' = [linked EXCEPT ![Me] = FALSE]
          BY <2>1, <4>2 DEF Heartbeat
        <5> QED
          BY <3>0, <5>1 DEF Shapes
      <4> QED
        BY <4>1, <4>2
    <3>2. PICK s \in {"linked", "unlinked"} :
             stage' = [stage EXCEPT ![b] = s] /\ (lastBeat[Me] # "recent" => s = "unlinked")
      BY <2>1, <3>9 DEF To
    <3>3. Shapes'
      <4>1. UNCHANGED <<file, clients, acknowledged>>
        BY <1>5 DEF Serve, registry
      <4>2. stage' \in [Beats -> Places]
        BY <3>2 DEF Shapes
      <4> QED
        BY <3>1, <3>9, <4>1, <4>2 DEF Shapes
    <3>4. OneWriter' /\ RegistryIsDurable'
      BY <1>5, <3>2, RegistrySame DEF Serve, server
    <3>5. ToBeAsked'
      <4>0. /\ \A c \in Beats : Awaits(c)' => Awaits(c)
            /\ \A c \in Beats : stage[c] \in {"unlinked", "failed"} => stage'[c] = stage[c]
            /\ s = "unlinked" => stage'[b] = "unlinked"
        BY <2>1, <3>2 DEF Awaits, Shapes
      <4>3. up' /\ UNCHANGED <<status, first, asked>>
        BY <1>5 DEF Serve, view, server
      <4>1. CASE s = "unlinked"
        BY <4>0, <4>1, <4>3 DEF ToBeAsked
      <4>2. CASE lastBeat[Me] = "recent"
        BY <4>0, <4>2, <4>3 DEF ToBeAsked
      <4> QED
        BY <3>2, <4>1, <4>2
    <3> QED
      BY <3>3, <3>4, <3>5
  <2>2. CASE stage[b] = "unnamed" /\ To(b, "failed") /\ UNCHANGED logVars
    <3>1. /\ stage' = [stage EXCEPT ![b] = "failed"]
          /\ UNCHANGED <<logVars, status, first, server, asked, registry, up>>
      BY <1>5, <2>2 DEF Serve, To, view, server
    <3>2. Shapes'
      BY <3>1 DEF Shapes, logVars, registry
    <3> QED
      BY <3>1, <3>2, RegistrySame, AskedSame
  <2> QED
    BY <1>5, <2>1, <2>2 DEF Serve
<1> QED
  BY <1>1, <1>2, <1>3, <1>4, <1>5 DEF Beat

(* Registration: insert, and the two steps of writing clients.json. *)
LEMMA RegisterInv ==
    ASSUME SessionInv, NEW b \in Beats, Insert(b) \/ StartWrite(b) \/ EndWrite(b)
    PROVE  SessionInv'
<1> USE DEF SessionInv, To
<1>1. PICK s \in {"write", "writing", "registered"} : stage' = [stage EXCEPT ![b] = s]
  BY DEF Insert, StartWrite, EndWrite
<1>2. /\ stage[b] \in {"register", "write", "writing"}
      /\ UNCHANGED <<logVars, status, first, up, asked>>
  BY DEF Insert, StartWrite, EndWrite, view, server
<1>3. Shapes'
  <2>1. stage' \in [Beats -> Places]
    BY <1>1 DEF Shapes, Places
  <2>2. Me \in Clients
    BY SessionAssumption
  <2>3. /\ file' \in [whole : BOOLEAN, ids : SUBSET Clients]
        /\ clients' \subseteq Clients /\ acknowledged' \subseteq Clients
    <3>1. CASE Insert(b)
      BY <2>2, <3>1 DEF Shapes, Insert
    <3>2. CASE StartWrite(b)
      BY <3>2 DEF Shapes, StartWrite
    <3>3. CASE EndWrite(b)
      BY <2>2, <3>3 DEF Shapes, EndWrite
    <3> QED
      BY <3>1, <3>2, <3>3
  <2> QED
    BY <1>2, <2>1, <2>3 DEF Shapes, logVars
<1>4. ToBeAsked'
  BY <1>1, <1>2, AskedSame DEF Places
<1>5. CASE Insert(b)
  BY <1>5, <1>3, <1>4 DEF Insert, Writing, Shapes, OneWriter, RegistryIsDurable, server
<1>6. CASE StartWrite(b)
  BY <1>6, <1>3, <1>4 DEF StartWrite, Writing, Shapes, OneWriter, RegistryIsDurable, server
<1>7. CASE EndWrite(b)
  BY <1>7, <1>3, <1>4 DEF EndWrite, Shapes, OneWriter, RegistryIsDurable, server
<1> QED
  BY <1>5, <1>6, <1>7

LEMMA CallInv ==
    ASSUME SessionInv, NEW b \in Beats, Call(b) \/ Configure(b) \/ LoseAnswer(b)
    PROVE  SessionInv'
<1>1. CASE Insert(b) \/ StartWrite(b) \/ EndWrite(b)
  BY <1>1, RegisterInv
<1>2. CASE Tick(b) \/ Named(b) \/ Refuse(b) \/ Configure(b) \/ LoseAnswer(b)
  <2> USE <1>2 DEF SessionInv, Tick, Named, Refuse, Configure, LoseAnswer, To
  <2>1. PICK s \in {"register", "beat", "unnamed", "refused", "failed"} :
           stage' = [stage EXCEPT ![b] = s] /\ (stage[b] \in {"unlinked", "failed"} => s = "failed")
    OBVIOUS
  <2>2. UNCHANGED <<logVars, status, first, up, registry, asked>>
    BY DEF view, server
  <2>3. Shapes'
    BY <2>1, <2>2 DEF Shapes, Places, logVars, registry
  <2>4. s \in Places /\ s \notin {"write", "writing"}
    BY DEF Places
  <2>5. OneWriter' /\ RegistryIsDurable'
    BY <2>1, <2>2, <2>4, RegistrySame
  <2>6. ToBeAsked'
    BY <2>1, <2>2, <2>4, AskedSame
  <2> QED
    BY <2>3, <2>5, <2>6
<1> QED
  BY <1>1, <1>2 DEF Call

LEMMA ServerInv ==
    ASSUME SessionInv,
           \/ \E h \in Handlers : ServeOpen(h) \/ Run(h)
           \/ ServeClose \/ RemoveFile \/ (\E kept \in SUBSET Clients : Start(kept)) \/ UNCHANGED sessionVars
    PROVE  SessionInv'
<1> USE DEF SessionInv
<1>1. UNCHANGED <<lastBeat, linked, stage, status, first, asked>>
  BY DEF ServeOpen, Open, Run, Provide, Claim, AddCallback, RaiseFlag, LeaveSpin, RemoveCallback, EndStream,
         ServeClose, Close, RemoveFile, Start, sessionVars, logVars, view
<1>2. CASE UNCHANGED <<registry, up>>
  <2>1. OneWriter' /\ RegistryIsDurable'
    BY <1>1, <1>2, RegistryUntouched
  <2>2. Shapes' /\ ToBeAsked'
    BY <1>1, <1>2 DEF Shapes, ToBeAsked, Awaits, registry
  <2> QED
    BY <2>1, <2>2
<1>3. CASE RemoveFile
  BY <1>1, <1>3 DEF RemoveFile, Shapes, OneWriter, RegistryIsDurable, ToBeAsked, Awaits, server
<1>4. ASSUME NEW kept \in SUBSET Clients, Start(kept)
      PROVE  SessionInv'
  BY <1>1, <1>4 DEF Start, Shapes, OneWriter, RegistryIsDurable, ToBeAsked, Awaits
<1>5. \/ UNCHANGED <<registry, up>> \/ RemoveFile \/ \E kept \in SUBSET Clients : Start(kept)
  BY DEF ServeOpen, Run, ServeClose, sessionVars, server
<1> QED
  BY <1>2, <1>3, <1>4, <1>5

LEMMA CrashInv ==
    ASSUME SessionInv, Crash
    PROVE  SessionInv'
<1> USE DEF SessionInv
<1>1. Me \in Clients
  BY SessionAssumption
<1>2. \A c \in Beats : stage'[c] \notin {"write", "writing"} /\ (Awaits(c)' => Awaits(c))
  BY DEF Crash, Shapes, Awaits
<1>3. Shapes'
  <2>1. stage' \in [Beats -> Places]
    BY DEF Crash, Shapes, Places
  <2> QED
    BY <2>1 DEF Crash, Shapes, Beating
<1>4. OneWriter' /\ RegistryIsDurable'
  BY <1>2 DEF Crash, OneWriter, RegistryIsDurable
<1>5. ToBeAsked'
  BY <1>1, <1>2 DEF Crash, ToBeAsked, view
<1> QED
  BY <1>3, <1>4, <1>5

(* The invariant holds of every reachable state. *)
THEOREM SessionInvariance == SessionSpec => []SessionInv
<1>1. SessionInv /\ [SessionNext]_sessionVars => SessionInv'
  BY BeatInv, CallInv, ServerInv, CrashInv DEF SessionNext
<1> QED
  BY <1>1, InitSessionInv, PTL DEF SessionSpec

(* A client that was told it is registered is known, whatever overlaps or crashes. *)
THEOREM SessionRegistryIsDurable == SessionSpec => []RegistryIsDurable
  BY SessionInvariance, PTL DEF SessionInv

(* A client shown as connected has asked the server that answers it for its log. *)
THEOREM SessionStreamsAskedAgain == SessionSpec => []StreamsAskedAgain
<1>1. SessionInv => StreamsAskedAgain
  BY DEF SessionInv, ToBeAsked, StreamsAskedAgain
<1> QED
  BY <1>1, SessionInvariance, PTL
=============================================================================
