------------------------- MODULE SynchronizerProofs -------------------------
(***************************************************************************)
(* Proofs about Synchronizer for any files, times and numbers of requests. *)
(*                                                                         *)
(* A file that is to be made again is outdated until it is written: times  *)
(* of sources only grow, and the stub that is judged is not touched        *)
(* (Judged).  What has been read is that of the source, unless it has been *)
(* edited since: before the time was taken it is excused, and later the    *)
(* time of the edit makes the file outdated (InWork).  So everything that  *)
(* is on disk, but for the pairs being written, is current (Kept).         *)
(***************************************************************************)
EXTENDS Synchronizer, TLAPS

Record == [exists : BOOLEAN, version : Nat, stamp : Nat, edited : BOOLEAN]
Stub(f) == <<f, "stub">>
Header(f) == <<f, "header">>
Wrapper(f) == <<f, "wrapper">>

(* What the argument needs of the types, and that no time is in the future. *)
Shapes ==
    /\ now \in Nat
    /\ source \in [Files -> [version : Nat, newest : Nat, mtime : Nat]]
    /\ \A f \in Files : source[f].mtime <= now
    /\ generated \in [Items -> Record]
    /\ \A i \in Items : generated[i].stamp <= now
    /\ DOMAIN made \subseteq Items /\ made \in [DOMAIN made -> Record]
    /\ \A i \in DOMAIN made : made[i].stamp <= now /\ made[i].exists /\ ~ made[i].edited
    /\ outdated \subseteq Files /\ target \subseteq Files
    /\ \A f \in DOMAIN fetched : fetched[f] \in Nat

(* Which files are being made. *)
Stages ==
    /\ stage \in {"idle", "fetch", "compare"} => DOMAIN made = {}
    /\ stage = "fetch" => DOMAIN fetched \subseteq outdated
    /\ stage = "make" => DOMAIN fetched = outdated
    /\ stage \in {"make", "write"} => DOMAIN made \subseteq outdated \X {"stub", "header"}
    /\ stage = "wrap" => DOMAIN made \subseteq outdated \X {"wrapper"}

Old(i) == Absent(i[1]) \/ isProbablyOutdated(generated[i], i[1])

Judged ==
    /\ stage \in {"fetch", "make"} => \A f \in outdated : Old(Stub(f))
    /\ stage = "write" => \A f \in outdated : Stub(f) \in DOMAIN made => Old(Stub(f))
    /\ stage = "wrap" => \A f \in outdated : Old(Wrapper(f))

(* Version v is that of the source; or the time s will tell that it is not. *)
Same(i, v) == i \in excused \/ Absent(i[1]) \/ v = source[i[1]].version
Told(i, v, s) == Same(i, v) \/ s <= source[i[1]].mtime

(* What is on disk when the pair has been written. *)
Coming(i) == IF i \in DOMAIN made THEN made[i] ELSE generated[i]

InWork ==
    /\ stage \in {"fetch", "make"} =>
         \A f \in DOMAIN fetched : Stub(f) \in DOMAIN made \/ Same(Stub(f), fetched[f])
    /\ stage = "make" => \A f \in outdated :
         /\ Stub(f) \in DOMAIN made => Told(Stub(f), made[Stub(f)].version, made[Stub(f)].stamp)
         /\ Header(f) \in DOMAIN made /\ Stub(f) \notin DOMAIN made =>
               Same(Header(f), made[Header(f)].version)
         /\ Header(f) \in DOMAIN made /\ Stub(f) \in DOMAIN made =>
               Told(Header(f), made[Header(f)].version, made[Stub(f)].stamp)
    /\ stage = "write" => \A f \in outdated :
         /\ Told(Stub(f), Coming(Stub(f)).version, Coming(Stub(f)).stamp)
         /\ Told(Header(f), Coming(Header(f)).version, Coming(Stub(f)).stamp)
    /\ stage = "wrap" => \A f \in outdated :
         Wrapper(f) \in DOMAIN made => Same(Wrapper(f), made[Wrapper(f)].version)

Kept ==
    \A i \in Items :
        \/ i \in excused \/ Absent(i[1]) \/ Current(i)
        \/ stage = "write" /\ i[1] \in outdated /\ i[2] \in {"stub", "header"}

Wrapped == stage = "wrap" => \A f \in target \ outdated : generated[<<f, "wrapper">>].exists

(* The inductive invariant. *)
SyncInv == Shapes /\ Stages /\ Judged /\ InWork /\ Kept /\ Wrapped
-----------------------------------------------------------------------------
LEMMA NoneMade == DOMAIN <<>> = {} /\ \A S : <<>> \in [{} -> S]
  OBVIOUS

LEMMA InitSyncInv == SyncInit => SyncInv
<1> SUFFICES ASSUME SyncInit
             PROVE  SyncInv
  OBVIOUS
<1> USE DEF SyncInit
<1>1. Shapes
  BY NoneMade DEF Shapes, Record, Nothing
<1>2. Stages /\ Judged /\ InWork /\ Wrapped
  BY NoneMade DEF Stages, Judged, InWork, Wrapped
<1>3. Kept
  <2>1. \A i \in Items : i[1] \in Files /\ <<i[1], "stub">> \in Items
    BY DEF Items
  <2> QED
    BY <2>1 DEF Kept, Current, isProbablyOutdated, Nothing
<1> QED
  BY <1>1, <1>2, <1>3 DEF SyncInv
-----------------------------------------------------------------------------
(* The user, and time. *)

LEMMA TickInv ==
    ASSUME SyncInv, Tick
    PROVE  SyncInv'
<1> USE DEF SyncInv, Tick, work
<1>1. Shapes'
  BY DEF Shapes, Record
<1>2. Stages' /\ Judged' /\ InWork' /\ Kept' /\ Wrapped'
  BY DEF Stages, Judged, Old, Absent, InWork, Told, Same, Coming, Kept, Current, Wrapped, isProbablyOutdated
<1> QED
  BY <1>1, <1>2

(* What was outdated stays so, what was read is excused, what has its time is told. *)
LEMMA EditInv ==
    ASSUME SyncInv, NEW f \in Files, Edit(f)
    PROVE  SyncInv'
<1> USE DEF SyncInv, Edit, work
<1>1. /\ source'[f] = [version |-> source[f].newest + 1, newest |-> source[f].newest + 1, mtime |-> now]
      /\ \A g \in Files \ {f} : source'[g] = source[g]
      /\ source' \in [Files -> [version : Nat, newest : Nat, mtime : Nat]]
  BY DEF Shapes
<1>2. Shapes'
  BY <1>1 DEF Shapes
<1>3. Stages' /\ Wrapped'
  BY DEF Stages, Wrapped
<1>4. ~ Absent(f)' /\ \A g \in Files \ {f} : Absent(g)' <=> Absent(g)
  BY <1>1 DEF Absent, Shapes
<1>5. ASSUME NEW i \in Items, i[1] = f
      PROVE  isProbablyOutdated(generated[i], f)'
  BY <1>1, <1>4, <1>5 DEF isProbablyOutdated, Shapes
<1>6. ASSUME NEW i \in Items, i[1] # f, NEW j \in Items
      PROVE  isProbablyOutdated(generated[j], i[1])' <=> isProbablyOutdated(generated[j], i[1])
  BY <1>1, <1>4, <1>6 DEF isProbablyOutdated, Items
<1>7. \A g \in Files : Stub(g) \in Items /\ Header(g) \in Items /\ Wrapper(g) \in Items
                      /\ Stub(g)[1] = g /\ Header(g)[1] = g /\ Wrapper(g)[1] = g
  BY DEF Items, Stub, Header, Wrapper
<1>8. \A i \in Items : Old(i) => Old(i)'
  BY <1>4, <1>5, <1>6 DEF Old, Items
<1>0. UNCHANGED <<stage, outdated, fetched, made, generated>> /\ outdated \subseteq Files
  BY DEF Shapes
<1>9. Judged'
  <2> HIDE DEF Edit
  <2> QED
    BY <1>0, <1>7, <1>8 DEF Judged
<1>10. InWork'
  <2>1. \A i \in Items : \A v, s :
           /\ Told(i, v, s) /\ s <= now => Told(i, v, s)'
           /\ Same(i, v) /\ (i[1] # f \/ i \in excused') => Same(i, v)'
    BY <1>1, <1>4 DEF Told, Same, Items
  <2>2. stage \in {"fetch", "make"} /\ Stub(f) \notin DOMAIN made =>
           /\ f \in DOMAIN fetched => Stub(f) \in excused'
           /\ Header(f) \in DOMAIN made => Header(f) \in excused'
    BY DEF Unstamped, Stub, Header
  <2>3. stage = "wrap" /\ Wrapper(f) \in DOMAIN made => Wrapper(f) \in excused'
    BY DEF Unstamped, Wrapper
  <2>4. \A i \in Items : (i \in DOMAIN made => made[i].stamp <= now) /\ Coming(i).stamp <= now
    BY DEF Shapes, Coming
  <2>5. CASE stage \in {"fetch", "make"}
    <3> HIDE DEF Edit
    <3>1. DOMAIN fetched \subseteq outdated
      BY <2>5 DEF Stages
    <3>2. \A g \in DOMAIN fetched : Stub(g) \in DOMAIN made \/ Same(Stub(g), fetched[g])'
      BY <1>0, <1>7, <2>1, <2>2, <2>5, <3>1 DEF InWork
    <3>3. ASSUME stage = "make", NEW g \in outdated
          PROVE  /\ Stub(g) \in DOMAIN made => Told(Stub(g), made[Stub(g)].version, made[Stub(g)].stamp)'
                 /\ Header(g) \in DOMAIN made /\ Stub(g) \notin DOMAIN made =>
                       Same(Header(g), made[Header(g)].version)'
                 /\ Header(g) \in DOMAIN made /\ Stub(g) \in DOMAIN made =>
                       Told(Header(g), made[Header(g)].version, made[Stub(g)].stamp)'
      BY <1>0, <1>7, <2>1, <2>2, <2>4, <3>3 DEF InWork
    <3> QED
      BY <1>0, <2>5, <3>2, <3>3 DEF InWork
  <2>6. CASE stage = "write"
    BY <1>7, <2>1, <2>4, <2>6 DEF InWork, Shapes, Coming
  <2>7. CASE stage = "wrap"
    <3> HIDE DEF Edit
    <3> QED
      BY <1>0, <1>7, <2>1, <2>3, <2>7 DEF InWork
  <2> QED
    BY <2>5, <2>6, <2>7 DEF InWork
<1>11. Kept'
  <2>1. ASSUME NEW i \in Items, i[1] = f
        PROVE  Current(i)'
    BY <1>5, <2>1 DEF Current, Items
  <2>2. ASSUME NEW i \in Items, i[1] # f, Current(i)
        PROVE  Current(i)'
    BY <1>1, <1>6, <2>2 DEF Current, Items
  <2> QED
    BY <1>4, <2>1, <2>2 DEF Kept, Items
<1> QED
  BY <1>2, <1>3, <1>9, <1>10, <1>11

LEMMA DeleteInv ==
    ASSUME SyncInv, NEW f \in Files, Delete(f)
    PROVE  SyncInv'
<1> USE DEF SyncInv
<1>1. /\ UNCHANGED <<now, generated, excused, stage, target, outdated, fetched, made>>
      /\ source'[f] = [source[f] EXCEPT !.version = 0]
      /\ \A g \in Files \ {f} : source'[g] = source[g]
      /\ source' \in [Files -> [version : Nat, newest : Nat, mtime : Nat]]
  BY DEF Shapes, Delete, work
<1>2. \A g \in Files : source'[g].mtime = source[g].mtime
  BY <1>1 DEF Shapes
<1>3. Shapes'
  BY <1>1, <1>2 DEF Shapes
<1>4. Stages' /\ Wrapped'
  BY <1>1 DEF Stages, Wrapped
<1>5. Absent(f)' /\ \A g \in Files \ {f} : Absent(g)' <=> Absent(g)
  BY <1>1 DEF Absent, Shapes
<1>6. \A i \in Items : Old(i) => Old(i)'
  BY <1>1, <1>5 DEF Old, isProbablyOutdated, Items
<1>7. \A g \in Files : Stub(g) \in Items /\ Header(g) \in Items /\ Wrapper(g) \in Items
                      /\ Stub(g)[1] = g /\ Header(g)[1] = g /\ Wrapper(g)[1] = g
  BY DEF Items, Stub, Header, Wrapper
<1>8. Judged'
  BY <1>1, <1>6, <1>7 DEF Judged, Shapes
<1>9. InWork'
  <2>1. \A i \in Items : \A v, s : (Told(i, v, s) => Told(i, v, s)') /\ (Same(i, v) => Same(i, v)')
    BY <1>1, <1>5 DEF Told, Same, Items
  <2>2. CASE stage \in {"fetch", "make"}
    <3>1. DOMAIN fetched \subseteq outdated /\ outdated \subseteq Files
      BY <2>2 DEF Stages, Shapes
    <3> QED
      BY <1>1, <1>7, <2>1, <2>2, <3>1 DEF InWork
  <2>3. CASE stage \notin {"fetch", "make"}
    BY <1>1, <1>7, <2>1, <2>3 DEF InWork, Shapes, Coming
  <2> QED
    BY <2>2, <2>3
<1>10. Kept'
  <2>1. ASSUME NEW i \in Items, i[1] # f, Current(i)
        PROVE  Current(i)'
    BY <1>1, <1>5, <2>1 DEF Current, Items, isProbablyOutdated
  <2> QED
    BY <1>1, <1>5, <2>1 DEF Kept, Items
<1> QED
  BY <1>3, <1>4, <1>8, <1>9, <1>10

LEMMA EditStubInv ==
    ASSUME SyncInv, NEW f \in Files, EditStub(f)
    PROVE  SyncInv'
<1> USE DEF SyncInv
<1>1. /\ UNCHANGED <<now, source, excused, stage, target, outdated, fetched, made>>
      /\ generated' \in [Items -> Record]
      /\ \A i \in Items : /\ generated'[i].exists = generated[i].exists
                           /\ generated'[i].version = generated[i].version
                           /\ generated'[i].stamp = generated[i].stamp
  BY DEF EditStub, work, Shapes, Record, Items
<1>2. Shapes' /\ Stages'
  BY <1>1 DEF Shapes, Stages
<1>3. \A i \in Items : Old(i)' <=> Old(i)
  BY <1>1 DEF Old, isProbablyOutdated, Absent
<1>4. \A g \in Files : Stub(g) \in Items /\ Header(g) \in Items /\ Wrapper(g) \in Items
  BY DEF Items, Stub, Header, Wrapper
<1>5. Judged' /\ Wrapped'
  BY <1>1, <1>3, <1>4 DEF Judged, Wrapped, Shapes, Wrapper
<1>6. InWork'
  BY <1>1, <1>4 DEF InWork, Shapes, Same, Told, Coming, Absent
<1>7. Kept'
  <2>1. \A i \in Items : <<i[1], "stub">> \in Items
    BY DEF Items
  <2>2. \A i \in Items : Current(i)' <=> Current(i)
    BY <1>1, <2>1 DEF Current, isProbablyOutdated, Absent
  <2> QED
    BY <1>1, <2>2 DEF Kept, Absent
<1> QED
  BY <1>2, <1>5, <1>6, <1>7
-----------------------------------------------------------------------------
(* A request. *)

LEMMA BeginInv ==
    ASSUME SyncInv, NEW p \in SUBSET Files, NEW t \in SUBSET p, NEW useStubs \in BOOLEAN, Begin(p, t, useStubs)
    PROVE  SyncInv'
<1> USE DEF SyncInv
<1>1. /\ UNCHANGED <<now, source, excused>> /\ target' = t /\ outdated' \subseteq p
      /\ fetched' = <<>> /\ made' = <<>> /\ stage' \in {"fetch", "compare"} /\ stage = "idle"
  BY DEF Begin
<1>2. \A i \in Items : generated'[i] = generated[i] \/ (i[2] = "stub" /\ generated'[i] = Nothing)
  BY DEF Begin, Extra, Shapes, Items
<1>3. generated' \in [Items -> Record]
  <2>1. generated' = [i \in Items |-> generated'[i]]
    BY DEF Begin, Shapes
  <2>2. Nothing \in Record
    BY DEF Nothing, Record
  <2> QED
    BY <1>2, <2>1, <2>2 DEF Shapes
<1>4. Shapes'
  BY <1>1, <1>2, <1>3, NoneMade DEF Shapes, Nothing
<1>5. Stages' /\ InWork' /\ Wrapped'
  BY <1>1, NoneMade DEF Stages, InWork, Wrapped
<1>6. Judged'
  <2> SUFFICES ASSUME stage' = "fetch", NEW f \in outdated'
               PROVE  Old(Stub(f))'
    BY <1>1 DEF Judged
  <2>1. f \in p /\ isProbablyOutdated(generated[<<f, "stub">>], f)
    BY DEF Begin
  <2>2. generated'[<<f, "stub">>] = generated[<<f, "stub">>]
    BY <2>1 DEF Begin, Extra, Items
  <2> QED
    BY <1>1, <2>1, <2>2 DEF Old, Stub, isProbablyOutdated, Absent
<1>7. Kept'
  <2>1. \A i \in Items : <<i[1], "stub">> \in Items
    BY DEF Items
  <2>2. \A i \in Items : Current(i) => Current(i)'
    BY <1>1, <1>2, <2>1 DEF Current, isProbablyOutdated, Absent, Nothing
  <2> QED
    BY <1>1, <2>2 DEF Kept, Absent
<1> QED
  BY <1>4, <1>5, <1>6, <1>7

LEMMA FetchInv ==
    ASSUME SyncInv, NEW f \in Files, Fetch(f)
    PROVE  SyncInv'
<1> USE DEF SyncInv
<1>1. /\ UNCHANGED <<now, source, generated, target, outdated, made>>
      /\ stage = "fetch" /\ stage' \in {"fetch", "make"} /\ f \in outdated /\ DOMAIN made = {}
      /\ excused' = excused \ {<<f, "stub">>, <<f, "header">>}
  BY DEF Fetch, Stages
<1>2. /\ DOMAIN fetched' = (DOMAIN fetched) \cup {f} /\ fetched'[f] = source[f].version
      /\ \A g \in (DOMAIN fetched) \ {f} : fetched'[g] = fetched[g]
  BY DEF Fetch, Put
<1>3. Shapes' /\ Wrapped'
  <2>1. \A g \in DOMAIN fetched' : fetched'[g] \in Nat
    BY <1>1, <1>2 DEF Shapes
  <2> QED
    BY <1>1, <2>1 DEF Shapes, Wrapped
<1>4. Stages'
  BY <1>1, <1>2 DEF Stages, Fetch
<1>5. \A i \in Items : Old(i)' <=> Old(i)
  BY <1>1 DEF Old, isProbablyOutdated, Absent
<1>6. \A g \in Files : Stub(g) \in Items /\ Header(g) \in Items /\ Stub(g)[1] = g
  BY DEF Items, Stub, Header
<1>7. Judged'
  BY <1>1, <1>5, <1>6 DEF Judged, Shapes
<1>8. InWork'
  <2>1. \A g \in DOMAIN fetched' : Same(Stub(g), fetched[g])'
    <3> SUFFICES ASSUME NEW g \in DOMAIN fetched'
                 PROVE  Same(Stub(g), fetched[g])'
      OBVIOUS
    <3>1. CASE g = f
      BY <1>1, <1>2, <3>1 DEF Same, Stub
    <3>2. CASE g # f
      BY <1>1, <1>2, <3>2 DEF InWork, Same, Stub, Absent
    <3> QED
      BY <3>1, <3>2
  <2> QED
    BY <1>1, <2>1 DEF InWork
<1>9. Kept'
  <2>1. Old(Stub(f))
    BY <1>1 DEF Judged
  <2>2. \A i \in Items : Current(i)' <=> Current(i)
    BY <1>1 DEF Current, isProbablyOutdated, Absent
  <2>3. Absent(f)' \/ (Current(Stub(f))' /\ Current(Header(f))')
    BY <1>1, <2>1 DEF Old, Current, isProbablyOutdated, Absent, Stub, Header
  <2> QED
    BY <1>1, <2>2, <2>3 DEF Kept, Absent, Stub, Header, Items
<1> QED
  BY <1>3, <1>4, <1>7, <1>8, <1>9

(* A file is made and waits to be written. *)
LEMMA AddMade ==
    ASSUME Shapes, NEW i \in Items, NEW v \in Nat, i \notin DOMAIN made,
           UNCHANGED <<now, source, generated, target, outdated, fetched>>, made' = Put(made, i, Make(v))
    PROVE  /\ DOMAIN made' = (DOMAIN made) \cup {i}
           /\ made'[i].version = v /\ made'[i].stamp = now
           /\ \A j \in DOMAIN made : made'[j] = made[j]
           /\ Shapes'
<1>1. /\ DOMAIN made' = (DOMAIN made) \cup {i} /\ made'[i] = Make(v)
      /\ \A j \in DOMAIN made : made'[j] = made[j]
      /\ made' = [j \in DOMAIN made' |-> made'[j]]
  BY DEF Put
<1>2. Make(v) \in Record /\ now \in Nat
  BY DEF Make, Record, Shapes
<1>3. \A j \in DOMAIN made' : made'[j] \in Record /\ made'[j].stamp <= now /\ made'[j].exists /\ ~ made'[j].edited
  <2> SUFFICES ASSUME NEW j \in DOMAIN made'
               PROVE  made'[j] \in Record /\ made'[j].stamp <= now /\ made'[j].exists /\ ~ made'[j].edited
    OBVIOUS
  <2>1. CASE j = i
    BY <1>1, <1>2, <2>1 DEF Make
  <2>2. CASE j \in DOMAIN made
    BY <1>1, <2>2 DEF Shapes
  <2> QED
    BY <1>1, <2>1, <2>2
<1>4. made' \in [DOMAIN made' -> Record]
  BY <1>1, <1>3
<1>5. Shapes'
  BY <1>1, <1>3, <1>4 DEF Shapes
<1>6. made'[i].version = v /\ made'[i].stamp = now
  BY <1>1 DEF Make
<1> QED
  BY <1>1, <1>5, <1>6

LEMMA MakeStubInv ==
    ASSUME SyncInv, NEW f \in Files, MakeStub(f)
    PROVE  SyncInv'
<1> USE DEF SyncInv
<1>1. /\ UNCHANGED <<now, source, generated, stage, target, outdated, fetched, excused>>
      /\ stage = "make" /\ f \in outdated /\ Stub(f) \notin DOMAIN made /\ Stub(f) \in Items
      /\ f \in DOMAIN fetched /\ fetched[f] \in Nat
      /\ made' = Put(made, Stub(f), Make(fetched[f]))
  BY DEF MakeStub, Stub, Items, Stages, Shapes
<1>2. /\ DOMAIN made' = (DOMAIN made) \cup {Stub(f)}
      /\ made'[Stub(f)].version = fetched[f] /\ made'[Stub(f)].stamp = now
      /\ \A j \in DOMAIN made : made'[j] = made[j]
      /\ Shapes'
  BY <1>1, AddMade
<1>3. Stages' /\ Wrapped' /\ Kept'
  <2>1. Stub(f) \in outdated \X {"stub", "header"}
    BY <1>1 DEF Stub
  <2> QED
    BY <1>1, <1>2, <2>1 DEF Stages, Wrapped, Kept, Current, isProbablyOutdated, Absent
<1>4. Judged'
  BY <1>1 DEF Judged, Old, isProbablyOutdated, Absent
<1>5. InWork'
  <2>1. \A g : Stub(g) # Header(g) /\ (g # f => Stub(g) # Stub(f)) /\ Stub(f) # Header(g)
    BY DEF Stub, Header
  <2>2. \A i, v : (Same(i, v)' <=> Same(i, v)) /\ \A s : (Told(i, v, s)' <=> Told(i, v, s))
    BY <1>1 DEF Same, Told, Absent
  <2>3. Same(Stub(f), fetched[f])
    BY <1>1 DEF InWork
  <2>4. ASSUME NEW g \in outdated
        PROVE  /\ Stub(g) \in DOMAIN made' => Told(Stub(g), made'[Stub(g)].version, made'[Stub(g)].stamp)
               /\ Header(g) \in DOMAIN made' /\ Stub(g) \notin DOMAIN made' =>
                     Same(Header(g), made'[Header(g)].version)
               /\ Header(g) \in DOMAIN made' /\ Stub(g) \in DOMAIN made' =>
                     Told(Header(g), made'[Header(g)].version, made'[Stub(g)].stamp)
    <3>1. CASE g = f
      BY <1>1, <1>2, <2>1, <2>3, <3>1 DEF InWork, Told
    <3>2. CASE g # f
      BY <1>1, <1>2, <2>1, <3>2 DEF InWork
    <3> QED
      BY <3>1, <3>2
  <2>5. \A g \in DOMAIN fetched : Stub(g) \in DOMAIN made' \/ Same(Stub(g), fetched[g])
    BY <1>1, <1>2 DEF InWork
  <2> QED
    BY <1>1, <2>2, <2>4, <2>5 DEF InWork, Same, Told, Absent
<1> QED
  BY <1>2, <1>3, <1>4, <1>5

LEMMA MakeHeaderInv ==
    ASSUME SyncInv, NEW f \in Files, MakeHeader(f)
    PROVE  SyncInv'
<1> USE DEF SyncInv
<1>1. /\ UNCHANGED <<now, source, generated, stage, target, outdated, fetched, excused>>
      /\ stage = "make" /\ f \in outdated /\ Header(f) \notin DOMAIN made /\ Header(f) \in Items
      /\ source[f].version \in Nat
      /\ made' = Put(made, Header(f), Make(source[f].version))
  BY DEF MakeHeader, Header, Items, Shapes
<1>2. /\ DOMAIN made' = (DOMAIN made) \cup {Header(f)}
      /\ made'[Header(f)].version = source[f].version
      /\ \A j \in DOMAIN made : made'[j] = made[j]
      /\ Shapes'
  BY <1>1, AddMade
<1>3. Stages' /\ Wrapped' /\ Kept'
  <2>1. Header(f) \in outdated \X {"stub", "header"}
    BY <1>1 DEF Header
  <2> QED
    BY <1>1, <1>2, <2>1 DEF Stages, Wrapped, Kept, Current, isProbablyOutdated, Absent
<1>4. Judged'
  BY <1>1 DEF Judged, Old, isProbablyOutdated, Absent
<1>5. InWork'
  <2>1. \A g : Stub(g) # Header(f) /\ (g # f => Header(g) # Header(f)) /\ Header(f)[1] = f
    BY DEF Stub, Header
  <2>2. \A i, v : (Same(i, v)' <=> Same(i, v)) /\ \A s : (Told(i, v, s)' <=> Told(i, v, s))
    BY <1>1 DEF Same, Told, Absent
  <2>3. Same(Header(f), source[f].version)
    BY <2>1 DEF Same
  <2>4. ASSUME NEW g \in outdated
        PROVE  /\ Stub(g) \in DOMAIN made' => Told(Stub(g), made'[Stub(g)].version, made'[Stub(g)].stamp)
               /\ Header(g) \in DOMAIN made' /\ Stub(g) \notin DOMAIN made' =>
                     Same(Header(g), made'[Header(g)].version)
               /\ Header(g) \in DOMAIN made' /\ Stub(g) \in DOMAIN made' =>
                     Told(Header(g), made'[Header(g)].version, made'[Stub(g)].stamp)
    <3>1. CASE g = f
      BY <1>1, <1>2, <2>1, <2>3, <3>1 DEF InWork, Told
    <3>2. CASE g # f
      BY <1>1, <1>2, <2>1, <3>2 DEF InWork
    <3> QED
      BY <3>1, <3>2
  <2>5. \A g \in DOMAIN fetched : Stub(g) \in DOMAIN made' \/ Same(Stub(g), fetched[g])
    BY <1>1, <1>2 DEF InWork
  <2> QED
    BY <1>1, <2>2, <2>4, <2>5 DEF InWork, Same, Told, Absent
<1> QED
  BY <1>2, <1>3, <1>4, <1>5

LEMMA CompleteInv ==
    ASSUME SyncInv, Complete
    PROVE  SyncInv'
<1> USE DEF SyncInv
<1>1. /\ UNCHANGED <<now, source, generated, target, outdated, fetched, made, excused>>
      /\ stage' = "write" /\ stage \in {"fetch", "make"}
      /\ outdated = {} \/ (stage = "make" /\ \A f \in outdated : Stub(f) \in DOMAIN made /\ Header(f) \in DOMAIN made)
  BY DEF Complete, Stub, Header
<1>2. Shapes' /\ Stages' /\ Wrapped'
  BY <1>1 DEF Shapes, Stages, Wrapped
<1>3. Judged'
  BY <1>1 DEF Judged, Old, isProbablyOutdated, Absent
<1>4. InWork'
  BY <1>1 DEF InWork, Coming, Told, Same, Absent
<1>5. Kept'
  BY <1>1 DEF Kept, Current, isProbablyOutdated, Absent
<1> QED
  BY <1>2, <1>3, <1>4, <1>5

(* What comes on the disk is what was to come. *)
LEMMA WriteInv ==
    ASSUME SyncInv, NEW i \in Items, Write(i)
    PROVE  SyncInv'
<1> USE DEF SyncInv
<1>1. /\ UNCHANGED <<now, source, stage, target, outdated, fetched, excused>>
      /\ stage = "write" /\ i \in DOMAIN made /\ DOMAIN made' = (DOMAIN made) \ {i}
      /\ \A j \in DOMAIN made' : made'[j] = made[j]
      /\ made' = [j \in DOMAIN made' |-> made'[j]]
  BY DEF Write
<1>2. /\ generated'[i] = made[i] /\ made[i] \in Record
      /\ \A j \in Items \ {i} : generated'[j] = generated[j]
      /\ generated' \in [Items -> Record]
  BY <1>1 DEF Write, Shapes
<1>3. Shapes'
  <2>1. made' \in [DOMAIN made' -> Record]
    BY <1>1 DEF Shapes
  <2> QED
    BY <1>1, <1>2, <2>1 DEF Shapes
<1>4. Stages' /\ Wrapped'
  BY <1>1 DEF Stages, Wrapped
<1>5. \A f \in Files : Stub(f) \in Items /\ Header(f) \in Items
  BY DEF Items, Stub, Header
<1>6. Judged'
  BY <1>1, <1>2, <1>5 DEF Judged, Old, isProbablyOutdated, Absent, Shapes
<1>7. InWork'
  <2>1. \A j \in Items : Coming(j)' = Coming(j)
    BY <1>1, <1>2 DEF Coming
  <2> QED
    BY <1>1, <1>5, <2>1 DEF InWork, Told, Same, Absent, Shapes
<1>8. Kept'
  <2>1. i[1] \in outdated /\ i[2] \in {"stub", "header"}
    BY <1>1 DEF Stages
  <2>2. ASSUME NEW j \in Items, j[1] \notin outdated \/ j[2] \notin {"stub", "header"}
        PROVE  generated'[j] = generated[j] /\ (j[2] = "header" => generated'[<<j[1], "stub">>] = generated[<<j[1], "stub">>])
    BY <1>2, <2>1, <2>2 DEF Items
  <2> QED
    BY <1>1, <2>2 DEF Kept, Current, isProbablyOutdated, Absent
<1> QED
  BY <1>3, <1>4, <1>6, <1>7, <1>8

LEMMA WrittenInv ==
    ASSUME SyncInv, Written
    PROVE  SyncInv'
<1> USE DEF SyncInv
<1>1. /\ UNCHANGED <<now, source, generated, target, made, excused>>
      /\ stage = "write" /\ stage' = "compare" /\ DOMAIN made = {}
      /\ outdated' = {} /\ fetched' = <<>>
  BY DEF Written
<1>2. Shapes' /\ Stages' /\ Wrapped' /\ Judged' /\ InWork'
  BY <1>1, NoneMade DEF Shapes, Stages, Wrapped, Judged, InWork
<1>3. Kept'
  <2>1. ASSUME NEW i \in Items, i[1] \in outdated, i[2] \in {"stub", "header"}, i \notin excused, ~ Absent(i[1])
        PROVE  Current(i)
    <3>1. i = Stub(i[1]) \/ i = Header(i[1])
      BY <2>1 DEF Items, Stub, Header
    <3>2. Coming(Stub(i[1])) = generated[Stub(i[1])] /\ Coming(Header(i[1])) = generated[Header(i[1])]
      BY <1>1 DEF Coming
    <3>3. Told(i, generated[i].version, generated[Stub(i[1])].stamp)
      BY <1>1, <2>1, <3>1, <3>2 DEF InWork
    <3>4. i[2] = "header" \/ i = Stub(i[1])
      BY <3>1 DEF Header
    <3> QED
      BY <2>1, <3>3, <3>4 DEF Told, Same, Current, isProbablyOutdated, Stub
  <2> QED
    BY <1>1, <2>1 DEF Kept, Current, isProbablyOutdated, Absent
<1> QED
  BY <1>2, <1>3
-----------------------------------------------------------------------------
(* Wrappers, and the ways a request ends. *)

LEMMA CompareInv ==
    ASSUME SyncInv, Compare
    PROVE  SyncInv'
<1> USE DEF SyncInv
<1>1. /\ UNCHANGED <<now, source, generated, target, fetched, made, excused>>
      /\ stage = "compare" /\ stage' = "wrap" /\ DOMAIN made = {}
      /\ outdated' = {f \in target : isProbablyOutdated(generated[Wrapper(f)], f)}
  BY DEF Compare, Stages, Wrapper
<1>2. Shapes' /\ Stages' /\ InWork'
  BY <1>1 DEF Shapes, Stages, InWork
<1>3. Judged' /\ Wrapped'
  BY <1>1 DEF Judged, Wrapped, Old, isProbablyOutdated, Absent, Wrapper
<1>4. Kept'
  BY <1>1 DEF Kept, Current, isProbablyOutdated, Absent
<1> QED
  BY <1>2, <1>3, <1>4

LEMMA WrapInv ==
    ASSUME SyncInv, NEW f \in Files, Wrap(f)
    PROVE  SyncInv'
<1> USE DEF SyncInv
<1>1. /\ UNCHANGED <<now, source, generated, stage, target, outdated, fetched>>
      /\ stage = "wrap" /\ f \in outdated /\ DOMAIN made = {} /\ Wrapper(f) \in Items
      /\ source[f].version \in Nat
      /\ made' = Put(made, Wrapper(f), Make(source[f].version))
      /\ excused' = excused \ {Wrapper(f)}
  BY DEF Wrap, Wrapper, Items, Shapes
<1>2. /\ DOMAIN made' = {Wrapper(f)}
      /\ made'[Wrapper(f)].version = source[f].version
      /\ Shapes'
  BY <1>1, AddMade
<1>3. Stages' /\ Wrapped'
  BY <1>1, <1>2 DEF Stages, Wrapped, Wrapper
<1>4. Judged'
  BY <1>1 DEF Judged, Old, isProbablyOutdated, Absent
<1>5. InWork'
  BY <1>1, <1>2 DEF InWork, Same, Wrapper
<1>6. Kept'
  <2>1. Absent(f) \/ Current(Wrapper(f))
    BY <1>1 DEF Judged, Old, Current, Wrapper
  <2>2. \A i \in Items : Current(i)' <=> Current(i)
    BY <1>1 DEF Current, isProbablyOutdated, Absent
  <2>3. Wrapper(f)[1] = f
    BY DEF Wrapper
  <2> QED
    BY <1>1, <2>1, <2>2, <2>3 DEF Kept, Absent
<1> QED
  BY <1>2, <1>3, <1>4, <1>5, <1>6

LEMMA PrintWrapperInv ==
    ASSUME SyncInv, NEW f \in Files, PrintWrapper(f)
    PROVE  SyncInv'
<1> USE DEF SyncInv
<1>1. /\ UNCHANGED <<now, source, stage, target, fetched, excused>>
      /\ stage = "wrap" /\ Wrapper(f) \in DOMAIN made /\ Wrapper(f) \in Items /\ f \in outdated
      /\ made' = <<>> /\ outdated' = outdated \ {f}
  BY DEF PrintWrapper, Wrapper, Items, Stages
<1>2. /\ generated'[Wrapper(f)] = Make(made[Wrapper(f)].version) /\ Make(made[Wrapper(f)].version) \in Record
      /\ \A j \in Items \ {Wrapper(f)} : generated'[j] = generated[j]
      /\ generated' \in [Items -> Record]
  <2>1. made[Wrapper(f)].version \in Nat /\ now \in Nat
    BY <1>1 DEF Shapes, Record
  <2>2. Make(made[Wrapper(f)].version) \in Record
    BY <2>1 DEF Make, Record
  <2>3. generated' = [generated EXCEPT ![Wrapper(f)] = Make(made[Wrapper(f)].version)]
    BY DEF PrintWrapper, Wrapper
  <2> QED
    BY <1>1, <2>2, <2>3 DEF Shapes
<1>9. generated'[Wrapper(f)].stamp = now /\ generated'[Wrapper(f)].exists
  BY <1>2 DEF Make
<1>3. Shapes'
  <2>1. \A i \in Items : generated'[i].stamp <= now
    BY <1>2, <1>9 DEF Shapes
  <2>2. DOMAIN made' = {} /\ made' \in [{} -> Record]
    BY <1>1, NoneMade
  <2> QED
    BY <1>1, <1>2, <2>1, <2>2 DEF Shapes
<1>4. \A g \in Files : Wrapper(g) \in Items /\ (g # f => Wrapper(g) # Wrapper(f)) /\ Stub(g) # Wrapper(f)
  BY DEF Wrapper, Items, Stub
<1>5. Stages' /\ InWork'
  BY <1>1, NoneMade DEF Stages, InWork
<1>6. Judged'
  BY <1>1, <1>2, <1>4 DEF Judged, Old, isProbablyOutdated, Absent, Shapes
<1>7. Wrapped'
  <2> SUFFICES ASSUME NEW g \in target \ outdated'
               PROVE  generated'[Wrapper(g)].exists
    BY <1>1 DEF Wrapped, Wrapper
  <2>1. CASE g = f
    BY <1>9, <2>1
  <2>2. CASE g # f
    BY <1>1, <1>2, <1>4, <2>2 DEF Wrapped, Wrapper, Shapes
  <2> QED
    BY <2>1, <2>2
<1>8. Kept'
  <2>1. Same(Wrapper(f), generated'[Wrapper(f)].version)
    BY <1>1, <1>2 DEF InWork, Make
  <2>2. Wrapper(f) \in excused \/ Absent(f) \/ Current(Wrapper(f))'
    BY <1>1, <2>1 DEF Same, Current, Wrapper
  <2>3. ASSUME NEW j \in Items, j # Wrapper(f)
        PROVE  Current(j)' <=> Current(j)
    <3>1. <<j[1], "stub">> \in Items /\ <<j[1], "stub">> # Wrapper(f)
      BY DEF Items, Wrapper
    <3> QED
      BY <1>1, <1>2, <2>3, <3>1 DEF Current, isProbablyOutdated, Absent
  <2> QED
    BY <1>1, <2>2, <2>3 DEF Kept, Absent, Wrapper
<1> QED
  BY <1>3, <1>5, <1>6, <1>7, <1>8

LEMMA EndInv ==
    ASSUME SyncInv, Synchronized \/ Stop
    PROVE  SyncInv'
<1> USE DEF SyncInv
<1>1. /\ UNCHANGED <<now, source, generated, target, excused>>
      /\ stage # "write" /\ stage' = "idle"
      /\ outdated' = {} /\ DOMAIN made' = {} /\ made' \in [{} -> Record]
      /\ \A g \in DOMAIN fetched' : fetched'[g] \in Nat
  BY NoneMade DEF Synchronized, Stop, Stages, Shapes
<1>2. Shapes'
  BY <1>1 DEF Shapes
<1>3. Stages' /\ Wrapped' /\ Judged' /\ InWork'
  BY <1>1 DEF Stages, Wrapped, Judged, InWork
<1>4. Kept'
  BY <1>1 DEF Kept, Current, isProbablyOutdated, Absent
<1> QED
  BY <1>2, <1>3, <1>4

(* What was to be written is excused; its stub alone may be there. *)
LEMMA CrashInv ==
    ASSUME SyncInv, NEW i \in Items, Crash(i)
    PROVE  SyncInv'
<1> USE DEF SyncInv
<1>1. /\ UNCHANGED <<now, source, target>>
      /\ stage \in {"write", "wrap"} /\ i \in DOMAIN made /\ stage' = "idle"
      /\ outdated' = {} /\ fetched' = <<>> /\ made' = <<>>
      /\ excused' = excused \cup DOMAIN made
      /\ generated' = [generated EXCEPT ![i] = [made[i] EXCEPT !.version = 0]]
  BY DEF Crash
<1>2. /\ generated'[i].stamp = made[i].stamp /\ generated'[i].exists
      /\ \A j \in Items \ {i} : generated'[j] = generated[j]
      /\ generated' \in [Items -> Record]
  <2>1. made[i] \in Record /\ made[i].exists
    BY <1>1 DEF Shapes
  <2>2. [made[i] EXCEPT !.version = 0] \in Record /\ [made[i] EXCEPT !.version = 0].exists
        /\ [made[i] EXCEPT !.version = 0].stamp = made[i].stamp
    BY <2>1 DEF Record
  <2> QED
    BY <1>1, <2>2 DEF Shapes
<1>3. Shapes'
  <2>1. \A j \in Items : generated'[j].stamp <= now
    BY <1>1, <1>2 DEF Shapes
  <2>2. DOMAIN made' = {} /\ made' \in [{} -> Record] /\ DOMAIN fetched' = {}
    BY <1>1, NoneMade
  <2> QED
    BY <1>1, <1>2, <2>1, <2>2 DEF Shapes
<1>4. Stages' /\ Wrapped' /\ Judged' /\ InWork'
  BY <1>1, NoneMade DEF Stages, Wrapped, Judged, InWork
<1>5. Kept'
  <2> SUFFICES ASSUME NEW j \in Items, j \notin excused, j \notin DOMAIN made, ~ Absent(j[1])
               PROVE  Current(j)'
    BY <1>1 DEF Kept, Absent
  <2>1. generated'[j] = generated[j]
    BY <1>1, <1>2
  <2>2. j[1] \in Files /\ Stub(j[1]) \in Items /\ (j[2] = "stub" => j = Stub(j[1])) /\ Stub(j[1])[1] = j[1]
        /\ (j[2] = "header" => j = Header(j[1])) /\ Stub(j[1])[2] = "stub"
    BY DEF Items, Stub, Header
  <2>3. CASE stage = "wrap" \/ j[1] \notin outdated \/ j[2] = "wrapper"
    <3>1. Current(j)
      BY <1>1, <2>3 DEF Kept
    <3>2. j[2] = "header" => i # Stub(j[1])
      BY <1>1, <2>2, <2>3 DEF Stages
    <3>3. j[2] = "header" => generated'[Stub(j[1])] = generated[Stub(j[1])]
      BY <1>2, <2>2, <3>2
    <3> QED
      BY <1>1, <2>1, <3>1, <3>3 DEF Current, isProbablyOutdated, Absent, Stub
  <2>4. CASE stage = "write" /\ j[1] \in outdated /\ j = Stub(j[1])
    <3>1. Told(j, generated[j].version, generated[j].stamp)
      BY <2>4 DEF InWork, Coming
    <3>2. j[2] # "header"
      BY <2>2, <2>4
    <3> QED
      BY <1>1, <2>1, <3>1, <3>2 DEF Told, Same, Current, isProbablyOutdated, Absent
  <2>5. CASE stage = "write" /\ j[1] \in outdated /\ j = Header(j[1]) /\ j[2] = "header"
    <3>1. Told(j, generated[j].version, Coming(Stub(j[1])).stamp)
      BY <2>5 DEF InWork, Coming
    <3>2. CASE i = Stub(j[1]) \/ Stub(j[1]) \notin DOMAIN made
      <4>1. generated'[Stub(j[1])].stamp = Coming(Stub(j[1])).stamp
        BY <1>1, <1>2, <2>2, <3>2 DEF Coming
      <4> QED
        BY <1>1, <2>1, <2>5, <3>1, <4>1 DEF Told, Same, Current, isProbablyOutdated, Absent, Stub
    <3>3. CASE i # Stub(j[1]) /\ Stub(j[1]) \in DOMAIN made
      <4>1. isProbablyOutdated(generated[Stub(j[1])], j[1])
        BY <2>2, <2>5, <3>3 DEF Judged, Old
      <4>2. generated'[Stub(j[1])] = generated[Stub(j[1])]
        BY <1>2, <2>2, <3>3
      <4> QED
        BY <1>1, <2>5, <4>1, <4>2 DEF Current, isProbablyOutdated, Absent, Stub
    <3> QED
      BY <3>2, <3>3
  <2>6. j[2] \in {"stub", "header", "wrapper"}
    BY DEF Items
  <2> QED
    BY <1>1, <2>2, <2>3, <2>4, <2>5, <2>6
<1> QED
  BY <1>3, <1>4, <1>5

LEMMA StutterInv ==
    ASSUME SyncInv, UNCHANGED syncVars
    PROVE  SyncInv'
<1> USE DEF SyncInv, syncVars, work
<1>1. Shapes' /\ Stages' /\ Wrapped'
  BY DEF Shapes, Stages, Wrapped
<1>2. Judged' /\ InWork' /\ Kept'
  BY DEF Judged, Old, InWork, Coming, Told, Same, Kept, Current, isProbablyOutdated, Absent
<1> QED
  BY <1>1, <1>2
-----------------------------------------------------------------------------
(* The invariant holds of every reachable state. *)
THEOREM SyncInvariance == SyncSpec => []SyncInv
<1>1. SyncInv /\ SyncNext => SyncInv'
  BY TickInv, EditInv, DeleteInv, EditStubInv, BeginInv, FetchInv, MakeStubInv, MakeHeaderInv, CompleteInv,
     WriteInv, WrittenInv, CompareInv, WrapInv, PrintWrapperInv, EndInv, CrashInv DEF SyncNext
<1>2. SyncInv /\ [SyncNext]_syncVars => SyncInv'
  BY <1>1, StutterInv
<1> QED
  BY <1>2, InitSyncInv, PTL DEF SyncSpec

(* What the next request will not make again was made of the source as it is. *)
THEOREM SyncWhatIsKeptIsCurrent == SyncSpec => []WhatIsKeptIsCurrent
<1>1. SyncInv => WhatIsKeptIsCurrent
  BY DEF SyncInv, Kept, WhatIsKeptIsCurrent
<1> QED
  BY <1>1, SyncInvariance, PTL

(* A request that has done its work leaves no wrapper out. *)
THEOREM SyncNothingIsMissing == SyncSpec => []NothingIsMissing
<1>1. SyncInv => NothingIsMissing
  BY DEF SyncInv, Wrapped, NothingIsMissing
<1> QED
  BY <1>1, SyncInvariance, PTL

(* A stub the user has edited is lost only if it was judged outdated or left the project. *)
THEOREM SyncEditsSurvive == SyncSpec => EditsSurvive
<1>1. SyncInv /\ [SyncNext]_syncVars => \A f \in Files : KeepsEdits(f)
  <2> SUFFICES ASSUME SyncInv, [SyncNext]_syncVars, NEW f \in Files,
                      generated[Stub(f)].edited, ~ generated'[Stub(f)].edited
               PROVE  Old(Stub(f)) \/ f \notin project'
    BY DEF KeepsEdits, Old, Stub
  <2> USE DEF SyncInv
  <2>1. Stub(f) \in Items /\ generated \in [Items -> Record] /\ Stub(f)[1] = f /\ Stub(f)[2] = "stub"
    BY DEF Items, Stub, Shapes
  <2>2. CASE \E p \in SUBSET Files : \E t \in SUBSET p, useStubs \in BOOLEAN : Begin(p, t, useStubs)
    <3>1. PICK p \in SUBSET Files, t \in SUBSET Files, useStubs \in BOOLEAN : Begin(p, t, useStubs)
      BY <2>2
    <3>2. Stub(f) \in Extra(p, t)
      BY <2>1, <3>1 DEF Begin
    <3> QED
      BY <3>1, <3>2 DEF Begin, Extra, Stub
  <2>3. CASE \E i \in Items : Write(i) \/ Crash(i)
    <3>1. PICK i \in Items : Write(i) \/ Crash(i)
      BY <2>3
    <3>2. i = Stub(f)
      BY <2>1, <3>1 DEF Write, Crash
    <3>3. stage = "write" /\ i \in DOMAIN made
      BY <2>1, <3>1, <3>2 DEF Write, Crash, Stages
    <3>4. f \in outdated
      BY <2>1, <3>2, <3>3 DEF Stages
    <3> QED
      BY <3>2, <3>3, <3>4 DEF Judged
  <2>4. CASE \E g \in Files : EditStub(g)
    <3>1. PICK g \in Files : generated' = [generated EXCEPT ![Stub(g)].edited = TRUE]
      BY <2>4 DEF EditStub, Stub
    <3>2. CASE g = f
      BY <2>1, <3>1, <3>2 DEF Record
    <3>3. CASE g # f
      BY <2>1, <3>1, <3>3 DEF Stub
    <3> QED
      BY <3>2, <3>3
  <2>5. CASE \E g \in Files : PrintWrapper(g)
    <3>1. PICK g \in Files : PrintWrapper(g)
      BY <2>5
    <3>2. Stub(f) # <<g, "wrapper">>
      BY DEF Stub
    <3> QED
      BY <2>1, <3>1, <3>2 DEF PrintWrapper
  <2>6. CASE UNCHANGED generated
    BY <2>6
  <2> QED
    BY <2>2, <2>3, <2>4, <2>5, <2>6 DEF SyncNext, Tick, Edit, Delete, Fetch, MakeStub, MakeHeader, Wrap,
       Complete, Written, Compare, Synchronized, Stop, syncVars
<1> QED
  BY <1>1, SyncInvariance, PTL DEF SyncSpec, EditsSurvive
=============================================================================
