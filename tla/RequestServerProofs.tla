------------------------- MODULE RequestServerProofs -------------------------
(***************************************************************************)
(* Proofs about FairMutex for any number of threads, mutexes and tickets,  *)
(* and about RequestServer for any number of threads and clients.          *)
(*                                                                         *)
(* The mutexes.  The counters wrap, so "served in ticket order" only makes *)
(* sense while the tickets in use fit in one turn of the counter.  Every   *)
(* ticket of the cyclic range curr..next is owned by exactly one thread    *)
(* (NoOrphanTicket, UniqueTickets); a pigeonhole argument then shows that  *)
(* one more ticket always fits (Room), hence next never catches up with    *)
(* curr and the ticket equal to curr has one owner.                        *)
(*                                                                         *)
(* The same two facts make the owners of the range a queue: position i is  *)
(* the one thread whose ticket is i - 1 from curr.  Taking a ticket then   *)
(* appends to it and retiring one removes its head, which is the step by   *)
(* step refinement of FifoLock.                                            *)
(*                                                                         *)
(* The server.  A step of the server is a step of the mutexes or leaves    *)
(* them alone, so everything shown of the mutexes holds in it.             *)
(* What has to be added for OneTaskPerClient is that two requests of one   *)
(* client use the same mutex: the invariant RInv ties the lock of a        *)
(* running handler to the entry of its client in the table (LockIsClients) *)
(* and shows that, while insertions do not overlap, an entry has one mutex *)
(* (OneInserter, OneLockPerClient).                                        *)
(***************************************************************************)
EXTENDS RequestServer, FiniteSetTheorems, SequenceTheorems, TLAPS

-----------------------------------------------------------------------------
(* The mutexes. *)

(* The ticket of a thread in the queue has not been retired. *)
TicketsPending ==
    \A t \in Threads : state[t] # "idle" => Pending(target[t], ticket[t])

(* No two threads in the queue of one mutex hold the same ticket. *)
UniqueTickets ==
    \A t, u \in Threads :
        /\ t # u /\ state[t] # "idle" /\ state[u] # "idle"
        /\ target[t] = target[u]
        => ticket[t] # ticket[u]

(* Only the ticket being served may be held. *)
HolderIsServed ==
    \A t \in Threads : state[t] = "holds" => ticket[t] = curr[target[t]]

(* The inductive invariant. *)
IInv ==
    /\ MutexTypeOK
    /\ TicketsPending
    /\ UniqueTickets
    /\ HolderIsServed
    /\ NoOrphanTicket
    /\ NoLostWakeup
-----------------------------------------------------------------------------
LEMMA SuccType ==
    ASSUME NEW k \in Ticket
    PROVE  Succ(k) \in Ticket
  BY TicketAssumption DEF Succ, Ticket

(* Handing out a ticket adds exactly that ticket to the cyclic range. *)
LEMMA RangeGrows ==
    ASSUME NEW c \in Ticket, NEW n \in Ticket, NEW k \in Ticket, Succ(n) # c
    PROVE  (IF c <= Succ(n) THEN c <= k /\ k < Succ(n) ELSE c <= k \/ k < Succ(n))
           <=> ((IF c <= n THEN c <= k /\ k < n ELSE c <= k \/ k < n) \/ k = n)
  BY TicketAssumption DEF Succ, Ticket

(* Retiring curr removes exactly curr from the cyclic range. *)
LEMMA RangeShrinks ==
    ASSUME NEW c \in Ticket, NEW n \in Ticket, NEW k \in Ticket, n # c
    PROVE  (IF Succ(c) <= n THEN Succ(c) <= k /\ k < n ELSE Succ(c) <= k \/ k < n)
           <=> ((IF c <= n THEN c <= k /\ k < n ELSE c <= k \/ k < n) /\ k # c)
  BY TicketAssumption DEF Succ, Ticket

(***************************************************************************)
(* There is always room for the ticket of a thread that is not yet in a    *)
(* queue: if the counter were about to bite its tail, the TicketMod - 1    *)
(* pending tickets would need as many owners among the other threads.      *)
(***************************************************************************)
LEMMA Room ==
    ASSUME IInv, NEW m \in Mutexes, NEW t \in Threads, state[t] = "idle"
    PROVE  Succ(next[m]) # curr[m]
<1> SUFFICES ASSUME Succ(next[m]) = curr[m]
             PROVE  FALSE
  OBVIOUS
<1> DEFINE S == Ticket \ {next[m]}
           T == Threads \ {t}
           owner == [k \in S |-> CHOOSE u \in Threads : InQueue(u, m) /\ ticket[u] = k]
<1>0. /\ next[m] \in Ticket
      /\ curr[m] \in Ticket
  BY DEF IInv, MutexTypeOK
<1>1. ASSUME NEW k \in S
      PROVE  /\ owner[k] \in T
             /\ ticket[owner[k]] = k
  <2>1. Pending(m, k)
    BY <1>0, TicketAssumption DEF Pending, Succ, Ticket
  <2>2. \E u \in Threads : InQueue(u, m) /\ ticket[u] = k
    BY <2>1 DEF IInv, NoOrphanTicket
  <2>3. owner[k] \in Threads /\ InQueue(owner[k], m) /\ ticket[owner[k]] = k
    BY <2>2
  <2>4. owner[k] # t
    BY <2>3 DEF InQueue
  <2> QED
    BY <2>3, <2>4
<1>2. IsFiniteSet(S) /\ Cardinality(S) = TicketMod - 1
  <2>1. IsFiniteSet(Ticket) /\ Cardinality(Ticket) = TicketMod
    <3>1. TicketMod \in Nat /\ TicketMod > 0
      BY TicketAssumption, FS_CardinalityType
    <3>2. 0 \in Int /\ TicketMod - 1 \in Int
      BY <3>1
    <3> QED
      BY <3>1, <3>2, FS_Interval DEF Ticket
  <2> QED
    BY <1>0, <2>1, FS_RemoveElement
<1>3. IsFiniteSet(T) /\ Cardinality(T) = Cardinality(Threads) - 1
  BY TicketAssumption, FS_RemoveElement
<1>4. Cardinality(Threads) \in Nat /\ TicketMod \in Nat
  BY TicketAssumption, FS_CardinalityType
<1>5. Cardinality(T) < Cardinality(S)
  BY <1>2, <1>3, <1>4, TicketAssumption
<1>6. owner \in [S -> T]
  BY <1>1
<1>7. \E x, y \in S : x # y /\ owner[x] = owner[y]
  <2> HIDE DEF S, T, owner
  <2> QED
    BY <1>2, <1>3, <1>5, <1>6, FS_PigeonHole
<1> QED
  BY <1>1, <1>7

LEMMA InitIInv == MutexInit => IInv
<1> SUFFICES ASSUME MutexInit
             PROVE  IInv
  OBVIOUS
<1>1. 0 \in Ticket
  BY TicketAssumption, FS_CardinalityType DEF Ticket
<1>2. MutexTypeOK
  BY <1>1 DEF MutexInit, MutexTypeOK, States
<1>3. NoOrphanTicket
  BY DEF MutexInit, NoOrphanTicket, Pending, Ticket
<1> QED
  BY <1>2, <1>3 DEF IInv, MutexInit, TicketsPending, UniqueTickets, HolderIsServed,
                    NoLostWakeup
-----------------------------------------------------------------------------
(***************************************************************************)
(* Taking a ticket, whether by try_lock() or by lock(): s is the state     *)
(* the thread reaches.                                                     *)
(***************************************************************************)
LEMMA TakeTicket ==
    ASSUME IInv, NEW t \in Threads, NEW m \in Mutexes, NEW s \in {"holds", "asleep"},
           state[t] = "idle", HandOut(t, m),
           s = "holds" <=> next[m] = curr[m],
           state' = [state EXCEPT ![t] = s],
           UNCHANGED curr
    PROVE  IInv'
<1>0. /\ next[m] \in Ticket
      /\ curr[m] \in Ticket
      /\ Succ(next[m]) # curr[m]
      /\ MutexTypeOK
  BY Room DEF IInv, MutexTypeOK
<1>1. MutexTypeOK'
  BY <1>0, SuccType DEF MutexTypeOK, HandOut, States
<1>2. ASSUME NEW k \in Ticket
      PROVE  Pending(m, k)' <=> (Pending(m, k) \/ k = next[m])
  BY <1>0, RangeGrows DEF Pending, HandOut, MutexTypeOK
<1>3. ASSUME NEW k \in Ticket, NEW n \in Mutexes, n # m
      PROVE  Pending(n, k)' <=> Pending(n, k)
  BY <1>0, <1>3 DEF Pending, HandOut, MutexTypeOK
<1>4. ~ Pending(m, next[m])
  BY <1>0 DEF Pending, Ticket
<1>5. /\ ticket'[t] = next[m] /\ target'[t] = m /\ state'[t] = s
      /\ \A u \in Threads \ {t} : /\ ticket'[u] = ticket[u]
                                  /\ target'[u] = target[u]
                                  /\ state'[u] = state[u]
  BY <1>0 DEF HandOut, MutexTypeOK
<1>6. TicketsPending'
  <2> SUFFICES ASSUME NEW u \in Threads, state'[u] # "idle"
               PROVE  Pending(target[u], ticket[u])'
    BY DEF TicketsPending
  <2>1. CASE u = t
    BY <2>1, <1>0, <1>2, <1>5
  <2>2. CASE u # t
    <3>1. Pending(target[u], ticket[u]) /\ target[u] \in Mutexes /\ ticket[u] \in Ticket
      BY <2>2, <1>0, <1>5 DEF IInv, TicketsPending, MutexTypeOK
    <3> QED
      BY <2>2, <3>1, <1>2, <1>3, <1>5
  <2> QED
    BY <2>1, <2>2
<1>7. UniqueTickets'
  <2>1. ASSUME NEW u \in Threads, u # t, state[u] # "idle", target[u] = m
        PROVE  ticket[u] # next[m]
    BY <2>1, <1>4 DEF IInv, TicketsPending
  <2> QED
    BY <2>1, <1>5 DEF IInv, UniqueTickets
<1>8. HolderIsServed'
  BY <1>5 DEF IInv, HolderIsServed
<1>9. NoOrphanTicket'
  <2> SUFFICES ASSUME NEW n \in Mutexes, NEW k \in Ticket, Pending(n, k)'
               PROVE  \E u \in Threads : InQueue(u, n)' /\ ticket'[u] = k
    BY DEF NoOrphanTicket
  <2>1. CASE n = m /\ k = next[m]
    BY <2>1, <1>5 DEF InQueue
  <2>2. CASE ~(n = m /\ k = next[m])
    <3>1. Pending(n, k)
      BY <2>2, <1>2, <1>3
    <3>2. PICK u \in Threads : InQueue(u, n) /\ ticket[u] = k
      BY <3>1 DEF IInv, NoOrphanTicket
    <3> QED
      BY <3>2, <1>5 DEF InQueue
  <2> QED
    BY <2>1, <2>2
<1>10. NoLostWakeup'
  BY <1>5 DEF IInv, NoLostWakeup
<1> QED
  BY <1>1, <1>6, <1>7, <1>8, <1>9, <1>10 DEF IInv

(* A wake-up, spurious or followed by the test of the loop condition. *)
LEMMA WakeStep ==
    ASSUME IInv, NEW t \in Threads, SpuriousWake(t) \/ Recheck(t)
    PROVE  IInv'
<1>0. MutexTypeOK /\ UNCHANGED <<next, curr, ticket, target>>
  BY DEF IInv, SpuriousWake, Recheck
<1>1. /\ state[t] # "idle" /\ state'[t] # "idle"
      /\ \A u \in Threads \ {t} : state'[u] = state[u]
      /\ state'[t] = "holds" => ticket[t] = curr[target[t]]
      /\ state'[t] = "asleep" => ticket[t] # curr[target[t]]
  BY <1>0 DEF SpuriousWake, Recheck, MutexTypeOK
<1>2. MutexTypeOK'
  BY <1>0 DEF SpuriousWake, Recheck, MutexTypeOK, States
<1>3. \A m \in Mutexes, k \in Ticket : Pending(m, k)' <=> Pending(m, k)
  BY <1>0 DEF Pending
<1>4. \A u \in Threads : (state'[u] # "idle") <=> (state[u] # "idle")
  BY <1>1
<1>5. TicketsPending'
  BY <1>0, <1>3, <1>4 DEF IInv, TicketsPending, MutexTypeOK
<1>6. UniqueTickets'
  BY <1>0, <1>4 DEF IInv, UniqueTickets
<1>7. HolderIsServed' /\ NoLostWakeup'
  BY <1>0, <1>1 DEF IInv, HolderIsServed, NoLostWakeup
<1>8. NoOrphanTicket'
  BY <1>0, <1>3, <1>4 DEF IInv, NoOrphanTicket, InQueue
<1> QED
  BY <1>2, <1>5, <1>6, <1>7, <1>8 DEF IInv

(***************************************************************************)
(* unlock(): the holder's ticket is the one removed from the range, and    *)
(* everybody who sleeps on the mutex is woken, so nobody sleeps through    *)
(* the new value of curr.                                                  *)
(***************************************************************************)
LEMMA UnlockStep ==
    ASSUME IInv, NEW t \in Threads, NEW m \in Mutexes, Unlock(t, m)
    PROVE  IInv'
<1>0. /\ MutexTypeOK
      /\ next[m] \in Ticket /\ curr[m] \in Ticket
      /\ UNCHANGED <<next, ticket, target>>
      /\ state[t] = "holds" /\ target[t] = m /\ ticket[t] = curr[m]
      /\ curr' = [curr EXCEPT ![m] = Succ(@)]
  BY DEF IInv, MutexTypeOK, Unlock, Holds, HolderIsServed
<1>1. next[m] # curr[m]
  <2>1. Pending(m, curr[m])
    BY <1>0 DEF IInv, TicketsPending
  <2> QED
    BY <2>1, <1>0 DEF Pending, Ticket
<1>2. /\ state'[t] = "idle"
      /\ \A u \in Threads \ {t} :
            state'[u] = IF state[u] = "asleep" /\ target[u] = m THEN "woken" ELSE state[u]
  BY DEF Unlock, Notified
<1>3. MutexTypeOK'
  BY <1>0, <1>2, SuccType DEF MutexTypeOK, States, Unlock, Notified
<1>4. ASSUME NEW k \in Ticket
      PROVE  Pending(m, k)' <=> (Pending(m, k) /\ k # curr[m])
  BY <1>0, <1>1, RangeShrinks DEF Pending, MutexTypeOK
<1>5. ASSUME NEW k \in Ticket, NEW n \in Mutexes, n # m
      PROVE  Pending(n, k)' <=> Pending(n, k)
  BY <1>0, <1>5 DEF Pending, MutexTypeOK
<1>6. \A u \in Threads \ {t} : /\ (state'[u] # "idle") <=> (state[u] # "idle")
                               /\ state'[u] = "holds" <=> state[u] = "holds"
  BY <1>2
<1>7. ASSUME NEW u \in Threads, u # t, state[u] # "idle", target[u] = m
      PROVE  ticket[u] # curr[m]
  BY <1>7, <1>0 DEF IInv, UniqueTickets
<1>8. TicketsPending'
  <2> SUFFICES ASSUME NEW u \in Threads, state'[u] # "idle"
               PROVE  Pending(target[u], ticket[u])'
    BY DEF TicketsPending
  <2>1. u # t /\ state[u] # "idle"
    BY <1>2, <1>6
  <2>2. Pending(target[u], ticket[u]) /\ target[u] \in Mutexes /\ ticket[u] \in Ticket
    BY <2>1, <1>0 DEF IInv, TicketsPending, MutexTypeOK
  <2>3. target'[u] = target[u] /\ ticket'[u] = ticket[u]
    BY <1>0
  <2>4. CASE target[u] = m
    BY <2>1, <2>2, <2>3, <2>4, <1>4, <1>7
  <2>5. CASE target[u] # m
    BY <2>2, <2>3, <2>5, <1>5
  <2> QED
    BY <2>4, <2>5
<1>9. UniqueTickets'
  BY <1>0, <1>2, <1>6 DEF IInv, UniqueTickets
<1>10. HolderIsServed'
  <2> SUFFICES ASSUME NEW u \in Threads, state'[u] = "holds"
               PROVE  ticket[u] = curr'[target[u]]
    BY <1>0 DEF HolderIsServed
  <2>1. u # t /\ state[u] = "holds"
    BY <1>2, <1>6
  <2>2. ticket[u] = curr[target[u]]
    BY <2>1 DEF IInv, HolderIsServed
  <2>3. target[u] # m
    BY <2>1, <2>2, <1>7
  <2> QED
    BY <2>2, <2>3, <1>0 DEF MutexTypeOK
<1>11. NoOrphanTicket'
  <2> SUFFICES ASSUME NEW n \in Mutexes, NEW k \in Ticket, Pending(n, k)'
               PROVE  \E u \in Threads : InQueue(u, n)' /\ ticket'[u] = k
    BY DEF NoOrphanTicket
  <2>1. Pending(n, k) /\ ~(n = m /\ k = curr[m])
    BY <1>4, <1>5
  <2>2. PICK u \in Threads : InQueue(u, n) /\ ticket[u] = k
    BY <2>1 DEF IInv, NoOrphanTicket
  <2>3. u # t
    BY <2>1, <2>2, <1>0 DEF InQueue
  <2> QED
    BY <2>2, <2>3, <1>0, <1>6 DEF InQueue
<1>12. NoLostWakeup'
  <2> SUFFICES ASSUME NEW u \in Threads, state'[u] = "asleep"
               PROVE  ticket[u] # curr'[target[u]]
    BY <1>0 DEF NoLostWakeup
  <2>1. u # t /\ state[u] = "asleep" /\ target[u] # m
    BY <1>2
  <2> QED
    BY <2>1, <1>0 DEF IInv, NoLostWakeup, MutexTypeOK
<1> QED
  BY <1>3, <1>8, <1>9, <1>10, <1>11, <1>12 DEF IInv

LEMMA NextStep == IInv /\ [MutexNext]_mutexVars => IInv'
<1> SUFFICES ASSUME IInv, [MutexNext]_mutexVars
             PROVE  IInv'
  OBVIOUS
<1>1. CASE UNCHANGED mutexVars
  BY <1>1 DEF IInv, mutexVars, MutexTypeOK, TicketsPending, UniqueTickets,
              HolderIsServed, NoOrphanTicket, NoLostWakeup, InQueue, Pending
<1>2. ASSUME NEW t \in Threads, NEW m \in Mutexes, TryLockTrue(t, m)
      PROVE  IInv'
  BY <1>2, TakeTicket DEF TryLockTrue
<1>3. ASSUME NEW t \in Threads, NEW m \in Mutexes, TryLockFalse(t, m)
      PROVE  IInv'
  BY <1>1, <1>3 DEF TryLockFalse
<1>4. ASSUME NEW t \in Threads, NEW m \in Mutexes, LockEnter(t, m)
      PROVE  IInv'
  <2>1. CASE next[m] = curr[m]
    BY <1>4, <2>1, TakeTicket DEF LockEnter
  <2>2. CASE next[m] # curr[m]
    BY <1>4, <2>2, TakeTicket DEF LockEnter
  <2> QED
    BY <2>1, <2>2
<1>5. ASSUME NEW t \in Threads, NEW m \in Mutexes, Unlock(t, m)
      PROVE  IInv'
  BY <1>5, UnlockStep
<1>6. ASSUME NEW t \in Threads, SpuriousWake(t) \/ Recheck(t)
      PROVE  IInv'
  BY <1>6, WakeStep
<1> QED
  BY <1>1, <1>2, <1>3, <1>4, <1>5, <1>6 DEF MutexNext, ThreadStep

LEMMA Invariance == MutexSpec => []IInv
  BY InitIInv, NextStep, PTL DEF MutexSpec
-----------------------------------------------------------------------------
(***************************************************************************)
(* Type correctness of the ticket mutex, in particular of the counters     *)
(* next and curr that wrap at the width of std::size_t.                    *)
(***************************************************************************)
THEOREM TypeCorrect == MutexSpec => []MutexTypeOK
<1>1. IInv => MutexTypeOK
  BY DEF IInv
<1> QED
  BY <1>1, Invariance, PTL

(***************************************************************************)
(* lock() and try_lock() exclude: never two threads between them and the   *)
(* unlock() of one mutex, even when the ticket counters wrap around.       *)
(***************************************************************************)
THEOREM MutualExclusionHolds == MutexSpec => []MutualExclusion
<1>1. IInv => MutualExclusion
  BY DEF IInv, MutualExclusion, Holds, HolderIsServed, UniqueTickets
<1> QED
  BY <1>1, Invariance, PTL

(***************************************************************************)
(* Every ticket still to be served has an owner that will call unlock():   *)
(* the mutex can never wait for a thread that is not there.                *)
(***************************************************************************)
THEOREM NoOrphanTicketHolds == MutexSpec => []NoOrphanTicket
<1>1. IInv => NoOrphanTicket
  BY DEF IInv
<1> QED
  BY <1>1, Invariance, PTL

(***************************************************************************)
(* No thread sleeps in cv.wait() when curr is its ticket: notify_all()     *)
(* under the inner mutex loses no wake-up.                                 *)
(***************************************************************************)
THEOREM NoLostWakeupHolds == MutexSpec => []NoLostWakeup
<1>1. IInv => NoLostWakeup
  BY DEF IInv
<1> QED
  BY <1>1, Invariance, PTL
-----------------------------------------------------------------------------
(* Position i of the queue of m is a thread whose ticket is i - 1 from curr. *)
QueueIsOwned ==
    \A m \in Mutexes : \A i \in 1 .. QueueLength(m) :
        /\ OwnerAt(m, i) \in Threads
        /\ InQueue(OwnerAt(m, i), m)
        /\ Distance(m, ticket[OwnerAt(m, i)]) = i - 1

(* A thread with a ticket is in the queue, at the distance of its ticket. *)
QueuedIsOwner ==
    \A m \in Mutexes : \A t \in Threads :
        InQueue(t, m) => /\ Distance(m, ticket[t]) + 1 \in 1 .. QueueLength(m)
                         /\ OwnerAt(m, Distance(m, ticket[t]) + 1) = t

LEMMA QueueFacts == IInv => QueueIsOwned /\ QueuedIsOwner
<1> SUFFICES ASSUME IInv, NEW m \in Mutexes
             PROVE  /\ \A i \in 1 .. QueueLength(m) :
                         /\ OwnerAt(m, i) \in Threads
                         /\ InQueue(OwnerAt(m, i), m)
                         /\ Distance(m, ticket[OwnerAt(m, i)]) = i - 1
                    /\ \A t \in Threads : InQueue(t, m) =>
                         /\ Distance(m, ticket[t]) + 1 \in 1 .. QueueLength(m)
                         /\ OwnerAt(m, Distance(m, ticket[t]) + 1) = t
  BY DEF QueueIsOwned, QueuedIsOwner
<1>0. /\ next[m] \in Ticket
      /\ curr[m] \in Ticket
      /\ \A t \in Threads : ticket[t] \in Ticket
  BY DEF IInv, MutexTypeOK
<1>1. ASSUME NEW i \in 1 .. QueueLength(m)
      PROVE  /\ OwnerAt(m, i) \in Threads
             /\ InQueue(OwnerAt(m, i), m)
             /\ Distance(m, ticket[OwnerAt(m, i)]) = i - 1
  <2> DEFINE k == IF curr[m] + i - 1 < TicketMod THEN curr[m] + i - 1
                                                 ELSE curr[m] + i - 1 - TicketMod
  <2>1. k \in Ticket /\ Pending(m, k) /\ Distance(m, k) = i - 1
    BY <1>0, TicketAssumption DEF Ticket, Pending, Distance, QueueLength
  <2>2. \E t \in Threads : InQueue(t, m) /\ Distance(m, ticket[t]) = i - 1
    <3> HIDE DEF k
    <3> QED
      BY <2>1 DEF IInv, NoOrphanTicket
  <2> QED
    BY <2>2 DEF OwnerAt
<1>2. ASSUME NEW t \in Threads, InQueue(t, m)
      PROVE  /\ Distance(m, ticket[t]) + 1 \in 1 .. QueueLength(m)
             /\ OwnerAt(m, Distance(m, ticket[t]) + 1) = t
  <2>1. Pending(m, ticket[t])
    BY <1>2 DEF IInv, TicketsPending, InQueue
  <2>2. Distance(m, ticket[t]) + 1 \in 1 .. QueueLength(m)
    BY <1>0, <2>1, TicketAssumption DEF Ticket, Pending, Distance, QueueLength
  <2> DEFINE u == OwnerAt(m, Distance(m, ticket[t]) + 1)
  <2>3. u \in Threads /\ InQueue(u, m)
    BY <1>1, <2>2
  <2>4. Distance(m, ticket[u]) = Distance(m, ticket[t])
    <3>1. Distance(m, ticket[u]) = (Distance(m, ticket[t]) + 1) - 1
      BY <1>1, <2>2
    <3>2. Distance(m, ticket[t]) \in Int
      BY <1>0, TicketAssumption DEF Ticket, Distance
    <3> QED
      BY <3>1, <3>2
  <2>5. ticket[u] = ticket[t]
    <3> HIDE DEF u
    <3> QED
      BY <1>0, <2>3, <2>4, TicketAssumption DEF Ticket, Distance
  <2>6. u = t
    <3> HIDE DEF u
    <3> QED
      BY <1>2, <2>3, <2>5 DEF IInv, UniqueTickets, InQueue
  <2> QED
    BY <2>2, <2>6
<1> QED
  BY <1>1, <1>2

LEMMA QueueFactsNext == IInv' => QueueIsOwned' /\ QueuedIsOwner'
  BY QueueFacts, PTL

(* The queues of the abstraction are sequences of threads. *)
QueuesAreSequences ==
    \A m \in Mutexes :
        /\ QueueLength(m) \in Nat
        /\ queueOf[m] \in Seq(Threads)
        /\ Len(queueOf[m]) = QueueLength(m)
        /\ \A i \in 1 .. QueueLength(m) : queueOf[m][i] = OwnerAt(m, i)

LEMMA SequenceFacts == IInv => QueuesAreSequences
<1> SUFFICES ASSUME IInv, NEW m \in Mutexes
             PROVE  /\ QueueLength(m) \in Nat
                    /\ queueOf[m] \in Seq(Threads)
                    /\ Len(queueOf[m]) = QueueLength(m)
                    /\ \A i \in 1 .. QueueLength(m) : queueOf[m][i] = OwnerAt(m, i)
  BY DEF QueuesAreSequences
<1>1. QueueLength(m) \in Nat
  BY TicketAssumption DEF IInv, MutexTypeOK, Ticket, QueueLength
<1>2. queueOf[m] = [i \in 1 .. QueueLength(m) |-> OwnerAt(m, i)]
  BY DEF queueOf
<1>3. \A i \in 1 .. QueueLength(m) : OwnerAt(m, i) \in Threads
  BY QueueFacts DEF QueueIsOwned
<1>4. queueOf[m] \in [1 .. QueueLength(m) -> Threads]
  BY <1>2, <1>3
<1>5. queueOf[m] \in Seq(Threads)
  BY <1>1, <1>4, SeqDef
<1>6. /\ DOMAIN queueOf[m] = 1 .. QueueLength(m)
      /\ DOMAIN queueOf[m] = 1 .. Len(queueOf[m])
      /\ Len(queueOf[m]) \in Nat
  BY <1>4, <1>5, LenProperties
<1>7. Len(queueOf[m]) = QueueLength(m)
  BY <1>6, <1>1
<1> QED
  BY <1>1, <1>2, <1>5, <1>7

LEMMA SequencesNext == IInv' => QueuesAreSequences'
  BY SequenceFacts, PTL
-----------------------------------------------------------------------------
(* The queues start empty. *)
LEMMA FifoInitially == MutexInit => Fifo!FifoInit
<1> SUFFICES ASSUME MutexInit
             PROVE  Fifo!FifoInit
  OBVIOUS
<1>1. \A m \in Mutexes : QueueLength(m) = 0
  BY DEF MutexInit, QueueLength
<1>2. \A m \in Mutexes : [i \in 1 .. QueueLength(m) |-> OwnerAt(m, i)] = <<>>
  BY <1>1
<1>3. queueOf = [m \in Mutexes |-> <<>>]
  BY <1>2 DEF queueOf
<1>4. granted = {}
  BY DEF MutexInit, granted
<1> QED
  BY <1>3, <1>4 DEF Fifo!FifoInit

(***************************************************************************)
(* A thread that stays in the queue of m at the same distance keeps its    *)
(* position, so a queue nobody joins or leaves does not change.            *)
(***************************************************************************)
LEMMA QueueUnchanged ==
    ASSUME IInv, IInv', NEW m \in Mutexes,
           QueueLength(m)' = QueueLength(m),
           \A u \in Threads : InQueue(u, m) => /\ InQueue(u, m)'
                                               /\ Distance(m, ticket[u])' = Distance(m, ticket[u])
    PROVE  queueOf'[m] = queueOf[m]
<1>1. QueueIsOwned /\ QueuedIsOwner'
  BY QueueFacts, QueueFactsNext
<1>2. ASSUME NEW i \in 1 .. QueueLength(m)
      PROVE  OwnerAt(m, i)' = OwnerAt(m, i)
  <2> DEFINE u == OwnerAt(m, i)
  <2>1. u \in Threads /\ InQueue(u, m) /\ Distance(m, ticket[u]) = i - 1
    BY <1>1 DEF QueueIsOwned
  <2>2. PICK v \in Threads : v = u
    BY <2>1
  <2>3. InQueue(v, m)' /\ Distance(m, ticket[v])' = i - 1
    BY <2>1, <2>2
  <2>4. OwnerAt(m, (Distance(m, ticket[v]) + 1))' = v
    BY <1>1, <2>3 DEF QueuedIsOwner
  <2>5. Distance(m, ticket[v])' + 1 = i
    BY <2>3
  <2> QED
    BY <2>2, <2>4, <2>5
<1> QED
  BY <1>2 DEF queueOf

(* What Append and Tail do, element by element. *)
LEMMA AppendByElement ==
    ASSUME NEW S, NEW q \in Seq(S), NEW e \in S, NEW r \in Seq(S),
           Len(r) = Len(q) + 1, r[Len(q) + 1] = e,
           \A i \in 1 .. Len(q) : r[i] = q[i]
    PROVE  r = Append(q, e)
<1>1. /\ Append(q, e) \in Seq(S)
      /\ Len(Append(q, e)) = Len(q) + 1
      /\ \A i \in 1 .. Len(q) : Append(q, e)[i] = q[i]
      /\ Append(q, e)[Len(q) + 1] = e
  BY AppendProperties
<1>2. Len(q) \in Nat
  BY LenProperties
<1>3. \A i \in 1 .. Len(r) : r[i] = Append(q, e)[i]
  BY <1>1, <1>2
<1> QED
  BY <1>1, <1>3, SeqEqual

LEMMA TailByElement ==
    ASSUME NEW S, NEW q \in Seq(S), q # <<>>, NEW r \in Seq(S),
           Len(r) = Len(q) - 1,
           \A i \in 1 .. Len(r) : r[i] = q[i + 1]
    PROVE  r = Tail(q)
  BY HeadTailProperties, SeqEqual

(* Taking a ticket is joining the end of the queue. *)
LEMMA JoinStep ==
    ASSUME IInv, IInv', NEW t \in Threads, NEW m \in Mutexes, NEW s \in {"holds", "asleep"},
           state[t] = "idle", HandOut(t, m),
           s = "holds" <=> next[m] = curr[m],
           state' = [state EXCEPT ![t] = s],
           UNCHANGED curr
    PROVE  Fifo!Join(t, m)
<1>0. /\ next[m] \in Ticket
      /\ curr[m] \in Ticket
      /\ Succ(next[m]) # curr[m]
      /\ MutexTypeOK
  BY Room DEF IInv, MutexTypeOK
<1>1. /\ ticket'[t] = next[m] /\ target'[t] = m /\ state'[t] = s
      /\ \A u \in Threads \ {t} : /\ ticket'[u] = ticket[u]
                                  /\ target'[u] = target[u]
                                  /\ state'[u] = state[u]
  BY <1>0 DEF HandOut, MutexTypeOK
<1>2. QueueIsOwned /\ QueueIsOwned' /\ QueuedIsOwner /\ QueuedIsOwner'
  BY QueueFacts, QueueFactsNext
<1>3. \A n \in Mutexes : /\ QueueLength(n) \in Nat
                         /\ queueOf[n] \in Seq(Threads)
                         /\ Len(queueOf[n]) = QueueLength(n)
                         /\ \A i \in 1 .. QueueLength(n) : queueOf[n][i] = OwnerAt(n, i)
  BY SequenceFacts DEF QueuesAreSequences
<1>4. Fifo!Outside(t)
  <2> SUFFICES ASSUME NEW n \in Mutexes, NEW i \in DOMAIN queueOf[n]
               PROVE  queueOf[n][i] # t
    BY DEF Fifo!Outside
  <2>1. i \in 1 .. QueueLength(n)
    BY <1>3, LenProperties
  <2>2. InQueue(queueOf[n][i], n)
    BY <2>1, <1>2, <1>3 DEF QueueIsOwned
  <2> QED
    BY <2>2 DEF InQueue
<1>5. ASSUME NEW n \in Mutexes, n # m
      PROVE  queueOf'[n] = queueOf[n]
  <2>1. next'[n] = next[n] /\ curr'[n] = curr[n]
    BY <1>0, <1>5 DEF HandOut, MutexTypeOK
  <2>2. QueueLength(n)' = QueueLength(n)
    BY <2>1 DEF QueueLength
  <2>3. ASSUME NEW u \in Threads, InQueue(u, n)
        PROVE  InQueue(u, n)' /\ Distance(n, ticket[u])' = Distance(n, ticket[u])
    BY <2>1, <2>3, <1>1 DEF InQueue, Distance
  <2> QED
    BY <2>2, <2>3, QueueUnchanged
<1>6. /\ next'[m] = Succ(next[m]) /\ curr'[m] = curr[m]
      /\ QueueLength(m)' = QueueLength(m) + 1
      /\ Distance(m, next[m]) = QueueLength(m)
  BY <1>0, TicketAssumption DEF HandOut, MutexTypeOK, QueueLength, Succ, Ticket, Distance
<1>7. queueOf'[m] = Append(queueOf[m], t)
  <2>1. ASSUME NEW i \in 1 .. QueueLength(m)
        PROVE  OwnerAt(m, i)' = OwnerAt(m, i)
    <3>1. PICK u \in Threads : u = OwnerAt(m, i)
      BY <1>2 DEF QueueIsOwned
    <3>2. InQueue(u, m) /\ Distance(m, ticket[u]) = i - 1
      BY <3>1, <1>2 DEF QueueIsOwned
    <3>3. InQueue(u, m)' /\ Distance(m, ticket[u])' = i - 1
      BY <3>2, <1>1, <1>6 DEF InQueue, Distance
    <3>4. OwnerAt(m, (Distance(m, ticket[u]) + 1))' = u
      BY <1>2, <3>3 DEF QueuedIsOwner
    <3>5. Distance(m, ticket[u])' + 1 = i
      BY <3>3
    <3> QED
      BY <3>1, <3>4, <3>5
  <2>2. ASSUME NEW i \in Nat, i = QueueLength(m) + 1
        PROVE  OwnerAt(m, i)' = t
    <3>1. InQueue(t, m)' /\ Distance(m, ticket[t])' = QueueLength(m)
      BY <1>1, <1>6 DEF InQueue, Distance
    <3>2. OwnerAt(m, (Distance(m, ticket[t]) + 1))' = t
      BY <1>2, <3>1 DEF QueuedIsOwner
    <3>3. Distance(m, ticket[t])' + 1 = i
      BY <2>2, <3>1
    <3> QED
      BY <3>2, <3>3
  <2>3. /\ queueOf'[m] \in Seq(Threads)
        /\ Len(queueOf'[m]) = QueueLength(m)'
        /\ \A i \in 1 .. QueueLength(m)' : queueOf'[m][i] = OwnerAt(m, i)'
    BY SequencesNext DEF QueuesAreSequences
  <2>4. Len(queueOf'[m]) = Len(queueOf[m]) + 1
    BY <2>3, <1>3, <1>6
  <2>5. queueOf'[m][Len(queueOf[m]) + 1] = t
    BY <2>2, <2>3, <1>3, <1>6
  <2>6. ASSUME NEW i \in 1 .. Len(queueOf[m])
        PROVE  queueOf'[m][i] = queueOf[m][i]
    <3>1. Len(queueOf[m]) = QueueLength(m) /\ QueueLength(m) \in Nat /\ queueOf[m][i] = OwnerAt(m, i)
      BY <1>3
    <3>2. i \in 1 .. QueueLength(m) /\ i \in 1 .. QueueLength(m)'
      BY <3>1, <1>6
    <3>3. queueOf'[m][i] = OwnerAt(m, i)'
      BY <3>2, <2>3
    <3> QED
      BY <3>1, <3>2, <3>3, <2>1
  <2>7. queueOf[m] \in Seq(Threads)
    BY <1>3
  <2> QED
    BY <2>3, <2>4, <2>5, <2>6, <2>7, AppendByElement
<1>8. queueOf' = [queueOf EXCEPT ![m] = Append(@, t)]
  BY <1>5, <1>7 DEF queueOf
<1>9. granted' = IF queueOf[m] = <<>> THEN granted \cup {t} ELSE granted
  <2>1. queueOf[m] = <<>> <=> next[m] = curr[m]
    <3>1. queueOf[m] = <<>> <=> QueueLength(m) = 0
      BY <1>3, EmptySeq
    <3>2. QueueLength(m) = 0 <=> next[m] = curr[m]
      BY <1>0, TicketAssumption DEF QueueLength, Ticket
    <3> QED
      BY <3>1, <3>2
  <2> QED
    BY <2>1, <1>1 DEF granted
<1> QED
  BY <1>4, <1>8, <1>9 DEF Fifo!Join

(* A step that changes neither counters nor tickets keeps every queue. *)
LEMMA QueuesKept ==
    ASSUME IInv, IInv', UNCHANGED <<next, curr, ticket, target>>,
           \A u \in Threads : (state'[u] # "idle") <=> (state[u] # "idle")
    PROVE  queueOf' = queueOf
<1>1. ASSUME NEW m \in Mutexes
      PROVE  queueOf'[m] = queueOf[m]
  <2>1. QueueLength(m)' = QueueLength(m)
    BY DEF QueueLength
  <2>2. ASSUME NEW u \in Threads, InQueue(u, m)
        PROVE  InQueue(u, m)' /\ Distance(m, ticket[u])' = Distance(m, ticket[u])
    BY <2>2 DEF InQueue, Distance
  <2> QED
    BY <2>1, <2>2, QueueUnchanged
<1> QED
  BY <1>1 DEF queueOf

(* The thread whose ticket is curr is the head of its queue. *)
LEMMA ServedIsHead ==
    ASSUME IInv, NEW t \in Threads, NEW m \in Mutexes, InQueue(t, m), ticket[t] = curr[m]
    PROVE  queueOf[m] # <<>> /\ Head(queueOf[m]) = t
<1>1. Distance(m, ticket[t]) = 0
  BY DEF IInv, MutexTypeOK, Distance, Ticket
<1>2. 1 \in 1 .. QueueLength(m) /\ OwnerAt(m, 1) = t
  BY <1>1, QueueFacts DEF QueuedIsOwner
<1>3. queueOf[m] \in Seq(Threads) /\ Len(queueOf[m]) = QueueLength(m) /\ queueOf[m][1] = t
  BY <1>2, SequenceFacts DEF QueuesAreSequences
<1>4. queueOf[m] # <<>>
  BY <1>2, <1>3, EmptySeq
<1> QED
  BY <1>3, <1>4

(* Leaving the wait loop is being served; any other wake-up is a stutter. *)
LEMMA WakeIsServe ==
    ASSUME IInv, IInv', NEW t \in Threads, SpuriousWake(t) \/ Recheck(t)
    PROVE  (\E m \in Mutexes : Fifo!Serve(t, m)) \/ UNCHANGED <<queueOf, granted>>
<1>0. MutexTypeOK /\ UNCHANGED <<next, curr, ticket, target>>
  BY DEF IInv, SpuriousWake, Recheck
<1>1. /\ state[t] \in {"asleep", "woken"}
      /\ state'[t] \in {"asleep", "woken", "holds"}
      /\ \A u \in Threads \ {t} : state'[u] = state[u]
      /\ state'[t] = "holds" => ticket[t] = curr[target[t]]
  BY <1>0 DEF SpuriousWake, Recheck, MutexTypeOK
<1>2. queueOf' = queueOf
  BY <1>0, <1>1, QueuesKept
<1>3. CASE state'[t] = "holds"
  <2> DEFINE m == target[t]
  <2>1. m \in Mutexes /\ InQueue(t, m) /\ ticket[t] = curr[m]
    BY <1>0, <1>1, <1>3 DEF MutexTypeOK, InQueue
  <2>2. queueOf[m] # <<>> /\ Head(queueOf[m]) = t
    BY <2>1, ServedIsHead
  <2>3. granted' = granted \cup {t}
    BY <1>1, <1>3 DEF granted
  <2>4. Fifo!Serve(t, m)
    BY <1>2, <2>2, <2>3 DEF Fifo!Serve
  <2> QED
    BY <2>1, <2>4
<1>4. CASE state'[t] # "holds"
  <2>1. granted' = granted
    BY <1>1, <1>4 DEF granted
  <2> QED
    BY <1>2, <2>1
<1> QED
  BY <1>3, <1>4

(* Retiring the ticket that is served is leaving the head of the queue. *)
LEMMA LeaveStep ==
    ASSUME IInv, IInv', NEW t \in Threads, NEW m \in Mutexes, Unlock(t, m)
    PROVE  Fifo!Leave(t, m)
<1>0. /\ MutexTypeOK
      /\ next[m] \in Ticket /\ curr[m] \in Ticket
      /\ UNCHANGED <<next, ticket, target>>
      /\ state[t] = "holds" /\ target[t] = m /\ ticket[t] = curr[m]
      /\ curr' = [curr EXCEPT ![m] = Succ(@)]
  BY DEF IInv, MutexTypeOK, Unlock, Holds, HolderIsServed
<1>1. /\ state'[t] = "idle"
      /\ \A u \in Threads \ {t} :
            /\ (state'[u] # "idle") <=> (state[u] # "idle")
            /\ state'[u] = "holds" <=> state[u] = "holds"
  BY DEF Unlock, Notified
<1>2. QueueIsOwned /\ QueuedIsOwner /\ QueuedIsOwner'
  BY QueueFacts, QueueFactsNext
<1>3. queueOf[m] # <<>> /\ Head(queueOf[m]) = t
  BY <1>0, ServedIsHead DEF InQueue
<1>4. /\ QueueLength(m) \in Nat
      /\ queueOf[m] \in Seq(Threads)
      /\ Len(queueOf[m]) = QueueLength(m)
      /\ \A i \in 1 .. QueueLength(m) : queueOf[m][i] = OwnerAt(m, i)
      /\ QueueLength(m)' \in Nat
      /\ queueOf'[m] \in Seq(Threads)
      /\ Len(queueOf'[m]) = QueueLength(m)'
      /\ \A i \in 1 .. QueueLength(m)' : queueOf'[m][i] = OwnerAt(m, i)'
  BY SequenceFacts, SequencesNext DEF QueuesAreSequences
<1>5. QueueLength(m) # 0
  BY <1>3, <1>4, EmptySeq
<1>6. /\ next'[m] = next[m] /\ curr'[m] = Succ(curr[m])
      /\ next[m] # curr[m]
      /\ QueueLength(m)' = QueueLength(m) - 1
  BY <1>0, <1>5, TicketAssumption DEF MutexTypeOK, QueueLength, Succ, Ticket
<1>7. ASSUME NEW k \in Ticket, k # curr[m]
      PROVE  Distance(m, k)' = Distance(m, k) - 1
  BY <1>0, <1>6, <1>7, TicketAssumption DEF Distance, Succ, Ticket
<1>8. ASSUME NEW n \in Mutexes, n # m
      PROVE  queueOf'[n] = queueOf[n]
  <2>1. next'[n] = next[n] /\ curr'[n] = curr[n]
    BY <1>0, <1>8 DEF MutexTypeOK
  <2>2. QueueLength(n)' = QueueLength(n)
    BY <2>1 DEF QueueLength
  <2>3. ASSUME NEW u \in Threads, InQueue(u, n)
        PROVE  InQueue(u, n)' /\ Distance(n, ticket[u])' = Distance(n, ticket[u])
    BY <2>1, <2>3, <1>0, <1>1, <1>8 DEF InQueue, Distance
  <2> QED
    BY <2>2, <2>3, QueueUnchanged
<1>9. queueOf'[m] = Tail(queueOf[m])
  <2>1. ASSUME NEW i \in 1 .. QueueLength(m)'
        PROVE  queueOf'[m][i] = queueOf[m][i + 1]
    <3>1. i + 1 \in 1 .. QueueLength(m) /\ i + 1 # 1
      BY <1>4, <1>6
    <3>2. PICK u \in Threads : u = OwnerAt(m, i + 1)
      BY <3>1, <1>2 DEF QueueIsOwned
    <3>3. InQueue(u, m) /\ Distance(m, ticket[u]) = (i + 1) - 1
      BY <3>1, <3>2, <1>2 DEF QueueIsOwned
    <3>4. u # t /\ ticket[u] \in Ticket /\ ticket[u] # curr[m]
      <4>1. Distance(m, curr[m]) = 0
        BY <1>0 DEF Distance, Ticket
      <4>2. ticket[u] # curr[m]
        BY <3>1, <3>3, <4>1
      <4> QED
        BY <4>2, <1>0 DEF MutexTypeOK
    <3>5. InQueue(u, m)' /\ Distance(m, ticket[u])' = i - 1
      BY <3>3, <3>4, <1>0, <1>1, <1>7 DEF InQueue
    <3>6. OwnerAt(m, (Distance(m, ticket[u]) + 1))' = u
      BY <1>2, <3>5 DEF QueuedIsOwner
    <3>7. Distance(m, ticket[u])' + 1 = i
      BY <3>5
    <3>8. OwnerAt(m, i)' = u
      BY <3>6, <3>7
    <3> QED
      BY <3>1, <3>2, <3>8, <1>4
  <2>2. Len(queueOf'[m]) = Len(queueOf[m]) - 1
    BY <1>4, <1>6
  <2>3. \A i \in 1 .. Len(queueOf'[m]) : queueOf'[m][i] = queueOf[m][i + 1]
    BY <2>1, <1>4
  <2>4. queueOf[m] \in Seq(Threads) /\ queueOf'[m] \in Seq(Threads)
    BY <1>4
  <2> QED
    BY <2>2, <2>3, <2>4, <1>3, TailByElement
<1>10. queueOf' = [queueOf EXCEPT ![m] = Tail(@)]
  BY <1>8, <1>9 DEF queueOf
<1>11. t \in granted /\ granted' = granted \ {t}
  BY <1>0, <1>1 DEF granted
<1> QED
  BY <1>3, <1>10, <1>11 DEF Fifo!Leave

(* Every step of the mutex is a step of the queue or changes nothing there. *)
LEMMA StepIsFifo ==
    IInv /\ IInv' /\ [MutexNext]_mutexVars => [Fifo!FifoNext]_<<queueOf, granted>>
<1> SUFFICES ASSUME IInv, IInv', [MutexNext]_mutexVars
             PROVE  Fifo!FifoNext \/ UNCHANGED <<queueOf, granted>>
  OBVIOUS
<1>1. CASE UNCHANGED mutexVars
  <2>1. UNCHANGED <<next, curr, ticket, target, state>>
    BY <1>1 DEF mutexVars
  <2>2. queueOf' = queueOf
    BY <2>1, QueuesKept
  <2> QED
    BY <2>1, <2>2 DEF granted
<1>2. ASSUME NEW t \in Threads, NEW m \in Mutexes, TryLockTrue(t, m)
      PROVE  Fifo!Join(t, m)
  BY <1>2, JoinStep DEF TryLockTrue
<1>3. ASSUME NEW t \in Threads, NEW m \in Mutexes, LockEnter(t, m)
      PROVE  Fifo!Join(t, m)
  <2>1. CASE next[m] = curr[m]
    BY <1>3, <2>1, JoinStep DEF LockEnter
  <2>2. CASE next[m] # curr[m]
    BY <1>3, <2>2, JoinStep DEF LockEnter
  <2> QED
    BY <2>1, <2>2
<1>4. ASSUME NEW t \in Threads, NEW m \in Mutexes, Unlock(t, m)
      PROVE  Fifo!Leave(t, m)
  BY <1>4, LeaveStep
<1>5. ASSUME NEW t \in Threads, SpuriousWake(t) \/ Recheck(t)
      PROVE  (\E m \in Mutexes : Fifo!Serve(t, m)) \/ UNCHANGED <<queueOf, granted>>
  BY <1>5, WakeIsServe
<1> QED
  BY <1>1, <1>2, <1>3, <1>4, <1>5 DEF MutexNext, ThreadStep, TryLockFalse, Fifo!FifoNext

(***************************************************************************)
(* The ticket mutex is a first-come first-served queue per client: calls   *)
(* are served one at a time in the order in which they took their tickets, *)
(* for any number of threads and however often the counters wrap.          *)
(***************************************************************************)
THEOREM TicketMutexIsFifo == MutexSpec => ImplementsFifoLock
<1>1. IInv /\ IInv' /\ [MutexNext]_mutexVars => [Fifo!FifoNext]_Fifo!fifoVars
  BY StepIsFifo DEF Fifo!fifoVars
<1> QED
  BY <1>1, FifoInitially, Invariance, PTL DEF MutexSpec, ImplementsFifoLock, Fifo!FifoSpec
-----------------------------------------------------------------------------
(* The server. *)

(* What gRPC or a catch clause answers is always a status. *)
LEMMA AnswerType ==
    ASSUME NEW kind \in AllKinds, NEW e \in Exceptions
    PROVE  /\ Answer(ConstructCatches(kind), e) \in Statuses \ {"CANCELLED"}
           /\ Answer(WorkCatches(kind), e) \in Statuses
           /\ e # "Cancellation" => Answer(WorkCatches(kind), e) # "CANCELLED"
<1> USE DEF Answer, Escaped, Statuses, NoClauses, DatabaseClauses
<1>1. Answer(ConstructCatches(kind), e) \in Statuses \ {"CANCELLED"}
  BY DEF ConstructCatches
<1>2. CASE kind = "tests"
  BY <1>1, <1>2 DEF WorkCatches, TestsClauses
<1>3. CASE kind = "coverage"
  BY <1>1, <1>3 DEF WorkCatches, CoverageClauses
<1>4. CASE kind \in {"stubs", "targets"}
  BY <1>1, <1>4 DEF WorkCatches
<1>5. CASE kind \in AllKinds \ {"tests", "coverage", "stubs", "targets"}
  BY <1>1, <1>5 DEF WorkCatches
<1> QED
  BY <1>2, <1>3, <1>4, <1>5

(* No step leaves the types. *)
LEMMA TypeStep ==
    ASSUME RequestTypeOK, [RequestNext]_serverVars
    PROVE  RequestTypeOK'
<1>1. ASSUME NEW t \in Threads, NEW r \in Requests, Receive(t, r)
      PROVE  RequestTypeOK'
  BY <1>1
  DEF RequestTypeOK, Receive, GoTo, Phases
<1>2. ASSUME NEW t \in Threads, Cancel(t)
      PROVE  RequestTypeOK'
  BY <1>2
  DEF RequestTypeOK, Cancel, GoTo, Phases
<1>3. ASSUME NEW t \in Threads, Wake(t)
      PROVE  RequestTypeOK'
  BY <1>3
  DEF RequestTypeOK, Wake, GoTo, Phases, SpuriousWake, requestVars
<1>4. ASSUME NEW t \in Threads, SetThreadOptions(t)
      PROVE  RequestTypeOK'
  BY <1>4, RequestAssumption
  DEF RequestTypeOK, Requests, Contexts, SetThreadOptions, GoTo, Phases, Identity, AfterOptions
<1>5. ASSUME NEW t \in Threads, RejectUnnamed(t)
      PROVE  RequestTypeOK'
  BY <1>5
  DEF RequestTypeOK, Escaped, Statuses, RejectUnnamed, GoTo, Phases
<1>6. ASSUME NEW t \in Threads, StartHello(t)
      PROVE  RequestTypeOK'
  BY <1>6
  DEF RequestTypeOK, StartHello, GoTo, Phases
<1>7. ASSUME NEW t \in Threads, FindLock(t)
      PROVE  RequestTypeOK'
  BY <1>7
  DEF RequestTypeOK, FindLock, GoTo, Phases
<1>8. ASSUME NEW t \in Threads, MissLock(t)
      PROVE  RequestTypeOK'
  BY <1>8
  DEF RequestTypeOK, MissLock, GoTo, Phases
<1>9. ASSUME NEW t \in Threads, InsertLock(t)
      PROVE  RequestTypeOK'
  BY <1>9
  DEF RequestTypeOK, InsertLock, GoTo, Phases, Unused
<1>10. ASSUME NEW t \in Threads, TryAcquire(t)
      PROVE  RequestTypeOK'
  BY <1>10
  DEF RequestTypeOK, TryAcquire, GoTo, Phases, TryLockTrue, HandOut
<1>11. ASSUME NEW t \in Threads, FindBusy(t)
      PROVE  RequestTypeOK'
  BY <1>11
  DEF RequestTypeOK, FindBusy, GoTo, Phases, TryLockFalse, mutexVars
<1>12. ASSUME NEW t \in Threads, AnnounceWait(t)
      PROVE  RequestTypeOK'
  BY <1>12
  DEF RequestTypeOK, AnnounceWait, GoTo, Phases
<1>13. ASSUME NEW t \in Threads, BlockOnLock(t)
      PROVE  RequestTypeOK'
  BY <1>13
  DEF RequestTypeOK, BlockOnLock, GoTo, Phases, LockEnter, HandOut
<1>14. ASSUME NEW t \in Threads, Check(t)
      PROVE  RequestTypeOK'
  BY <1>14
  DEF RequestTypeOK, Check, GoTo, Phases, Recheck, requestVars
<1>15. ASSUME NEW t \in Threads, Construct(t)
      PROVE  RequestTypeOK'
  BY <1>15
  DEF RequestTypeOK, Construct, GoTo, Phases
<1>16. ASSUME NEW t \in Threads, NEW e \in Exceptions, ConstructFails(t, e)
      PROVE  RequestTypeOK'
  BY <1>16, AnswerType
  DEF RequestTypeOK, Requests, ConstructFails, GoTo, Phases
<1>17. ASSUME NEW t \in Threads, WorkDone(t)
      PROVE  RequestTypeOK'
  BY <1>17
  DEF RequestTypeOK, Statuses, WorkDone, GoTo, Phases, AfterWork, Returned
<1>18. ASSUME NEW t \in Threads, NEW e \in Exceptions, WorkFails(t, e)
      PROVE  RequestTypeOK'
  BY <1>18, AnswerType
  DEF RequestTypeOK, Requests, WorkFails, GoTo, Phases, AfterWork
<1>19. ASSUME NEW t \in Threads, Release(t)
      PROVE  RequestTypeOK'
  BY <1>19
  DEF RequestTypeOK, Release, GoTo, Phases, Unlock, Holds
<1>20. ASSUME NEW t \in Threads, Reply(t)
      PROVE  RequestTypeOK'
  BY <1>20, RequestAssumption
  DEF RequestTypeOK, Requests, Contexts, NoRequest, AllKinds, Locking, Streaming, Statuses,
      Reply, GoTo, Phases
<1>21. CASE UNCHANGED serverVars
  BY <1>21 DEF RequestTypeOK, serverVars, requestVars, mutexVars
<1> QED
  BY <1>1, <1>2, <1>3, <1>4, <1>5, <1>6, <1>7, <1>8, <1>9, <1>10, <1>11, <1>12, <1>13,
     <1>14, <1>15, <1>16, <1>17, <1>18, <1>19, <1>20, <1>21
  DEF RequestNext, HandlerStep

(* The phases in which t works with the lock it has looked up. *)
UsesLock(t) == \/ phase[t] \in {"try", "announce", "block", "construct", "unwind"}
               \/ phase[t] = "work" /\ req[t].kind \in Locking

(* The phases in which t serves a request and has identified its client. *)
Identified(t) == phase[t] \in {"lookup", "insert"} \/ UsesLock(t)

(* Only the handlers that call getLock() reach these phases. *)
OnlyLockingKinds == \A t \in Threads :
    phase[t] \in {"lookup", "insert", "try", "announce", "block", "construct", "unwind"}
        => req[t].kind \in Locking

(* Only such a handler is in the queue of a mutex: that of its lockRef. *)
QueueIsHandler == \A t \in Threads : state[t] # "idle" =>
    /\ phase[t] \in {"construct", "work", "unwind"}
    /\ req[t].kind \in Locking
    /\ target[t] = lockRef[t]

(* The lock a handler works with is one stored for its client. *)
LockIsClients == \A t \in Threads : UsesLock(t) => lockRef[t] \in table[env[t].client]

(* A thread that is about to insert is alone and finds no entry. *)
OneInserter == ~ Overlap => \A t \in Threads : phase[t] = "insert" =>
    /\ table[env[t].client] = {}
    /\ \A u \in Threads : phase[u] = "insert" => t = u

(* While insertions do not overlap, a client never has two locks. *)
OneLockPerClient == ~ Overlap => \A c \in Clients : \A m, n \in table[c] : m = n

(* A streaming request has announced its wait before it sleeps. *)
WaiterAnnounced == \A t \in Threads :
    req[t].kind \in Streaming /\ (phase[t] = "block" \/ state[t] \in {"asleep", "woken"})
        => announced[t]

(* From its identification on a handler reads its own environment. *)
KeepsEnvironment == \A t \in Threads : Identified(t) =>
    /\ env[t].client = Identity(req[t])
    /\ env[t].ctx = IF req[t].named THEN "current" ELSE "none"

(* The status is decided when the work is over, not before. *)
PendingStatus == \A t \in Threads : phase[t] \notin {"unwind", "reply"} => status[t] = "pending"

(* The inductive invariant, relative to the types of both modules. *)
RInv ==
    /\ OnlyLockingKinds
    /\ QueueIsHandler
    /\ LockIsClients
    /\ OneInserter
    /\ OneLockPerClient
    /\ WaiterAnnounced
    /\ KeepsEnvironment
    /\ PendingStatus
    /\ CancelledOnlyOnRequest

(* A failure is answered CANCELLED only where the client has cancelled. *)
LEMMA FailureKeepsCancelled ==
    ASSUME RequestTypeOK, KeepsEnvironment, CancelledOnlyOnRequest,
           NEW t \in Threads, NEW e \in Exceptions, WorkFails(t, e)
    PROVE  CancelledOnlyOnRequest'
<1> SUFFICES ASSUME NEW u \in Threads,
                    status'[u] = "CANCELLED", req'[u].kind \in {"tests", "coverage"}
             PROVE  cancelled'[u]
  BY DEF CancelledOnlyOnRequest
<1>1. req' = req /\ cancelled' = cancelled
  BY DEF WorkFails
<1>2. CASE u # t
  <2>1. status'[u] = status[u]
    BY <1>2 DEF WorkFails, RequestTypeOK
  <2>2. cancelled[u]
    BY <1>1, <2>1 DEF CancelledOnlyOnRequest
  <2> QED
    BY <1>1, <2>2
<1>3. CASE u = t
  <2>1. status'[t] = Answer(WorkCatches(req[t].kind), e)
    BY DEF WorkFails, RequestTypeOK
  <2>2. req[t].kind \in AllKinds
    BY DEF RequestTypeOK, Requests
  <2>3. e = "Cancellation"
    BY <1>3, <2>1, <2>2, AnswerType
  <2>4. TRUE \in SeesCancellation(t)
    BY <2>3, Zenon DEF WorkFails
  <2>5. phase[t] = "work" /\ req[t].kind \in Locking
    BY <1>1, <1>3 DEF WorkFails, Locking, Streaming
  <2>6. env[t].ctx # "ended"
    BY <2>5 DEF KeepsEnvironment, Identified, UsesLock
  <2>7. cancelled[t] \in BOOLEAN
    BY DEF RequestTypeOK
  <2>8. cancelled[t]
    BY <2>4, <2>6, <2>7, Zenon DEF SeesCancellation
  <2> QED
    BY <1>1, <1>3, <2>8, Zenon
<1> QED
  BY <1>2, <1>3

(* Every step of the server preserves the invariant. *)
LEMMA InvStep ==
    ASSUME RequestTypeOK, MutexTypeOK, RInv, RequestTypeOK', MutexTypeOK',
           [RequestNext]_serverVars
    PROVE  RInv'
<1> USE DEF RInv, OnlyLockingKinds, QueueIsHandler, LockIsClients, OneInserter,
            OneLockPerClient, WaiterAnnounced, KeepsEnvironment, PendingStatus,
            CancelledOnlyOnRequest, UsesLock, Identified, RequestTypeOK, MutexTypeOK,
            Requests, Locking, Streaming, GoTo, mutexVars, requestVars
<1>1. ASSUME NEW t \in Threads, NEW r \in Requests, Receive(t, r)
      PROVE  RInv'
  <2>1. OnlyLockingKinds'
    BY <1>1 DEF Receive
  <2>2. QueueIsHandler'
    BY <1>1 DEF Receive
  <2>3. LockIsClients'
    BY <1>1 DEF Receive
  <2>4. OneInserter'
    BY <1>1 DEF Receive
  <2>5. OneLockPerClient'
    BY <1>1 DEF Receive
  <2>6. WaiterAnnounced'
    BY <1>1 DEF Receive
  <2>7. KeepsEnvironment'
    BY <1>1 DEF Receive
  <2>8. PendingStatus'
    BY <1>1 DEF Receive
  <2>9. CancelledOnlyOnRequest'
    <3> SUFFICES ASSUME NEW u \in Threads,
                        status'[u] = "CANCELLED", req'[u].kind \in {"tests", "coverage"}
                 PROVE  cancelled'[u]
      OBVIOUS
    <3>1. u # t
      BY <1>1 DEF Receive
    <3>2. status[u] = "CANCELLED" /\ req[u].kind \in {"tests", "coverage"}
      BY <1>1, <3>1 DEF Receive
    <3>3. cancelled' = cancelled
      BY <1>1 DEF Receive
    <3> QED
      BY <3>2, <3>3
  <2> QED
    BY <2>1, <2>2, <2>3, <2>4, <2>5, <2>6, <2>7, <2>8, <2>9 DEF RInv
<1>2. ASSUME NEW t \in Threads, Cancel(t)
      PROVE  RInv'
  BY <1>2 DEF Cancel
<1>3. ASSUME NEW t \in Threads, Wake(t)
      PROVE  RInv'
  BY <1>3 DEF Wake, SpuriousWake
<1>4. ASSUME NEW t \in Threads, SetThreadOptions(t)
      PROVE  RInv'
  BY <1>4 DEF SetThreadOptions, Identity, AfterOptions
<1>5. ASSUME NEW t \in Threads, RejectUnnamed(t)
      PROVE  RInv'
  BY <1>5 DEF RejectUnnamed, Escaped
<1>6. ASSUME NEW t \in Threads, StartHello(t)
      PROVE  RInv'
  BY <1>6 DEF StartHello
<1>7. ASSUME NEW t \in Threads, FindLock(t)
      PROVE  RInv'
  BY <1>7 DEF FindLock
<1>8. ASSUME NEW t \in Threads, MissLock(t)
      PROVE  RInv'
  BY <1>8 DEF MissLock
<1>9. ASSUME NEW t \in Threads, InsertLock(t)
      PROVE  RInv'
  <2>1. OnlyLockingKinds'
    BY <1>9 DEF InsertLock, Unused
  <2>2. QueueIsHandler'
    BY <1>9 DEF InsertLock, Unused
  <2>3. LockIsClients'
    BY <1>9 DEF InsertLock, Unused
  <2>4. OneInserter'
    BY <1>9 DEF InsertLock, Unused
  <2>5. OneLockPerClient'
    <3>1. PICK m \in Mutexes : table' = [table EXCEPT ![env[t].client] = @ \cup {m}]
      BY <1>9 DEF InsertLock, Unused
    <3>2. ~ Overlap => table[env[t].client] = {}
      BY <1>9 DEF InsertLock
    <3>3. env[t].client \in Clients
      OBVIOUS
    <3> QED
      BY <3>1, <3>2, <3>3
  <2>6. WaiterAnnounced'
    BY <1>9 DEF InsertLock, Unused
  <2>7. KeepsEnvironment'
    BY <1>9 DEF InsertLock, Unused
  <2>8. PendingStatus'
    BY <1>9 DEF InsertLock, Unused
  <2>9. CancelledOnlyOnRequest'
    BY <1>9 DEF InsertLock, Unused
  <2> QED
    BY <2>1, <2>2, <2>3, <2>4, <2>5, <2>6, <2>7, <2>8, <2>9 DEF RInv
<1>10. ASSUME NEW t \in Threads, TryAcquire(t)
      PROVE  RInv'
  BY <1>10 DEF TryAcquire, TryLockTrue, HandOut
<1>11. ASSUME NEW t \in Threads, FindBusy(t)
      PROVE  RInv'
  BY <1>11 DEF FindBusy, TryLockFalse
<1>12. ASSUME NEW t \in Threads, AnnounceWait(t)
      PROVE  RInv'
  BY <1>12 DEF AnnounceWait
<1>13. ASSUME NEW t \in Threads, BlockOnLock(t)
      PROVE  RInv'
  BY <1>13 DEF BlockOnLock, LockEnter, HandOut
<1>14. ASSUME NEW t \in Threads, Check(t)
      PROVE  RInv'
  BY <1>14 DEF Check, Recheck
<1>15. ASSUME NEW t \in Threads, Construct(t)
      PROVE  RInv'
  BY <1>15 DEF Construct
<1>16. ASSUME NEW t \in Threads, NEW e \in Exceptions, ConstructFails(t, e)
      PROVE  RInv'
  BY <1>16, AnswerType DEF ConstructFails
<1>17. ASSUME NEW t \in Threads, WorkDone(t)
      PROVE  RInv'
  BY <1>17 DEF WorkDone, AfterWork, Returned
<1>18. ASSUME NEW t \in Threads, NEW e \in Exceptions, WorkFails(t, e)
      PROVE  RInv'
  <2>1. OnlyLockingKinds'
    BY <1>18, AnswerType DEF WorkFails, AfterWork
  <2>2. QueueIsHandler'
    BY <1>18, AnswerType DEF WorkFails, AfterWork
  <2>3. LockIsClients'
    BY <1>18, AnswerType DEF WorkFails, AfterWork
  <2>4. OneInserter'
    BY <1>18, AnswerType DEF WorkFails, AfterWork
  <2>5. OneLockPerClient'
    BY <1>18, AnswerType DEF WorkFails, AfterWork
  <2>6. WaiterAnnounced'
    BY <1>18, AnswerType DEF WorkFails, AfterWork
  <2>7. KeepsEnvironment'
    BY <1>18, AnswerType DEF WorkFails, AfterWork
  <2>8. PendingStatus'
    BY <1>18, AnswerType DEF WorkFails, AfterWork
  <2>9. CancelledOnlyOnRequest'
    BY <1>18, FailureKeepsCancelled
  <2> QED
    BY <2>1, <2>2, <2>3, <2>4, <2>5, <2>6, <2>7, <2>8, <2>9 DEF RInv
<1>19. ASSUME NEW t \in Threads, Release(t)
      PROVE  RInv'
  BY <1>19 DEF Release, Unlock, Holds, Notified, States
<1>20. ASSUME NEW t \in Threads, Reply(t)
      PROVE  RInv'
  BY <1>20 DEF Reply
<1>21. CASE UNCHANGED serverVars
  BY <1>21 DEF serverVars
<1> QED
  BY <1>1, <1>2, <1>3, <1>4, <1>5, <1>6, <1>7, <1>8, <1>9, <1>10, <1>11, <1>12, <1>13,
     <1>14, <1>15, <1>16, <1>17, <1>18, <1>19, <1>20, <1>21
  DEF RequestNext, HandlerStep

LEMMA InitRequest == RequestInit => RequestTypeOK /\ RInv
<1> SUFFICES ASSUME RequestInit
             PROVE  RequestTypeOK /\ RInv
  OBVIOUS
<1>1. RequestTypeOK
  BY RequestAssumption
  DEF RequestInit, RequestTypeOK, MutexInit, NoRequest, Requests, AllKinds, Locking, Streaming,
      Contexts, Phases
<1>2. /\ OnlyLockingKinds
      /\ QueueIsHandler
      /\ LockIsClients
      /\ KeepsEnvironment
      /\ OneInserter
  BY DEF RequestInit, MutexInit, OnlyLockingKinds, QueueIsHandler, LockIsClients,
         KeepsEnvironment, OneInserter, Identified, UsesLock
<1>3. /\ OneLockPerClient
      /\ WaiterAnnounced
      /\ PendingStatus
      /\ CancelledOnlyOnRequest
  BY DEF RequestInit, MutexInit, OneLockPerClient, WaiterAnnounced, PendingStatus,
         CancelledOnlyOnRequest, NoRequest, Streaming
<1> QED
  BY <1>1, <1>2, <1>3 DEF RInv

(* Every step of the server is a step of the mutexes or leaves them alone. *)
LEMMA MutexStep ==
    ASSUME RequestTypeOK, [RequestNext]_serverVars
    PROVE  [MutexNext]_mutexVars
<1>0. SUFFICES ASSUME ~ UNCHANGED mutexVars
               PROVE  MutexNext
  OBVIOUS
<1>1. ASSUME NEW t \in Threads,
             \/ \E r \in Requests : Receive(t, r)
             \/ Cancel(t) \/ SetThreadOptions(t) \/ RejectUnnamed(t) \/ StartHello(t)
             \/ FindLock(t) \/ MissLock(t) \/ InsertLock(t) \/ FindBusy(t) \/ AnnounceWait(t)
             \/ Construct(t) \/ WorkDone(t) \/ Reply(t)
             \/ \E e \in Exceptions : ConstructFails(t, e) \/ WorkFails(t, e)
      PROVE  FALSE
  BY <1>0, <1>1
  DEF Receive, Cancel, SetThreadOptions, RejectUnnamed, StartHello, FindLock, MissLock,
      InsertLock, FindBusy, TryLockFalse, AnnounceWait, Construct, WorkDone, Reply,
      ConstructFails, WorkFails
<1>2. ASSUME NEW t \in Threads, TryAcquire(t) \/ BlockOnLock(t) \/ Release(t)
      PROVE  MutexNext
  <2>1. lockRef[t] \in Mutexes
    BY DEF RequestTypeOK
  <2> QED
    BY <1>2, <2>1 DEF TryAcquire, BlockOnLock, Release, MutexNext, ThreadStep
<1>3. ASSUME NEW t \in Threads, Wake(t) \/ Check(t)
      PROVE  MutexNext
  BY <1>3 DEF Wake, Check, MutexNext, ThreadStep
<1>4. CASE UNCHANGED serverVars
  BY <1>0, <1>4 DEF serverVars, mutexVars
<1> QED
  BY <1>1, <1>2, <1>3, <1>4 DEF RequestNext, HandlerStep
-----------------------------------------------------------------------------
(***************************************************************************)
(* Type correctness of the server: what every handler leaves in the        *)
(* thread_local variables, the table of locks and the status.              *)
(***************************************************************************)
THEOREM RequestTypeCorrect == RequestSpec => []RequestTypeOK
  BY InitRequest, TypeStep, PTL DEF RequestSpec

(***************************************************************************)
(* The handlers use the mutexes only as FairMutex allows: never unlock     *)
(* another's, never lock twice.                                            *)
(***************************************************************************)
THEOREM ServerUsesFairMutex == RequestSpec => UsesFairMutex
<1>1. RequestInit => MutexInit
  BY DEF RequestInit
<1> QED
  BY <1>1, RequestTypeCorrect, MutexStep, PTL DEF RequestSpec, UsesFairMutex

(***************************************************************************)
(* The requests of a client reach its lock in some order and are served in *)
(* that order, one at a time, whatever the other clients do.               *)
(***************************************************************************)
THEOREM RequestsAreFifo == RequestSpec => ImplementsFifoLock
<1>1. RequestSpec => MutexSpec
  BY ServerUsesFairMutex DEF UsesFairMutex, MutexSpec
<1> QED
  BY <1>1, TicketMutexIsFifo, PTL

(* What is shown of the mutexes holds in the server. *)
LEMMA ServerMutex == RequestSpec => [](MutexTypeOK /\ MutualExclusion)
<1>1. RequestSpec => MutexSpec
  BY ServerUsesFairMutex DEF UsesFairMutex, MutexSpec
<1> QED
  BY <1>1, TypeCorrect, MutualExclusionHolds, PTL

LEMMA RequestInvariance == RequestSpec => []RInv
<1>1. RequestInit => RInv
  BY InitRequest
<1> QED
  BY <1>1, RequestTypeCorrect, ServerMutex, InvStep, PTL DEF RequestSpec

(***************************************************************************)
(* While no two insertions into `locks` overlap, the requests of a client  *)
(* run one after the other, however many clients and threads there are.    *)
(***************************************************************************)
THEOREM OneTaskPerClientHolds ==
    ASSUME ~ Overlap
    PROVE  RequestSpec => []OneTaskPerClient
<1>1. ASSUME RInv, MutualExclusion, RequestTypeOK, MutexTypeOK
      PROVE  OneTaskPerClient
  <2> SUFFICES ASSUME NEW t \in Threads, NEW u \in Threads,
                      Running(t), Running(u), env[t].client = env[u].client
               PROVE  t = u
    BY DEF OneTaskPerClient
  <2>1. ASSUME NEW v \in Threads, Running(v)
        PROVE  /\ state[v] = "holds"
               /\ target[v] = lockRef[v]
               /\ lockRef[v] \in table[env[v].client]
    <3>1. state[v] = "holds" /\ target[v] = lockRef[v] /\ UsesLock(v)
      BY <1>1, <2>1 DEF RInv, QueueIsHandler, Running, UsesLock
    <3> QED
      BY <1>1, <3>1 DEF RInv, LockIsClients
  <2>2. env[t].client \in Clients /\ target[t] \in Mutexes
    BY <1>1 DEF RequestTypeOK, MutexTypeOK
  <2>3. target[t] = target[u]
    BY <1>1, <2>1, <2>2 DEF RInv, OneLockPerClient
  <2> QED
    BY <1>1, <2>1, <2>2, <2>3 DEF MutualExclusion, Holds
<1> QED
  BY <1>1, RequestTypeCorrect, ServerMutex, RequestInvariance, PTL

(***************************************************************************)
(* No path through a handler leaves a lock or a place in a queue behind.   *)
(***************************************************************************)
THEOREM NoLockLeakHolds == RequestSpec => []NoLockLeak
<1>1. RInv => NoLockLeak
  BY DEF RInv, QueueIsHandler, NoLockLeak
<1> QED
  BY <1>1, RequestInvariance, PTL

(***************************************************************************)
(* A client with a progress stream is told before its request sleeps.      *)
(***************************************************************************)
THEOREM WaitIsAnnouncedHolds == RequestSpec => []WaitIsAnnounced
<1>1. RInv => WaitIsAnnounced
  BY DEF RInv, WaiterAnnounced, WaitIsAnnounced
<1> QED
  BY <1>1, RequestInvariance, PTL

(***************************************************************************)
(* A running request reads its own identity and its own cancellation.      *)
(***************************************************************************)
THEOREM OwnEnvironmentHolds == RequestSpec => []OwnEnvironment
<1>1. RInv => OwnEnvironment
  BY DEF RInv, QueueIsHandler, KeepsEnvironment, Identified, UsesLock, OwnEnvironment, Running
<1> QED
  BY <1>1, RequestInvariance, PTL

(***************************************************************************)
(* Only a client that cancelled is answered CANCELLED by the generation    *)
(* and coverage handlers.                                                  *)
(***************************************************************************)
THEOREM CancelledOnlyOnRequestHolds == RequestSpec => []CancelledOnlyOnRequest
<1>1. RInv => CancelledOnlyOnRequest
  BY DEF RInv
<1> QED
  BY <1>1, RequestInvariance, PTL
=============================================================================
