------------------------------ MODULE FairMutex ------------------------------
(***************************************************************************)
(* The ticket mutex of server/src/utils/FairMutex.{h,cpp}.  The server     *)
(* keeps one of them per client (RequestLockMutex, Server.h), so the       *)
(* module describes a family of mutexes indexed by Mutexes.                *)
(*                                                                         *)
(* Each method runs under the inner std::mutex and is one atomic action;   *)
(* cv.wait() releases the inner mutex, so the wait loop of lock() splits   *)
(* into taking a ticket and re-testing the predicate after a wake-up.      *)
(***************************************************************************)
EXTENDS Integers, FiniteSets

CONSTANTS Threads,     \* the threads that call the mutexes
          Mutexes,     \* one FairMutex per client id
          TicketMod    \* number of values of a std::size_t ticket (2^64)

(***************************************************************************)
(* A std::size_t can number more requests than the process has threads.    *)
(***************************************************************************)
ASSUME TicketAssumption ==
    /\ IsFiniteSet(Threads)
    /\ TicketMod \in Nat
    /\ TicketMod > Cardinality(Threads)

VARIABLES next,      \* [m] FairMutex::next, the next ticket to hand out
          curr,      \* [m] FairMutex::curr, the ticket being served
          state,     \* [t] where thread t is in the methods of its mutex
          ticket,    \* [t] local variable request of lock()
          target     \* [t] the mutex t last called

mutexVars == <<next, curr, state, ticket, target>>

Ticket == 0 .. TicketMod - 1

(***************************************************************************)
(* idle    outside; asleep  in cv.wait(); woken  notified, about to test   *)
(* request != curr again; holds  lock() or try_lock() has returned.        *)
(***************************************************************************)
States == {"idle", "asleep", "woken", "holds"}

(* Mutant of Succ: a counter that is not reduced to the width of size_t. *)
SuccUnbounded(k) == k + 1

(* The increment of an unsigned counter: it wraps at TicketMod. *)
Succ(k) == IF k + 1 = TicketMod THEN 0 ELSE k + 1

MutexTypeOK ==
    /\ next   \in [Mutexes -> Ticket]
    /\ curr   \in [Mutexes -> Ticket]
    /\ state  \in [Threads -> States]
    /\ ticket \in [Threads -> Ticket]
    /\ target \in [Threads -> Mutexes]

MutexInit ==
    /\ next   = [m \in Mutexes |-> 0]
    /\ curr   = [m \in Mutexes |-> 0]
    /\ state  = [t \in Threads |-> "idle"]
    /\ ticket = [t \in Threads |-> 0]
    /\ target \in [Threads -> Mutexes]
-----------------------------------------------------------------------------
(* t is between a ticket it was handed on m and the unlock that retires it. *)
InQueue(t, m) == state[t] # "idle" /\ target[t] = m

Holds(t, m) == state[t] = "holds" /\ target[t] = m

(* const std::size_t request = next++ *)
HandOut(t, m) ==
    /\ next'   = [next EXCEPT ![m] = Succ(@)]
    /\ ticket' = [ticket EXCEPT ![t] = next[m]]
    /\ target' = [target EXCEPT ![t] = m]

(* Mutant of TryLockTrue: succeeds whether or not the mutex is free. *)
TryLockBarging(t, m) ==
    /\ state[t] = "idle"
    /\ HandOut(t, m)
    /\ state' = [state EXCEPT ![t] = "holds"]
    /\ UNCHANGED curr

(* try_lock() returning true: nobody holds the mutex or waits for it. *)
TryLockTrue(t, m) ==
    /\ state[t] = "idle"
    /\ next[m] = curr[m]
    /\ HandOut(t, m)
    /\ state' = [state EXCEPT ![t] = "holds"]
    /\ UNCHANGED curr

(* Mutant of TryLockFalse: increments next before it looks at curr. *)
TryLockTakesTicket(t, m) ==
    /\ state[t] = "idle"
    /\ next[m] # curr[m]
    /\ HandOut(t, m)
    /\ UNCHANGED <<curr, state>>

(* try_lock() returning false: nothing changes. *)
TryLockFalse(t, m) ==
    /\ state[t] = "idle"
    /\ next[m] # curr[m]
    /\ UNCHANGED mutexVars

(* lock() up to its first test of the predicate. *)
LockEnter(t, m) ==
    /\ state[t] = "idle"
    /\ HandOut(t, m)
    /\ state' = [state EXCEPT ![t] = IF next[m] = curr[m] THEN "holds" ELSE "asleep"]
    /\ UNCHANGED curr

(* cv.wait() may also return without a notification. *)
SpuriousWake(t) ==
    /\ state[t] = "asleep"
    /\ state' = [state EXCEPT ![t] = "woken"]
    /\ UNCHANGED <<next, curr, ticket, target>>

(* Mutant of Recheck: `if (request != curr)` instead of `while`. *)
RecheckOnce(t) ==
    /\ state[t] = "woken"
    /\ state' = [state EXCEPT ![t] = "holds"]
    /\ UNCHANGED <<next, curr, ticket, target>>

(* while (request != curr) after a wake-up: leave the loop or wait again. *)
Recheck(t) ==
    /\ state[t] = "woken"
    /\ state' = [state EXCEPT ![t] =
                    IF ticket[t] = curr[target[t]] THEN "holds" ELSE "asleep"]
    /\ UNCHANGED <<next, curr, ticket, target>>

(* Mutant of Notified: notify_one(). *)
NotifiedOne(m) ==
    LET sleepers == {u \in Threads : state[u] = "asleep" /\ target[u] = m}
    IN IF sleepers = {} THEN {} ELSE {CHOOSE u \in sleepers : TRUE}

(* notify_all() *)
Notified(m) == {u \in Threads : state[u] = "asleep" /\ target[u] = m}

(* unlock(), called by the std::unique_lock that owns the mutex. *)
Unlock(t, m) ==
    /\ Holds(t, m)
    /\ curr' = [curr EXCEPT ![m] = Succ(@)]
    /\ state' = [u \in Threads |-> IF u = t THEN "idle"
                                   ELSE IF u \in Notified(m) THEN "woken"
                                   ELSE state[u]]
    /\ UNCHANGED <<next, ticket, target>>

ThreadStep(t) ==
    \/ \E m \in Mutexes : TryLockTrue(t, m) \/ TryLockFalse(t, m)
    \/ \E m \in Mutexes : LockEnter(t, m)
    \/ \E m \in Mutexes : Unlock(t, m)
    \/ SpuriousWake(t)
    \/ Recheck(t)

MutexNext == \E t \in Threads : ThreadStep(t)

MutexSpec == MutexInit /\ [][MutexNext]_mutexVars

(***************************************************************************)
(* A runnable thread is scheduled, and a critical section ends.  Nothing   *)
(* makes a thread call lock(), and spurious wake-ups may never happen.     *)
(***************************************************************************)
MutexFairness ==
    \A t \in Threads : /\ WF_mutexVars(Recheck(t))
                       /\ WF_mutexVars(\E m \in Mutexes : Unlock(t, m))

FairMutexSpec == MutexSpec /\ MutexFairness
-----------------------------------------------------------------------------
(* Tickets handed out on m and not yet retired: the cyclic range curr..next. *)
Pending(m, k) ==
    IF curr[m] <= next[m] THEN curr[m] <= k /\ k < next[m]
                          ELSE curr[m] <= k \/ k < next[m]

(* How many tickets are served before ticket k of mutex m. *)
Distance(m, k) == IF curr[m] <= k THEN k - curr[m] ELSE k + TicketMod - curr[m]

(***************************************************************************)
(* At most one thread is between lock()/try_lock() and unlock() of one     *)
(* mutex: two requests of one client never run at the same time.           *)
(***************************************************************************)
MutualExclusion ==
    \A m \in Mutexes : \A t, u \in Threads :
        Holds(t, m) /\ Holds(u, m) => t = u

(***************************************************************************)
(* Every ticket that will be served belongs to a thread that will retire   *)
(* it.  A ticket without an owner would stop the mutex for ever.           *)
(***************************************************************************)
NoOrphanTicket ==
    \A m \in Mutexes : \A k \in Ticket :
        Pending(m, k) => \E t \in Threads : InQueue(t, m) /\ ticket[t] = k

(***************************************************************************)
(* No lost wake-up: the thread whose turn it is never sleeps in cv.wait(). *)
(***************************************************************************)
NoLostWakeup ==
    \A t \in Threads : state[t] = "asleep" => ticket[t] # curr[target[t]]

(***************************************************************************)
(* lock() always returns, whatever the other threads do, provided every    *)
(* holder eventually unlocks ("fair": no starvation by try_lock barging).  *)
(***************************************************************************)
LockReturns ==
    \A t \in Threads : state[t] \in {"asleep", "woken"} ~> state[t] = "holds"
-----------------------------------------------------------------------------
(* The threads between curr and next of m, in the order of their tickets.   *)
QueueLength(m) == IF curr[m] <= next[m] THEN next[m] - curr[m]
                                        ELSE next[m] + TicketMod - curr[m]

OwnerAt(m, i) == CHOOSE t \in Threads : InQueue(t, m) /\ Distance(m, ticket[t]) = i - 1

queueOf == [m \in Mutexes |-> [i \in 1 .. QueueLength(m) |-> OwnerAt(m, i)]]
granted == {t \in Threads : state[t] = "holds"}

(***************************************************************************)
(* The ticket mutex implements a first-come first-served queue per client: *)
(* the order of the calls is the order in which requests are processed.    *)
(***************************************************************************)
Fifo == INSTANCE FifoLock WITH queue <- queueOf, served <- granted
ImplementsFifoLock == Fifo!FifoSpec
=============================================================================
