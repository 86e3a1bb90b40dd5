------------------------------- MODULE FifoLock -------------------------------
(***************************************************************************)
(* What the per-client request lock promises: requests of one client are   *)
(* served one at a time, in the order in which they asked.  There are no   *)
(* tickets, no counters and no condition variable here.                    *)
(***************************************************************************)
EXTENDS Sequences, FiniteSets

CONSTANTS Threads, Mutexes

VARIABLES queue,    \* [m] the threads that asked for m and have not left, oldest first
          served    \* the threads that were told they own the mutex

fifoVars == <<queue, served>>

Outside(t) == \A m \in Mutexes : \A i \in DOMAIN queue[m] : queue[m][i] # t

FifoInit ==
    /\ queue  = [m \in Mutexes |-> <<>>]
    /\ served = {}

(* t joins the end of the queue; it is served at once when it is alone. *)
Join(t, m) ==
    /\ Outside(t)
    /\ queue' = [queue EXCEPT ![m] = Append(@, t)]
    /\ served' = IF queue[m] = <<>> THEN served \cup {t} ELSE served

Serve(t, m) ==
    /\ queue[m] # <<>>
    /\ Head(queue[m]) = t
    /\ served' = served \cup {t}
    /\ UNCHANGED queue

Leave(t, m) ==
    /\ queue[m] # <<>>
    /\ Head(queue[m]) = t
    /\ t \in served
    /\ queue' = [queue EXCEPT ![m] = Tail(@)]
    /\ served' = served \ {t}

FifoNext ==
    \E t \in Threads, m \in Mutexes : Join(t, m) \/ Serve(t, m) \/ Leave(t, m)

FifoSpec == FifoInit /\ [][FifoNext]_fifoVars
=============================================================================
