--------------------------- MODULE MCRequestServer ---------------------------
(* RequestServer on small sets of threads, clients and request kinds. *)
EXTENDS RequestServer, TLC

(* Threads may be exchanged: no action or property names one of them. *)
ThreadSymmetry == Permutations(Threads)

(***************************************************************************)
(* The view of a state for the runs without liveness: variables of a       *)
(* thread that are dead until they are assigned again are left out, and    *)
(* tickets are counted from curr, as no action compares them otherwise.    *)
(***************************************************************************)
Place(t) == IF state[t] = "idle" THEN <<>> ELSE <<target[t], Distance(target[t], ticket[t])>>
LockInUse(t) == IF phase[t] \in {"free", "received", "lookup", "insert"} THEN <<>>
                                                                       ELSE lockRef[t]
LiveState == <<[m \in Mutexes |-> QueueLength(m)], state, [t \in Threads |-> Place(t)],
               phase, req, cancelled, env, table, [t \in Threads |-> LockInUse(t)],
               announced, status>>
=============================================================================
