---------------------------- MODULE LockService -----------------------------
(***************************************************************************)
(* What a client of the transaction manager can count on when it locks: a  *)
(* table of locks in which nothing conflicts, which gives a transaction    *)
(* that is alive what does not conflict, and from which a transaction's    *)
(* locks all go when it ends.  The promise is made to clients that can be  *)
(* trusted with the ids they use, and ends with the trust.                 *)
(***************************************************************************)
CONSTANTS Client, Resource

VARIABLES
    alive,    \* the transactions that have begun and not ended
    held,     \* for each resource, the locks that are held on it
    trusted   \* have the clients kept to the rules so far?

vars == <<alive, held, trusted>>

NoLocks == [r \in Resource |-> {}]

Init == alive = {} /\ held = NoLocks /\ trusted = TRUE

Others(c, r) == {l \in held[r] : l.txn # c}

Begin(c) ==
    /\ c \notin alive
    /\ alive' = alive \cup {c}
    /\ UNCHANGED held

Acquire(c, r, mode) ==
    /\ c \in alive
    /\ \A l \in Others(c, r) : l.mode = "SHARED" /\ mode = "SHARED"
    /\ mode = "SHARED" => held[r] = Others(c, r)
    /\ held' = [held EXCEPT ![r] = Others(c, r) \cup {[txn |-> c, mode |-> mode]}]
    /\ UNCHANGED alive

Release(c, r) ==
    /\ c \in alive
    /\ held' = [held EXCEPT ![r] = Others(c, r)]
    /\ UNCHANGED alive

End(c) ==
    /\ c \in alive
    /\ alive' = alive \ {c}
    /\ held' = [r \in Resource |-> Others(c, r)]

Crash == alive' = {} /\ held' = NoLocks

Step ==
    \/ \E c \in Client : Begin(c) \/ End(c)
    \/ \E c \in Client : \E r \in Resource :
            Release(c, r) \/ \E mode \in {"SHARED", "EXCLUSIVE"} : Acquire(c, r, mode)
    \/ Crash

Spec == Init /\ [][trusted' => trusted /\ Step]_vars
=============================================================================
