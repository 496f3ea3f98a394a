------------------------------- MODULE SlotPool -------------------------------
(***************************************************************************)
(* What the slots of the backup service promise, without the sets, the     *)
(* events and the threads that keep the promise: at most Limit backups are *)
(* in, no two of one target, a closed pool lets none in, and a backup      *)
(* leaves alone unless the pool is made anew.                              *)
(***************************************************************************)
EXTENDS Naturals, FiniteSets

CONSTANTS Job, Target, Limit

VARIABLES
    holders,    \* <<job, target>> of every backup that is in
    closed      \* no backup may enter

poolVars == <<holders, closed>>

PoolInit == holders = {} /\ closed = FALSE

Close == closed' = TRUE /\ UNCHANGED holders
Open == closed' = FALSE /\ UNCHANGED holders

Renew == holders' = {} /\ closed' = FALSE

Leave == UNCHANGED closed /\ \E h \in holders : holders' = holders \ {h}

Acquire(j, t) ==
    /\ ~closed
    /\ Cardinality(holders) < Limit
    /\ \A h \in holders : h[1] # j /\ h[2] # t
    /\ holders' = holders \union {<<j, t>>}
    /\ UNCHANGED closed

PoolNext ==
    \/ Close \/ Open \/ Renew \/ Leave
    \/ \E j \in Job, t \in Target : Acquire(j, t)

PoolSpec == PoolInit /\ [][PoolNext]_poolVars
=============================================================================
