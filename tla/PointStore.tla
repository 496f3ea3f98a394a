------------------------------ MODULE PointStore ------------------------------
(***************************************************************************)
(* What a repository promises of its recovery points, without chunks and   *)
(* locks: one that is there stays until a deletion of its own VM takes it. *)
(***************************************************************************)
CONSTANTS Job, VM, NoTarget

VARIABLES
    points,     \* the backups that can be restored
    owner,      \* the VM of each backup
    condemned   \* the backups a deletion in progress may take

storeVars == <<points, owner, condemned>>

StoreInit ==
    /\ points = {}
    /\ owner = [j \in Job |-> NoTarget]
    /\ condemned = {}

Begin(j, v) ==
    /\ owner[j] = NoTarget
    /\ owner' = [owner EXCEPT ![j] = v]
    /\ UNCHANGED <<points, condemned>>

\* A chunk or a manifest may make several backups whole at once.
Gain ==
    /\ points \subseteq points'
    /\ UNCHANGED <<owner, condemned>>

Condemn(v) ==
    /\ condemned = {}
    /\ \A j \in condemned' : owner[j] = v
    /\ UNCHANGED <<points, owner>>

Take(j) ==
    /\ points' = points \ {j}
    /\ UNCHANGED <<owner, condemned>>

Spare ==
    /\ condemned' = {}
    /\ UNCHANGED <<points, owner>>

StoreNext ==
    \/ Gain \/ Spare
    \/ \E j \in condemned : Take(j)
    \/ \E v \in VM : Condemn(v)
    \/ \E j \in Job, v \in VM : Begin(j, v)

StoreSpec == StoreInit /\ [][StoreNext]_storeVars
=============================================================================
