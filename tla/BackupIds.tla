------------------------------ MODULE BackupIds ------------------------------
(* The identities the service works with. *)

CONSTANTS
    Job,        \* backup ids (uuid4, never reused)
    Target,     \* what a backup is of: VM ids and container identities
    VM,         \* the targets that are virtual machines
    NoTarget    \* the target of a job that has not started

ASSUME TargetAssumption == VM \subseteq Target
ASSUME NoTargetAssumption == NoTarget \notin Target

Container == Target \ VM
=============================================================================
