----------------------------- MODULE UpdateDrain -----------------------------
(***************************************************************************)
(* scripts/install.sh over the running service: each installer polls       *)
(* /update/prepare until the service is drained, replaces the release and  *)
(* restarts the service, and posts /update/cancel from its EXIT trap.      *)
(***************************************************************************)
EXTENDS BackupService

CONSTANT Installer      \* the update unit, and installers started by hand

VARIABLE installer      \* where each installer is

drainVars == <<vars, installer>>

InstallerState == {"idle", "draining", "ready", "restarted"}

InstallerInit == installer = [i \in Installer |-> "idle"]

\* One POST /update/prepare: 200 leaves the loop, 409 waits for the next one.
Prepare(i) ==
    /\ installer[i] \in {"idle", "draining"}
    /\ ClosePending
    /\ installer' = [installer EXCEPT ![i] = IF Drained THEN "ready" ELSE "draining"]

\* An error or a signal before the restart; the trap reopens admission.
Abort(i) ==
    /\ installer[i] \in {"draining", "ready"}
    /\ OpenPending
    /\ installer' = [installer EXCEPT ![i] = "idle"]

\* systemctl restart, after the links, the units and the configuration.
RestartService(i) ==
    /\ installer[i] = "ready"
    /\ Restart
    /\ installer' = [installer EXCEPT ![i] = "restarted"]

\* The EXIT trap of an installer that succeeded, sent to the new process.
Exit(i) ==
    /\ installer[i] = "restarted"
    /\ OpenPending
    /\ installer' = [installer EXCEPT ![i] = "idle"]

InstallerStep(i) == Prepare(i) \/ Abort(i) \/ RestartService(i) \/ Exit(i)

DrainInit == Init /\ InstallerInit

DrainNext ==
    \/ ServiceNext /\ UNCHANGED installer
    \/ \E i \in Installer : InstallerStep(i)

DrainSpec == DrainInit /\ [][DrainNext]_drainVars

\* The jobs run on, but for a thread that polls the host, which nothing makes
\* answer; an installer keeps polling and is not killed.
DrainFairSpec ==
    /\ DrainSpec
    /\ \A j \in Job :
         WF_drainVars(pc[j] \notin Polling /\ JobStep(j) /\ UNCHANGED installer)
    /\ \A i \in Installer :
         WF_drainVars(Prepare(i) /\ installer[i] = "draining")

\* install.sh waits for 200 and restarts much later.  With one installer and a
\* service that stays up and is not replaced by saved settings (web.py:784), no job
\* holds a slot and none has a row that the restart would mark as interrupted at any
\* moment in between.
ReadyStaysDrained ==
    \A i \in Installer : installer[i] = "ready" =>
        /\ update_pending /\ Drained
        /\ \A j \in Job : ~HasEvent(j) /\ status[j] # "running"

\* An installer that found the service busy gets its 200 or gives up, when the
\* host ends the tasks of every backup: one task it never ends holds the update.  So
\* does a backup that was stranded before its try block, and it does so for ever.
DrainEnds ==
    (\A j \in Job : HostAnswers(j))
        => \A i \in Installer :
              installer[i] = "draining"
                 ~> (installer[i] # "draining" \/ \E j \in Job : Stranded(j))
=============================================================================
