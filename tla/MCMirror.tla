------------------------------ MODULE MCMirror -------------------------------
(* One backup: mirror threads and failovers treat every backup by itself, and  *)
(* the other requests that start mirror threads are SavePolicy and Delete.     *)
EXTENDS Mirror

CONSTANTS b1

MCJob == {b1}

QuietFaults == {"unplug", "restart", "copy"}
MidSync == {"midsync"}
=============================================================================
