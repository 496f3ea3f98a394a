---------------------------- MODULE MCHotExport -----------------------------
EXTENDS HotExport

AllFaults == {"net", "host"}
=============================================================================
