--------------------------- MODULE MCScanSession ---------------------------
(* Small instances of ScanSession for TLC: a scan that ended and the one     *)
(* that is started when the slot is free again, by either of two owners.     *)
EXTENDS ScanSession
=============================================================================
