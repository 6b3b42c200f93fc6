-------------------------- MODULE MCScannerThreads --------------------------
(* ScannerThreads with as many threads as a few restarts of a market need. *)
EXTENDS ScannerThreads
=============================================================================
