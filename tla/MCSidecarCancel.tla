--------------------------- MODULE MCSidecarCancel ---------------------------
(* TLC instance of SidecarCancel: the module is finite as it stands, with   *)
(* any number of requests, cancels and restarts.                            *)
EXTENDS SidecarCancel
=============================================================================
