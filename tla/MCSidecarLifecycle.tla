------------------------ MODULE MCSidecarLifecycle -------------------------
(* Instances of SidecarLifecycle for TLC. *)
EXTENDS SidecarLifecycle
=============================================================================
