----------------------------- MODULE MCHandles ------------------------------
(* Small tables for HandleTable. *)
EXTENDS HandleTable

=============================================================================
