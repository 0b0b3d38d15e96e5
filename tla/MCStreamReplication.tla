-------------------------- MODULE MCStreamReplication --------------------------
(* StreamReplication for TLC. *)
EXTENDS StreamReplication, TLC

=============================================================================
