---------------------------- MODULE MCSupervisor ----------------------------
(* No symmetry: the certificates are numbered.                              *)
EXTENDS Supervisor
=============================================================================
