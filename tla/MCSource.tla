------------------------------ MODULE MCSource ------------------------------
(***************************************************************************)
(* Small instances of SourceServer for TLC.                                *)
(***************************************************************************)
EXTENDS SourceServer
============================================================================
