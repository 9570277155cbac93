---------------------------- MODULE MCRowChunking ----------------------------
(* Instances of RowChunking for TLC. *)
EXTENDS RowChunking
=============================================================================
