------------------------------ MODULE MCServer ------------------------------
(***************************************************************************)
(* Instance of Server for TLC: one connection, every script of up to       *)
(* MaxLines lines.  Connections share nothing but the shutdown.            *)
(***************************************************************************)
EXTENDS Server
=============================================================================
