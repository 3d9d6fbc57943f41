---------------------------- MODULE MC_ChatServer ----------------------------
(* Instantiation of ChatServer for TLC. *)
EXTENDS ChatServer, TLC
=============================================================================
