---------------------------- MODULE MCKcpServer ----------------------------
(***************************************************************************)
(* An instance of KcpServer for TLC.  Conversation 1 connects by itself,   *)
(* and datagrams without an id (0) let the application choose one.         *)
(***************************************************************************)
EXTENDS KcpServer
=============================================================================
