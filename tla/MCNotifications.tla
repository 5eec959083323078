--------------------------- MODULE MCNotifications ---------------------------
(***************************************************************************)
(* Small instances of Notifications for TLC: two worker processes and two  *)
(* events of one tenant, with at most one failing call, one killed worker  *)
(* and one repeated message.                                               *)
(***************************************************************************)
EXTENDS Notifications
=============================================================================
