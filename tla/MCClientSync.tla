---------------------------- MODULE MCClientSync ----------------------------
(***************************************************************************)
(* Small instances of ClientSync: one client that syncs two files, or two  *)
(* clients that share one.                                                 *)
(***************************************************************************)
EXTENDS ClientSync

=============================================================================
