------------------------------ MODULE MCStore -------------------------------
(***************************************************************************)
(* An instance of Store for TLC.                                           *)
(***************************************************************************)
EXTENDS Store
=============================================================================
