---------------------------- MODULE MCBackOffice ----------------------------
(* Values for the constants of BackOffice.                                 *)
EXTENDS BackOffice

CONSTANTS c1, c2
=============================================================================
