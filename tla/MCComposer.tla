----------------------------- MODULE MCComposer -----------------------------
(* A small instance of Composer for TLC.                                   *)
EXTENDS Composer
=============================================================================
