--------------------------- MODULE MCResultPublish ---------------------------
(***************************************************************************)
(* Small instances of ResultPublish for TLC.                               *)
(***************************************************************************)
EXTENDS ResultPublish
=============================================================================
