---------------------------- MODULE MCNamesUndo ----------------------------
(* An instance of NamesUndo for TLC. *)
EXTENDS NamesUndo
=============================================================================
