------------------------------- MODULE MCPanel -------------------------------
(* Panel on small instances; its parameters are model values of the cfg files. *)
EXTENDS Panel
==============================================================================
