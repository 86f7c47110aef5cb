---------------------------- MODULE MCVisibility ----------------------------
(***************************************************************************)
(* Values for Visibility: a list by load that is cut without a word and a  *)
(* list by name that is cut with a warning, each with one object more than *)
(* it has room for.                                                        *)
(***************************************************************************)
EXTENDS Visibility

MCObjects == [primary_keys |-> {1, 2}, queries |-> {3, 4}]
MCRoom == [primary_keys |-> 1, queries |-> 1]
=============================================================================
