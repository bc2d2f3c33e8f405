--------------------------------- MODULE MCView ---------------------------------
(* The sizes for TLC: sides that scale exactly and sides that do not. *)
EXTENDS View

MCDisplays == {<<27, 40>>, <<32, 42>>}
MCWindows  == {<<5, 12>>, <<10, 7>>}
=================================================================================
