--------------------------------- MODULE MCTty ---------------------------------
(* Instances of Tty for TLC; the bounds are in the configurations. *)
EXTENDS Tty
===============================================================================
