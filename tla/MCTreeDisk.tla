------------------------------ MODULE MCTreeDisk ------------------------------
(* Instances of TreeDisk for TLC. *)
EXTENDS TreeDisk
===============================================================================
