---------------------------- MODULE MCStoragePath ----------------------------
(* Instances of StoragePath for TLC. *)
EXTENDS StoragePath
===============================================================================
