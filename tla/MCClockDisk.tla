----------------------------- MODULE MCClockDisk -----------------------------
(* Small instance of ClockDisk for TLC. *)
EXTENDS ClockDisk
===============================================================================
