------------------------------- MODULE MCProcess -------------------------------
(* Instances of Process for TLC; the other bounds are in the configurations. *)
EXTENDS Process

\* What programs send besides replies: requests only, or events as well.
OneRequest == [t \in MsgTypes |-> IF t = "EVENT" THEN 0 ELSE 1]
OneOfEach  == [t \in MsgTypes |-> 1]
NoMessages == [t \in MsgTypes |-> 0]
===============================================================================
