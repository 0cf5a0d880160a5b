----------------------------- MODULE MCChatTask -----------------------------
(* Instances of ChatTask for TLC. *)
EXTENDS ChatTask, TLC
=============================================================================
