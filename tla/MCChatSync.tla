------------------------------ MODULE MCChatSync ------------------------------
(* Small instances of ChatSync for TLC. *)
EXTENDS ChatSync, TLC

CONSTANTS m1, m2, m3, m4

TwoMessages  == {m1, m2}
FourMessages == {m1, m2, m3, m4}
===============================================================================
