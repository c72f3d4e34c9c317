----------------------------- MODULE MCChatPage -----------------------------
(* Instances of ChatPage for TLC. *)
EXTENDS ChatPage

OneText == {"to Rome"}
ThreeTexts == {"to Rome", "to Oslo", "/new"}
=============================================================================
