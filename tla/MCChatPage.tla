----------------------------- MODULE MCChatPage -----------------------------
(***************************************************************************)
(* A small instance of ChatPage for TLC: one solver with a generated       *)
(* introduction and one with a fixed one, a message whose answer is waited *)
(* for and one whose answer is not.                                        *)
(***************************************************************************)
EXTENDS ChatPage

CONSTANTS openfoam, freecad, v1, v2, m1, m2

=============================================================================
