------------------------- MODULE MCAutomationConfig -------------------------
(* A small instance of AutomationConfig for TLC. *)
EXTENDS AutomationConfig

CONSTANT p1
=============================================================================
