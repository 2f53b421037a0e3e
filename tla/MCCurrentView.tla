--------------------------- MODULE MCCurrentView ---------------------------
(* The instance of CurrentView that TLC checks. *)
EXTENDS CurrentView
=============================================================================
