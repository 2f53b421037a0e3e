----------------------------- MODULE MCJournal -----------------------------
(* The journal on a small instance. *)
EXTENDS Journal
=============================================================================
