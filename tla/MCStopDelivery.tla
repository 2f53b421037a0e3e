--------------------------- MODULE MCStopDelivery ---------------------------
(* The delivery of stops on small instances. *)
EXTENDS StopDelivery
=============================================================================
