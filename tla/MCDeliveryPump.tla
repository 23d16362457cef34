--------------------------- MODULE MCDeliveryPump ---------------------------
(* Instance of DeliveryPump for TLC; the values are in the .cfg file. *)
EXTENDS DeliveryPump
=============================================================================
