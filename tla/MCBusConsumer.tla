--------------------------- MODULE MCBusConsumer ---------------------------
(* The bus consumer on small instances. *)
EXTENDS BusConsumer
=============================================================================
