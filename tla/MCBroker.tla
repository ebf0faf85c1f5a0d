------------------------------ MODULE MCBroker ------------------------------
(* The brokered store and its service for TLC: one client of the service,  *)
(* and one process that uses the store beside it.                          *)
EXTENDS BrokeredService
=============================================================================
