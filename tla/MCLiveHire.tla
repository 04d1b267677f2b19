------------------------------ MODULE MCLiveHire ------------------------------
(* The buyer's page and its orders, for TLC. *)
EXTENDS LiveHire
===============================================================================
