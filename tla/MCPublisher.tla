------------------------------ MODULE MCPublisher ------------------------------
(* An instance of Publisher for TLC.                                       *)
EXTENDS Publisher, TLC

Both == {"http", "mqtt"}
=============================================================================
