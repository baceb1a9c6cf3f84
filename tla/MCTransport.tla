---------------------------- MODULE MCTransport ------------------------------
(***************************************************************************)
(* A small instance of Transport: mids come again after a few requests.    *)
(***************************************************************************)
EXTENDS Transport
=============================================================================
