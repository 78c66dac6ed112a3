--------------------------- MODULE MCNetReconnect ---------------------------
(***************************************************************************)
(* A few sockets, requests and messages; each channel holds one.           *)
(***************************************************************************)
EXTENDS NetReconnect
=============================================================================
