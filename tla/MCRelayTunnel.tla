--------------------------- MODULE MCRelayTunnel ---------------------------
(***************************************************************************)
(* RelayTunnel with the constants of RelayTunnel.cfg: two connects of the  *)
(* client and one request.                                                 *)
(***************************************************************************)
EXTENDS RelayTunnel
=============================================================================
