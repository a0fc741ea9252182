------------------------ MODULE MCResilientTransport ------------------------
(* ResilientTransport with the constants of ResilientTransport.cfg: three  *)
(* processes and two stops that overlap.                                   *)
EXTENDS ResilientTransport
=============================================================================
